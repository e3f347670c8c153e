---------------------------- MODULE CheckVerdict ----------------------------
(***************************************************************************)
(* How the review service asks GitHub for the verdict on one commit        *)
(* (review/internal/github_checks.go, github_checks_earlier.go).  CheckGate *)
(* takes the answer as it comes; here the answer is computed: CheckChange  *)
(* reads the runs of the gated commit, the later commits of its ref, the   *)
(* workflow runs of the ref and the runs of some later commits, one request *)
(* after the other, while GitHub goes on pushing, running and re-running.  *)
(*                                                                         *)
(* The ref is a line of commits 1..head.  One required check is the one    *)
(* job of a workflow with a paths filter; a second workflow without one    *)
(* runs beside it.  Commit 1 is before the gated one.                      *)
(***************************************************************************)
EXTENDS Integers, FiniteSets, FiniteSetsExt

CONSTANTS
    LaterCommitLimit,   \* github.later_commit_limit
    LaterCommits,       \* bound: commits on the ref when the gate is polled
    MaxGitHubMoves      \* bound: what GitHub does during one poll

ASSUME VerdictAssumption ==
    LaterCommitLimit \in Nat /\ LaterCommits \in Nat /\ MaxGitHubMoves \in Nat

VARIABLES
    head,       \* number of commits on the ref
    check,      \* check[c]: latest run of the required check on commit c
    beside,     \* beside[c]: run of the other workflow
    readable,   \* may the token read Actions
    ever,       \* history: the commits the check has ever succeeded on
    probe,      \* the CheckChange call
    ghMoves     \* moves GitHub has left

verdictVars == <<head, check, beside, readable, ever, probe, ghMoves>>

-----------------------------------------------------------------------------

Gated == 2
AllCommits == 1..(Gated + LaterCommits + 1)

RunState == {"none", "active", "success", "failure", "cancelled"}

Completed(s) == s \in {"success", "failure", "cancelled"}

successfulGitHubConclusion(s) == s = "success"

\* own, later, listed, read: what the call knows; answer: its result, with
\* whether the check is missing and every observed run terminal.
NoProbe ==
    [pc |-> "own", own |-> "none", ownBeside |-> "none", later |-> {},
     useful |-> {}, active |-> FALSE,
     actions |-> FALSE, read |-> [c \in {} |-> "none"],
     answer |-> "none", terminal |-> FALSE, proof |-> 0, moved |-> FALSE]

VerdictTypeOK ==
    /\ head \in Gated..(Gated + LaterCommits + 1)
    /\ check \in [AllCommits -> RunState]
    /\ beside \in [AllCommits -> RunState]
    /\ ever \subseteq AllCommits
    /\ probe.pc \in {"own", "compare", "list", "read", "settle", "jobs", "done"}
    /\ probe.answer \in {"none", "passed", "failed", "pending", "missing"}
    /\ ghMoves \in 0..MaxGitHubMoves

\* Where a poll may find GitHub: the runs of commit 1 are over; what the other
\* workflow did matters on the gated commit and, as a pass, on later ones.
VerdictInit ==
    /\ head \in Gated..(Gated + LaterCommits)
    /\ \E before \in {"none", "success", "failure"}, own \in RunState,
          after \in [(Gated + 1)..head -> RunState \ {"cancelled"}] :
          check = [c \in AllCommits |-> IF c < Gated THEN before
                                        ELSE IF c = Gated THEN own
                                        ELSE IF c <= head THEN after[c] ELSE "none"]
    /\ \E own \in {"none", "active", "success"}, passed \in SUBSET ((Gated + 1)..head) :
          beside = [c \in AllCommits |-> IF c = Gated THEN own
                                         ELSE IF c \in passed THEN "success" ELSE "none"]
    /\ readable \in BOOLEAN
    /\ ever = {c \in AllCommits : check[c] = "success"}
    /\ probe = NoProbe
    /\ ghMoves = MaxGitHubMoves

-----------------------------------------------------------------------------
(* GitHub: a push, a run that finishes, is run again or is started by hand.  *)

Push ==
    /\ head < Gated + LaterCommits + 1
    /\ head' = head + 1
    /\ \E s \in {"none", "active"} : check' = [check EXCEPT ![head + 1] = s]
    /\ beside' = [beside EXCEPT ![head + 1] = "active"]
    /\ UNCHANGED ever

RunMoves(c, s) ==
    /\ \/ check[c] = "active" /\ Completed(s)
       \/ Completed(check[c]) /\ s = "active"
       \/ check[c] = "none" /\ c = head /\ s = "active"
    /\ check' = [check EXCEPT ![c] = s]
    /\ ever' = IF s = "success" THEN ever \cup {c} ELSE ever
    /\ UNCHANGED <<head, beside>>

GitHubMoves ==
    /\ ghMoves > 0
    /\ probe.pc # "done"
    /\ Push \/ \E c \in 1..head, s \in RunState : RunMoves(c, s)
    /\ ghMoves' = ghMoves - 1
    /\ probe' = [probe EXCEPT !.moved = (@ \/ probe.pc # "own")]
    /\ UNCHANGED readable

-----------------------------------------------------------------------------
(* The decision, evaluateGitHubGateRuns.                                      *)

\* Whether the commit itself leaves the check to later commits.
checksNeedingLaterCommits(own) == own \in {"none", "failure", "cancelled"}

laterCommitsSatisfy(read) == \E c \in DOMAIN read : successfulGitHubConclusion(read[c])

\* The verdict on the one required check; "missing" is a pending gate that
\* names it in MissingRequiredChecks.
evaluateGitHubGateRuns(own, read, earlier) ==
    IF own = "active" THEN "pending"
    ELSE IF successfulGitHubConclusion(own) \/ laterCommitsSatisfy(read) THEN "passed"
    ELSE IF \E c \in DOMAIN read : read[c] = "active" THEN "pending"
    ELSE IF own = "failure" THEN "failed"
    ELSE IF own = "cancelled" \/ \E c \in DOMAIN read : read[c] # "none" THEN "pending"
    ELSE IF earlier = "success" THEN "passed"
    ELSE "missing"

Nearest(S, n) == {c \in S : Cardinality({d \in S : d < c}) < n}

\* laterCandidateCommits and nearestAndHeadCommits: the head always, and the
\* nearest of the others that have a run that passed or has not finished.
laterCandidateCommits(later, useful, actions) ==
    IF later = {} THEN {}
    ELSE LET last == Max(later)
             rest == IF actions THEN (useful \cap later) \ {last} ELSE later \ {last}
         IN  Nearest(rest, LaterCommitLimit - 1) \cup {last}

-----------------------------------------------------------------------------
(* CheckChange, one request at a time.  Any request may fail for good, which *)
(* ends the poll without a verdict (NextPoll of CheckGate).                  *)

ProbeTo(p) == probe' = p /\ UNCHANGED <<head, check, beside, readable, ever, ghMoves>>

Answer(p, earlier) ==
    [p EXCEPT !.answer = evaluateGitHubGateRuns(p.own, p.read, earlier)]

\* The runs of one commit: the Checks API, or the Actions jobs of the commit
\* when the token is refused there; both give the latest run of each name.
commitCheckRuns ==
    /\ probe.pc = "own"
    /\ LET seen == [probe EXCEPT !.own = check[Gated], !.ownBeside = beside[Gated],
                        !.terminal = /\ {check[Gated], beside[Gated]} # {"none"}
                                     /\ "active" \notin {check[Gated], beside[Gated]}]
       IN ProbeTo(IF checksNeedingLaterCommits(seen.own) /\ LaterCommitLimit > 0
               THEN [seen EXCEPT !.pc = "compare"]
               ELSE [Answer(seen, "none") EXCEPT !.pc = "done"])

\* A ref that cannot be compared or does not contain the commit gives none.
laterCommitsOnRef ==
    /\ probe.pc = "compare"
    /\ \E later \in {{}, (Gated + 1)..head} :
          ProbeTo([probe EXCEPT !.pc = "list", !.later = later])

\* What the list of workflow runs says: which commits are worth reading, and
\* whether a run for this change has not finished.
branchWorkflowRuns ==
    LET states(c) == {check[c], beside[c]}
        wanted == {Gated} \cup probe.later
    IN
    /\ probe.pc = "list"
    /\ ProbeTo([probe EXCEPT !.pc = "read", !.actions = readable,
                !.useful = IF readable
                           THEN {c \in 1..head : states(c) \cap {"active", "success"} # {}} ELSE {},
                !.active = readable /\ \E c \in wanted : "active" \in states(c)])

Unread ==
    laterCandidateCommits(probe.later, probe.useful, probe.actions) \ DOMAIN probe.read

\* Candidates are read nearest first, until the check is satisfied.
ReadCandidate ==
    /\ probe.pc = "read"
    /\ Unread # {} /\ ~laterCommitsSatisfy(probe.read)
    /\ LET c == Min(Unread) IN
       ProbeTo([probe EXCEPT !.read = [d \in DOMAIN @ \cup {c} |-> IF d = c THEN check[c] ELSE @[d]]])

\* A missing check may have passed before, when nothing for this change is
\* queued or running and the runs of the commit have finished.
SettleOwn ==
    LET p == Answer(probe, "none")
        q == [p EXCEPT !.terminal = @ /\ ~p.active]
    IN
    /\ probe.pc = "read"
    /\ Unread = {} \/ laterCommitsSatisfy(probe.read)
    /\ ProbeTo(IF p.answer # "missing" \/ p.active \/ ~p.actions \/ "active" \in {p.own, p.ownBeside}
            THEN [q EXCEPT !.pc = "done"]
            ELSE [q EXCEPT !.pc = "jobs"])

\* Mutant: runs on the commit and on later ones are passed over.
NearestOfAny(ran) == {c \in ran : c < Gated}

\* nearestEarlierWorkflowRuns: none when the workflow has a run on the gated
\* commit or on one of the later ones the comparison named; else its newest
\* run, which may be on a commit pushed since.
nearestEarlierWorkflowRuns(ran) ==
    IF ran \cap (probe.later \cup {Gated}) # {} THEN {} ELSE ran

\* earlierPathFilteredPasses: the second list and the jobs of the run it
\* names.  The skip is proven when the run is on an ancestor of the gated
\* commit and every file changed since is one the filter leaves out
\* (workflowSkippedSince, triggeredBy); which it is, is up to the change.
earlierPathFilteredPasses ==
    LET ran == nearestEarlierWorkflowRuns({c \in 1..head : check[c] # "none"}) IN
    /\ probe.pc = "jobs"
    /\ \E skipped \in BOOLEAN :
          LET found == ran # {} /\ check[Max(ran)] = "success" /\ skipped /\ Max(ran) < Gated
          IN ProbeTo([Answer(probe, IF found THEN "success" ELSE "none") EXCEPT
                       !.pc = "done", !.proof = IF found THEN Max(ran) ELSE 0])

ProbeFails == probe.pc \notin {"own", "done"} /\ ProbeTo([NoProbe EXCEPT !.moved = probe.moved])

CheckChange ==
    \/ commitCheckRuns \/ laterCommitsOnRef \/ branchWorkflowRuns
    \/ ReadCandidate \/ SettleOwn \/ earlierPathFilteredPasses

\* The poll of a commit that nothing ran on, for runs that look elsewhere.
VerdictIdle ==
    /\ head = Gated
    /\ check = [c \in AllCommits |-> "none"] /\ beside = check
    /\ readable = FALSE /\ ever = {} /\ probe = NoProbe /\ ghMoves = 0

VerdictNext == GitHubMoves \/ CheckChange \/ ProbeFails

VerdictSpec == VerdictInit /\ [][VerdictNext]_verdictVars

-----------------------------------------------------------------------------
(* Properties *)

\* missingRequiredChecksAreInvalid: a check is missing and every run seen on
\* the commit has finished; after the grace the gate fails as misnamed.
Misnamed == probe.answer = "missing" /\ probe.terminal

\* Whatever GitHub does between the requests, a gate passes only on a success
\* of the required check, on the commit or on code that contains it; or, when
\* its workflow has run nowhere from the gated commit on, on the last run
\* before it (docs/github-check-gates-agent-usage.md:92-110).
PassIsEarned ==
    /\ VerdictTypeOK
    /\ probe.answer = "passed" =>
        IF probe.proof = 0 THEN \E c \in ever : c >= Gated
        ELSE /\ probe.proof \in ever
             /\ \A c \in (probe.proof + 1)..head : check[c] = "none"

\* The documented rules (docs/github-check-gates-agent-usage.md:63-90) when
\* GitHub stands still during the poll: the head of the ref is always read;
\* a check fails early exactly when it failed on the gated commit and no later
\* run passed or is still running, as long as the limit leaves none of those
\* unread; and a check is not called misnamed while a run is under way.
VerdictAsDocumented ==
    probe.pc = "done" /\ ~probe.moved =>
        LET later == probe.later
            between == later \ {head}
        IN
        /\ head \in later /\ check[head] = "success" /\ check[Gated] # "active"
              => probe.answer = "passed"
        /\ probe.actions /\ Cardinality(between \cap probe.useful) < LaterCommitLimit =>
              (probe.answer = "failed"
                 <=> /\ check[Gated] = "failure"
                     /\ \A c \in later : check[c] \notin {"success", "active"})
        /\ probe.actions /\ Misnamed =>
              \A c \in later \cup {Gated} : "active" \notin {check[c], beside[c]}

\* The answer of one poll is both safe, while GitHub moves, and the documented
\* one when it stands still (evaluateGitHubGateRuns, EvaluateGate).
VerdictIsRight == PassIsEarned /\ VerdictAsDocumented

=============================================================================
