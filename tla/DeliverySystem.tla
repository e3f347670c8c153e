--------------------------- MODULE DeliverySystem ---------------------------
(***************************************************************************)
(* The delivery service together with the runtime service it asks before   *)
(* it grants a claim and before it gives up a running intent.  The two     *)
(* share the clock and the HTTP call RuntimeClient.IsAlive, nothing else.  *)
(***************************************************************************)
EXTENDS Integers, Sequences

CONSTANTS
    Instances, Channels, StaleThreshold, DeadThreshold, MaxCursor,
    Keys, Agents, TargetsOf, Tokens, Claimers, TTLs,
    MaxTTL, PendingTTL, RunningTTL, None, MaxTime, MaxLag,
    InstanceOf    \* agent identity -> the runtime instance it names

ASSUME InstanceOfAssumption == InstanceOf \in [Agents -> Instances]

\* What module Delivery assumes of its constants.
ASSUME SystemAssumption ==
    /\ TargetsOf \in [Keys -> SUBSET Agents]
    /\ None \notin Agents \cup Tokens
    /\ TTLs \subseteq Nat \ {0}
    /\ PendingTTL \in Nat \ {0} /\ RunningTTL \in Nat \ {0}
    /\ MaxTime \in Nat

VARIABLES
    now, instances, cursors, sweep,        \* Runtime
    intents, events, claims, reaper        \* Delivery

R == INSTANCE Runtime
D == INSTANCE Delivery

runtimeVars == <<instances, cursors, sweep>>
deliveryVars == <<intents, events, claims, reaper>>
systemVars == <<now, runtimeVars, deliveryVars>>

-----------------------------------------------------------------------------

\* RuntimeClient.IsAlive: an unknown instance (404) is not alive, and neither
\* is one that is starting, stale or dead.
IsAlive(a) == instances[InstanceOf[a]].state \in {"active", "idle", "busy"}

\* The call may also time out, or answer with an error status.
AnswersFor(a) == {IF IsAlive(a) THEN "alive" ELSE "dead", "error"}

SystemInit ==
    /\ R!RuntimeInit
    /\ D!DeliveryInit

RuntimeStep ==
    /\ R!RuntimeHandler \/ R!Sweep \/ R!SweepAbort
    /\ UNCHANGED deliveryVars

DeliveryStep ==
    /\ D!DeliveryStep
    /\ UNCHANGED runtimeVars

ClaimAsks(c) ==
    /\ claims[c].pc = "liveness"
    /\ \E answer \in AnswersFor(claims[c].agent) : D!ClaimLiveness(c, answer)
    /\ UNCHANGED runtimeVars

\* The reaper asks for the holder it listed; the holder of a running row never
\* changes (Delivery!ClaimIsWonOnce), so the row still names it.
ReaperAsks(k, answers) ==
    /\ reaper.pc = "check"
    /\ k \in reaper.listed
    /\ \E answer \in AnswersFor(intents[k].claimedBy) \cap answers : D!ReapLiveness(k, answer)
    /\ UNCHANGED runtimeVars

SystemTick ==
    /\ R!Tick
    /\ UNCHANGED deliveryVars

SystemNext ==
    \/ RuntimeStep
    \/ DeliveryStep
    \/ \E c \in Claimers : ClaimAsks(c)
    \/ \E k \in Keys : ReaperAsks(k, D!Answers)
    \/ SystemTick

SystemSpec == SystemInit /\ [][SystemNext]_systemVars

Reaps(A) == A /\ UNCHANGED runtimeVars

\* Both tickers keep firing, and no statement and no call of the runtime
\* service fails every time it is tried.  Nothing is assumed of agents.
SystemFairness ==
    /\ WF_systemVars(SystemTick)
    /\ WF_systemVars(Reaps(D!ReapBegin))
    /\ SF_systemVars(Reaps(D!ExpirePendingBefore))
    /\ SF_systemVars(Reaps(D!ListRunningBefore))
    /\ \A k \in Keys : SF_systemVars(ReaperAsks(k, {"alive", "dead"}))
    /\ \A k \in Keys : SF_systemVars(reaper.failing = k /\ Reaps(D!FailRunning))
    /\ WF_systemVars(Reaps(D!ReapDone))

FairSystemSpec == SystemSpec /\ SystemFairness

-----------------------------------------------------------------------------
(* Properties *)

\* "stale runtimes cannot claim fresh work" (ARCHITECTURE.md:133): at the moment
\* a claim is granted the claimant's runtime is alive.
StaleCannotClaim ==
    [][\A k \in Keys : intents[k].state = "pending" /\ intents'[k].state = "claimed" =>
           IsAlive(intents[k].target)]_systemVars

\* An intent nobody claims is given up, and work does not stay with a runtime
\* that is gone: pending_ttl after its creation an intent eventually leaves
\* pending, and running_ttl after the claim a running one eventually ends or
\* its runtime is alive again (runReaperLoop, ExpirePendingBefore, Reap).
OverdueLeaves ==
    \A k \in Keys :
        /\ intents[k].state = "pending" /\ intents[k].createdAt + PendingTTL <= now
              ~> intents[k].state # "pending"
        /\ intents[k].state = "running" /\ intents[k].claimedAt + RunningTTL <= now
              ~> intents[k].state # "running" \/ IsAlive(intents[k].claimedBy)

=============================================================================
