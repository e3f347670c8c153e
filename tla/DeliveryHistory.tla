--------------------------- MODULE DeliveryHistory --------------------------
(***************************************************************************)
(* DeliverySystem with two history variables, for the guarantees that are  *)
(* about what was true while a request or a claim was under way.           *)
(***************************************************************************)
EXTENDS DeliverySystem

VARIABLES
    sawAlive,   \* requests whose runtime was alive at some moment since they began
    lapsed      \* held intents whose runtime was not alive at some moment

historyVars == <<sawAlive, lapsed>>

\* What the history variables record of the state a step leads to.
Observe ==
    /\ sawAlive' = {c \in Claimers :
          /\ claims'[c].pc # "idle"
          /\ c \in sawAlive \/ IsAlive(claims[c].agent)'}
    /\ lapsed' = lapsed \cup {k \in Keys :
          /\ intents'[k].state \in {"claimed", "running"}
          /\ ~IsAlive(intents[k].claimedBy)'}

HistoryInit == SystemInit /\ sawAlive = {} /\ lapsed = {}

HistoryNext == SystemNext /\ Observe

HistorySpec == HistoryInit /\ [][HistoryNext]_<<systemVars, historyVars>>

FairHistorySpec == HistorySpec /\ SystemFairness

-----------------------------------------------------------------------------
(* Properties *)

\* What the liveness checks before a claim (service.go:82-90) and in the reaper
\* (service.go:138-148) guarantee: a claim is granted only to a request whose
\* runtime was alive at some moment between the request's first read and the
\* grant, and work is never taken from a runtime that was alive all the time
\* since it was granted the claim; its intent ends only by its own report.  Nor
\* is anything given up that is not overdue at that moment: running_ttl after
\* its claim, or pending_ttl after its creation.
AliveHolderKeepsWork ==
    [][\A k \in Keys :
          /\ intents[k].state = "pending" /\ intents'[k].state = "claimed" =>
                \E c \in sawAlive : claims[c].key = k /\ claims'[c].pc = "idle"
          /\ intents[k].state = "running" /\ intents'[k].state = "failed" =>
                \/ events'[k] # events[k]
                \/ k \in lapsed /\ intents[k].claimedAt + RunningTTL <= now
          /\ intents[k].state = "pending" /\ intents'[k].state = "expired" /\ claims' = claims =>
                intents[k].createdAt + PendingTTL <= now]_<<systemVars, historyVars>>

=============================================================================
