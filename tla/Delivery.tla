------------------------------ MODULE Delivery ------------------------------
(***************************************************************************)
(* The delivery service (delivery/internal): delivery intents from their   *)
(* creation to a terminal state.  The claim, lifecycle and ingest          *)
(* endpoints and the reaper are separate processes that share only the     *)
(* database table, so every SQL statement, every transaction and every     *)
(* call of the runtime service is a step of its own; what a handler read   *)
(* before such a step may be stale when the step runs.                     *)
(*                                                                         *)
(* The answers of the runtime service are parameters here: whatever is     *)
(* shown of this module holds for every answer.  DeliverySystem composes   *)
(* it with module Runtime.                                                 *)
(***************************************************************************)
EXTENDS Integers, Sequences

CONSTANTS
    Keys,         \* idempotency keys; a key names the one row it can create
    Agents,       \* agent identities: profile, instance and session
    TargetsOf,    \* key -> the identities whose profile the key carries
    Tokens,       \* claim tokens the agents choose
    Claimers,     \* concurrent claim requests
    TTLs,         \* requested or default times to live
    MaxTTL,       \* delivery.max_ttl
    PendingTTL,   \* reaper.pending_ttl
    RunningTTL,   \* reaper.running_ttl
    None,         \* SQL null for a token or an identity
    MaxTime,      \* bound: the clock stops here
    MaxLag        \* bound: delay between a clock read and its statement

ASSUME DeliveryAssumption ==
    /\ TargetsOf \in [Keys -> SUBSET Agents]
    /\ None \notin Agents \cup Tokens
    /\ TTLs \subseteq Nat \ {0}
    /\ MaxTTL \in Nat \ {0}
    /\ PendingTTL \in Nat \ {0}
    /\ RunningTTL \in Nat \ {0}
    /\ MaxTime \in Nat
    /\ MaxLag \in Nat

VARIABLES
    now,      \* the clock
    intents,  \* den_delivery.delivery_intents
    events,   \* den_delivery.delivery_events: the reported types per intent
    claims,   \* the claim requests in progress
    reaper    \* the reaper process

deliveryVars == <<intents, events, claims, reaper>>

-----------------------------------------------------------------------------

NoTime == -1

Time == Nat \cup {NoTime}

IsTerminal(s) == s \in {"completed", "failed", "expired", "cancelled", "display_only"}

\* "absent" stands for a row that does not exist.
IntentState == {"absent", "pending", "claimed", "running", "completed",
                "failed", "expired", "cancelled", "display_only"}

EventType == {"running", "completed", "failed"}

DeliveryIntent ==
    [state       : IntentState,
     target      : Agents \cup {None},
     createdAt   : Time,
     expiresAt   : Time,
     claimToken  : Tokens \cup {None},
     claimedBy   : Agents \cup {None},
     claimedAt   : Time,
     completedAt : Time]

NoIntent ==
    [state |-> "absent", target |-> None, createdAt |-> NoTime,
     expiresAt |-> NoTime, claimToken |-> None, claimedBy |-> None,
     claimedAt |-> NoTime, completedAt |-> NoTime]

\* A row as NewDeliveryIntent builds it and createIntentSQL inserts it.
NewDeliveryIntent(target, ttl, at) ==
    [state |-> "pending", target |-> target, createdAt |-> at,
     expiresAt |-> at + ttl, claimToken |-> None, claimedBy |-> None,
     claimedAt |-> NoTime, completedAt |-> NoTime]

\* What a claim request knows: the row it is about, the identity and token it
\* carries, and the time it read first.
Claim ==
    [pc : {"idle", "liveness", "expire", "claim"}, key : Keys \cup {None},
     agent : Agents \cup {None}, token : Tokens \cup {None}, at : Time]

NoClaim == [pc |-> "idle", key |-> None, agent |-> None, token |-> None, at |-> NoTime]

\* What the reaper knows: the time it read, the running rows it listed and
\* still has to check, and the row it is about to fail.
Reaper ==
    [pc : {"idle", "expire", "list", "check", "fail"}, at : Time,
     listed : SUBSET Keys, failing : Keys \cup {None}]

NoReap == [pc |-> "idle", at |-> NoTime, listed |-> {}, failing |-> None]

Answers == {"alive", "dead", "error"}

Recent == {t \in 0..MaxTime : t <= now /\ now - t <= MaxLag}

\* Rows the cutover imported: display only or already terminal, never claimed.
Imported(k) ==
    {[NewDeliveryIntent(a, 1, 0) EXCEPT !.state = s] :
        a \in TargetsOf[k], s \in {"display_only", "cancelled"}}

DeliveryTypeOK ==
    /\ now \in 0..MaxTime
    /\ intents \in [Keys -> DeliveryIntent]
    /\ events \in [Keys -> Seq(EventType)]
    /\ claims \in [Claimers -> Claim]
    /\ reaper \in Reaper

DeliveryInit ==
    /\ now = 0
    /\ intents \in [Keys -> {NoIntent} \cup UNION {Imported(k) : k \in Keys}]
    /\ \A k \in Keys : intents[k] \in {NoIntent} \cup Imported(k)
    /\ events = [k \in Keys |-> <<>>]
    /\ claims = [c \in Claimers |-> NoClaim]
    /\ reaper = NoReap

-----------------------------------------------------------------------------
(* Ingest *)

\* Mutant: the conflict clause writes the whole row.
CreateOverwrites(k, target, ttl, at) ==
    /\ target \in TargetsOf[k]
    /\ ttl <= MaxTTL
    /\ intents' = [intents EXCEPT ![k] = NewDeliveryIntent(target, ttl, at)]
    /\ UNCHANGED <<now, events, claims, reaper>>

\* Create: the target must have the key's profile and the ttl must not exceed
\* the maximum.  A key that is already there returns the row as it is.
Create(k, target, ttl, at) ==
    /\ target \in TargetsOf[k]
    /\ ttl <= MaxTTL
    /\ intents' = [intents EXCEPT ![k] =
                     IF @.state = "absent" THEN NewDeliveryIntent(target, ttl, at) ELSE @]
    /\ UNCHANGED <<now, events, claims, reaper>>

-----------------------------------------------------------------------------
(* Claim: read the row, ask the runtime service, then compare and swap *)

\* Mutant: the expiry is not looked at.
ClaimReadIgnoresExpiry(c, k, a, t, at) ==
    /\ claims[c].pc = "idle"
    /\ intents[k].state # "absent"
    /\ intents[k].target = a
    /\ claims' = [claims EXCEPT ![c] =
          [pc |-> "liveness", key |-> k, agent |-> a, token |-> t, at |-> at]]
    /\ UNCHANGED <<now, intents, events, reaper>>

\* Everything up to the first call that can change state.  A missing row or
\* another agent's row ends the request; a row found pending past its expiry
\* is going to be expired.
ClaimRead(c, k, a, t, at) ==
    /\ claims[c].pc = "idle"
    /\ intents[k].state # "absent"
    /\ intents[k].target = a
    /\ claims' = [claims EXCEPT ![c] =
          [pc |-> IF intents[k].state = "pending" /\ at >= intents[k].expiresAt
                    THEN "expire" ELSE "liveness",
           key |-> k, agent |-> a, token |-> t, at |-> at]]
    /\ UNCHANGED <<now, intents, events, reaper>>

\* runtime.IsAlive: an error ends the request, a runtime that is not alive
\* makes it expire the intent.
ClaimLiveness(c, answer) ==
    /\ claims[c].pc = "liveness"
    /\ claims' = [claims EXCEPT ![c] =
          CASE answer = "alive" -> [@ EXCEPT !.pc = "claim"]
            [] answer = "dead"  -> [@ EXCEPT !.pc = "expire"]
            [] answer = "error" -> NoClaim]
    /\ UNCHANGED <<now, intents, events, reaper>>

\* expireIfPendingSQL, under the table's check completed_at >= created_at (the
\* caller ignores the error).
ExpireIfPending(k, at) ==
    intents' = [intents EXCEPT ![k] =
        IF @.state = "pending" /\ at >= @.createdAt
          THEN [@ EXCEPT !.state = "expired", !.completedAt = at] ELSE @]

ClaimExpire(c) ==
    /\ claims[c].pc = "expire"
    /\ ExpireIfPending(claims[c].key, claims[c].at)
    /\ claims' = [claims EXCEPT ![c] = NoClaim]
    /\ UNCHANGED <<now, events, reaper>>

\* The unique constraint on claim_token: no other row holds it.
TokenFree(k, t) == \A j \in Keys \ {k} : intents[j].claimToken # t

\* claimPendingSQL: the compare and swap on state = 'pending'.
ClaimPending(c) ==
    LET r == claims[c] IN
    /\ r.pc = "claim"
    /\ intents' = [intents EXCEPT ![r.key] =
          IF @.state = "pending" /\ TokenFree(r.key, r.token)
            THEN [@ EXCEPT !.state = "claimed", !.claimToken = r.token,
                           !.claimedBy = r.agent, !.claimedAt = r.at]
            ELSE @]
    /\ claims' = [claims EXCEPT ![c] = NoClaim]
    /\ UNCHANGED <<now, events, reaper>>

\* A failed statement, a cancelled request or a restart of the service.
ClaimAbort(c) ==
    /\ claims[c].pc # "idle"
    /\ claims' = [claims EXCEPT ![c] = NoClaim]
    /\ UNCHANGED <<now, intents, events, reaper>>

-----------------------------------------------------------------------------
(* Lifecycle events of the agent that holds the claim *)

\* Mutant: any report is accepted before the end.
canReportUntilTerminal(k, t, type) ==
    intents[k].claimToken = t /\ ~IsTerminal(intents[k].state)

canReport(k, t, type) ==
    /\ intents[k].claimToken = t
    /\ ~IsTerminal(intents[k].state)
    /\ intents[k].state \in (IF type = "running" THEN {"claimed"} ELSE {"claimed", "running"})

\* One transaction that locks the row.  completed_at >= created_at is checked
\* by the table.
ReportEvent(k, t, type, at) ==
    /\ canReport(k, t, type)
    /\ type = "running" \/ at >= intents[k].createdAt
    /\ intents' = [intents EXCEPT ![k].state = type,
                                  ![k].completedAt = IF type = "running" THEN NoTime ELSE at]
    /\ events' = [events EXCEPT ![k] = Append(@, type)]
    /\ UNCHANGED <<now, claims, reaper>>

-----------------------------------------------------------------------------
(* The reaper process *)

ReapBegin ==
    /\ reaper.pc = "idle"
    /\ reaper' = [reaper EXCEPT !.pc = "expire", !.at = now]
    /\ UNCHANGED <<now, intents, events, claims>>

\* expirePendingBeforeSQL
ExpirePendingBefore ==
    /\ reaper.pc = "expire"
    /\ intents' = [k \in Keys |->
          IF intents[k].state = "pending" /\ intents[k].createdAt <= reaper.at - PendingTTL
            THEN [intents[k] EXCEPT !.state = "expired", !.completedAt = reaper.at]
            ELSE intents[k]]
    /\ reaper' = [reaper EXCEPT !.pc = "list"]
    /\ UNCHANGED <<now, events, claims>>

\* listRunningBeforeSQL
ListRunningBefore ==
    /\ reaper.pc = "list"
    /\ reaper' = [reaper EXCEPT !.pc = "check",
          !.listed = {k \in Keys : /\ intents[k].state = "running"
                                   /\ intents[k].claimedAt # NoTime
                                   /\ intents[k].claimedAt <= reaper.at - RunningTTL}]
    /\ UNCHANGED <<now, intents, events, claims>>

\* Mutant: the answer of the liveness check is not looked at.
ReapIgnoresAlive(k, answer) ==
    /\ reaper.pc = "check"
    /\ k \in reaper.listed
    /\ reaper' = [reaper EXCEPT !.pc = "fail", !.failing = k, !.listed = @ \ {k}]
    /\ UNCHANGED <<now, intents, events, claims>>

\* Mutant: the loop goes on whatever the answer.
ReapSkips(k, answer) ==
    /\ reaper.pc = "check"
    /\ k \in reaper.listed
    /\ reaper' = [reaper EXCEPT !.listed = @ \ {k}]
    /\ UNCHANGED <<now, intents, events, claims>>

\* One turn of the loop: an alive runtime keeps its intent, an error ends the
\* whole sweep.  A row without claimed_by, failed unasked by the code, is never
\* listed: see RunningIsHeld.
ReapLiveness(k, answer) ==
    /\ reaper.pc = "check"
    /\ k \in reaper.listed
    /\ reaper' =
          CASE answer = "alive" -> [reaper EXCEPT !.listed = @ \ {k}]
            [] answer = "dead"  -> [reaper EXCEPT !.pc = "fail", !.failing = k,
                                                  !.listed = @ \ {k}]
            [] answer = "error" -> NoReap
    /\ UNCHANGED <<now, intents, events, claims>>

\* failRunningSQL, with the table's check on completed_at: no lifecycle event
\* is recorded.
FailRunning ==
    /\ reaper.pc = "fail"
    /\ intents[reaper.failing].state = "running" =>
          reaper.at >= intents[reaper.failing].createdAt
    /\ intents' = [intents EXCEPT ![reaper.failing] =
          IF @.state = "running"
            THEN [@ EXCEPT !.state = "failed", !.completedAt = reaper.at] ELSE @]
    /\ reaper' = [reaper EXCEPT !.pc = "check", !.failing = None]
    /\ UNCHANGED <<now, events, claims>>

ReapDone ==
    /\ reaper.pc = "check"
    /\ reaper.listed = {}
    /\ reaper' = NoReap
    /\ UNCHANGED <<now, intents, events, claims>>

\* A failed statement or a restart of the reaper process.
ReapAbort ==
    /\ reaper.pc # "idle"
    /\ reaper' = NoReap
    /\ UNCHANGED <<now, intents, events, claims>>

-----------------------------------------------------------------------------

Tick ==
    /\ now < MaxTime
    /\ now' = now + 1
    /\ UNCHANGED deliveryVars

\* Every step but the two that ask the runtime service.
ClaimRequest ==
    \E c \in Claimers :
        \/ \E k \in Keys, a \in Agents, t \in Tokens, at \in Recent : ClaimRead(c, k, a, t, at)
        \/ ClaimExpire(c)
        \/ ClaimPending(c)
        \/ ClaimAbort(c)

Ingest == \E k \in Keys, a \in Agents, ttl \in TTLs, at \in Recent : Create(k, a, ttl, at)

Lifecycle ==
    \E k \in Keys, t \in Tokens, type \in EventType, at \in Recent : ReportEvent(k, t, type, at)

Reap ==
    ReapBegin \/ ExpirePendingBefore \/ ListRunningBefore \/ FailRunning \/ ReapDone \/ ReapAbort

DeliveryStep == Ingest \/ ClaimRequest \/ Lifecycle \/ Reap

AskRuntime ==
    \E answer \in Answers :
        \/ \E c \in Claimers : ClaimLiveness(c, answer)
        \/ \E k \in Keys : ReapLiveness(k, answer)

DeliveryNext == DeliveryStep \/ AskRuntime \/ Tick

DeliverySpec == DeliveryInit /\ [][DeliveryNext]_<<now, deliveryVars>>

-----------------------------------------------------------------------------
(* Properties *)

\* Claim authority (service.go:75, store.go:82): an intent is only ever claimed
\* by the identity it is addressed to, although the claim is granted several
\* steps after the target was compared, and holds the token of that claim.
ClaimedByTarget ==
    \A k \in Keys :
        IF intents[k].claimToken = None
          THEN intents[k].claimedBy = None /\ intents[k].claimedAt = NoTime
          ELSE /\ intents[k].claimedBy = intents[k].target
               /\ intents[k].claimedAt # NoTime

\* Every intent that is claimed or running has a holder, so the reaper always
\* has a runtime to ask about (service.go:129-138: the branch for a row without
\* claimed_by is never taken), and a terminal outcome the holder reported or
\* the reaper set never appears on an intent nobody held.
RunningIsHeld ==
    \A k \in Keys :
        intents[k].state \in {"claimed", "running", "completed", "failed"} <=>
            intents[k].claimToken # None

\* A claim is stamped before the intent's expiry (service.go:78-90), although
\* the grant itself may come later: the request that read an expired row
\* never reaches the compare and swap, and a row read in another state is
\* never pending again.
ClaimedBeforeExpiry ==
    \A k \in Keys :
        intents[k].claimedAt # NoTime => intents[k].claimedAt < intents[k].expiresAt

\* A granted claim carries both facts the request was admitted on, its target
\* and its time, from the checks of Claim to the compare and swap of
\* ClaimPending and for as long as the row is claimed (service.go:70-98).
ClaimsAreAuthorized == DeliveryTypeOK /\ ClaimedByTarget /\ ClaimedBeforeExpiry

\* The event log and the state column agree (store.go:104-146): at most one
\* running event, nothing after a terminal event, and a log that ends in
\* running under a failed intent exactly when the reaper failed it.
EventLogAgrees ==
    \A k \in Keys :
        events[k] \in
            CASE intents[k].state = "running"   -> {<<"running">>}
              [] intents[k].state = "completed" -> {<<"completed">>, <<"running", "completed">>}
              [] intents[k].state = "failed"    ->
                    {<<"failed">>, <<"running", "failed">>, <<"running">>}
              [] OTHER -> {<<>>}

\* A claim token names one intent (001_initial.sql: unique (claim_token)), so
\* a token presented with a lifecycle event can never drive another intent.
TokenNamesOneIntent ==
    \A j, k \in Keys :
        j # k /\ intents[j].claimToken # None => intents[j].claimToken # intents[k].claimToken

\* "terminal states are final" (ARCHITECTURE.md:111): no interleaving of late
\* claims, reports, reaper steps or repeated creates changes a terminal row or
\* adds an event to it.
TerminalIsFinal ==
    [][\A k \in Keys : IsTerminal(intents[k].state) =>
           intents'[k] = intents[k] /\ events'[k] = events[k]]_<<now, deliveryVars>>

\* "duplicate claims are rejected atomically" (ARCHITECTURE.md:134): once a
\* claim was granted no other request replaces its token, holder or time, and
\* nothing returns the intent to pending.
ClaimIsWonOnce ==
    [][\A k \in Keys : intents[k].claimToken # None =>
           /\ intents'[k].claimToken = intents[k].claimToken
           /\ intents'[k].claimedBy = intents[k].claimedBy
           /\ intents'[k].claimedAt = intents[k].claimedAt
           /\ intents'[k].state # "pending"]_<<now, deliveryVars>>

-----------------------------------------------------------------------------
(* The intents as the abstract specification sees them *)

Abstract == INSTANCE IntentLifecycle WITH
    Intents <- Keys,
    phase   <- [k \in Keys |-> intents[k].state],
    target  <- [k \in Keys |-> intents[k].target],
    grant   <- [k \in Keys |-> intents[k].claimToken]

\* The service implements the intent lifecycle: seen through the state, target
\* and token columns, every step of every handler and of the reaper is a step
\* of IntentLifecycle or none.
ImplementsLifecycle == Abstract!LifecycleSpec

=============================================================================
