--------------------------- MODULE DeliveryProofs ---------------------------
(***************************************************************************)
(* Proofs about delivery and about the views observation shows of it and   *)
(* its neighbours: module Delivery, for every set of keys, agents, tokens  *)
(* and concurrent requests, every configuration of ttls and every answer   *)
(* of the runtime service; module Observation, for any rows, limits and    *)
(* changes between the statements of a view; and module Timeline, the feed *)
(* read from their rows, for any page sizes, commits and broken streams.   *)
(***************************************************************************)
EXTENDS Delivery, Observation, Timeline, SequenceTheorems, FiniteSetTheorems, TLAPS

vars == <<now, deliveryVars>>

\* The fields an import or an insertion sets have their types.
LEMMA NewIntentType ==
    ASSUME NEW a \in Agents, NEW ttl \in Nat, NEW at \in Nat
    PROVE  /\ NewDeliveryIntent(a, ttl, at) \in DeliveryIntent
           /\ NewDeliveryIntent(a, ttl, at).state = "pending"
           /\ NewDeliveryIntent(a, ttl, at).target = a
           /\ NewDeliveryIntent(a, ttl, at).claimToken = None
           /\ NewDeliveryIntent(a, ttl, at).claimedBy = None
           /\ NewDeliveryIntent(a, ttl, at).claimedAt = NoTime
<1>1. at + ttl \in Nat
  OBVIOUS
<1> QED
  BY <1>1 DEF NewDeliveryIntent, DeliveryIntent, IntentState, Time, NoTime

\* The rows the cutover import leaves have their types.
LEMMA ImportedType ==
    ASSUME NEW k \in Keys, NEW r \in Imported(k)
    PROVE  /\ r \in DeliveryIntent
           /\ r.state \in {"display_only", "cancelled"}
           /\ r.target \in Agents
           /\ r.claimToken = None
           /\ r.claimedBy = None
           /\ r.claimedAt = NoTime
<1>1. PICK a \in TargetsOf[k], s \in {"display_only", "cancelled"} :
          r = [NewDeliveryIntent(a, 1, 0) EXCEPT !.state = s]
  BY DEF Imported
<1>2. a \in Agents
  BY <1>1, DeliveryAssumption
<1>3. NewDeliveryIntent(a, 1, 0) \in DeliveryIntent
  BY <1>2, NewIntentType
<1>4. /\ NewDeliveryIntent(a, 1, 0).target = a
      /\ NewDeliveryIntent(a, 1, 0).claimToken = None
      /\ NewDeliveryIntent(a, 1, 0).claimedBy = None
      /\ NewDeliveryIntent(a, 1, 0).claimedAt = NoTime
  BY <1>2, NewIntentType
<1> QED
  BY <1>1, <1>2, <1>3, <1>4 DEF DeliveryIntent, IntentState

\* Appending a batch of events to an intent's log leaves a sequence of events.
LEMMA AppendEvents ==
    ASSUME NEW d \in EventType, NEW e \in EventType
    PROVE  Append(<<>>, e) = <<e>> /\ Append(<<d>>, e) = <<d, e>>
<1>1. Append(<<>>, e) = <<e>>
  <2>1. /\ <<>> \in Seq(EventType) /\ <<e>> \in Seq(EventType)
        /\ Len(<<>>) = 0 /\ Len(<<e>>) = 1 /\ <<e>>[1] = e
    OBVIOUS
  <2>2. /\ Append(<<>>, e) \in Seq(EventType)
        /\ Len(Append(<<>>, e)) = 1
        /\ Append(<<>>, e)[1] = e
    BY <2>1
  <2> QED
    BY <2>1, <2>2, SeqEqual
<1>2. Append(<<d>>, e) = <<d, e>>
  <2>1. /\ <<d>> \in Seq(EventType) /\ <<d, e>> \in Seq(EventType)
        /\ Len(<<d>>) = 1 /\ Len(<<d, e>>) = 2 /\ <<d>>[1] = d
        /\ <<d, e>>[1] = d /\ <<d, e>>[2] = e
    OBVIOUS
  <2>2. /\ Append(<<d>>, e) \in Seq(EventType)
        /\ Len(Append(<<d>>, e)) = 2
        /\ Append(<<d>>, e)[1] = d
        /\ Append(<<d>>, e)[2] = e
    BY <2>1
  <2>3. \A i \in 1 .. Len(Append(<<d>>, e)) : Append(<<d>>, e)[i] = <<d, e>>[i]
    <3>1. \A i \in 1 .. Len(Append(<<d>>, e)) : i = 1 \/ i = 2
      BY <2>2
    <3> QED
      BY <2>1, <2>2, <3>1
  <2>4. Len(Append(<<d>>, e)) = Len(<<d, e>>)
    BY <2>1, <2>2
  <2> QED
    BY <2>1, <2>2, <2>3, <2>4, SeqEqual
<1> QED
  BY <1>1, <1>2

\* The absent row has the type of a row.
LEMMA NoIntentType == NoIntent \in DeliveryIntent
BY DEF NoIntent, DeliveryIntent, IntentState, Time, NoTime

\* The idle claim request has the type of a request.
LEMMA NoClaimType == NoClaim \in Claim
BY DEF NoClaim, Claim, Time, NoTime

\* The idle reaper has the type of a reaper.
LEMMA NoReapType == NoReap \in Reaper
BY DEF NoReap, Reaper, Time, NoTime

\* The tables as the migration leaves them are typed.
LEMMA TypeInit == DeliveryInit => DeliveryTypeOK
<1> SUFFICES ASSUME DeliveryInit PROVE DeliveryTypeOK
  OBVIOUS
<1>1. intents \in [Keys -> DeliveryIntent]
  BY ImportedType, NoIntentType DEF DeliveryInit
<1>2. events \in [Keys -> Seq(EventType)]
  BY DEF DeliveryInit
<1> QED
  BY <1>1, <1>2, NoClaimType, NoReapType, DeliveryAssumption DEF DeliveryInit, DeliveryTypeOK

\* Every handler step keeps the types.
LEMMA TypeStep == DeliveryTypeOK /\ [DeliveryNext]_vars => DeliveryTypeOK'
<1> SUFFICES ASSUME DeliveryTypeOK, [DeliveryNext]_vars PROVE DeliveryTypeOK'
  OBVIOUS
<1> USE DeliveryAssumption
<1>1. ASSUME NEW k \in Keys, NEW a \in Agents, NEW ttl \in TTLs, NEW at \in Recent,
             Create(k, a, ttl, at)
      PROVE  DeliveryTypeOK'
  BY <1>1, NewIntentType DEF DeliveryTypeOK, Create, Recent
<1>2. ASSUME NEW c \in Claimers, NEW k \in Keys, NEW a \in Agents, NEW t \in Tokens,
             NEW at \in Recent, ClaimRead(c, k, a, t, at)
      PROVE  DeliveryTypeOK'
  <2>1. [pc |-> IF intents[k].state = "pending" /\ at >= intents[k].expiresAt
                  THEN "expire" ELSE "liveness",
         key |-> k, agent |-> a, token |-> t, at |-> at] \in Claim
    BY DEF Claim, Recent, Time
  <2> QED
    BY <1>2, <2>1 DEF DeliveryTypeOK, ClaimRead
<1>3. ASSUME NEW c \in Claimers, NEW answer \in Answers, ClaimLiveness(c, answer)
      PROVE  DeliveryTypeOK'
  <2>1. \A r \in Claim : /\ [r EXCEPT !.pc = "claim"] \in Claim
                         /\ [r EXCEPT !.pc = "expire"] \in Claim
    BY DEF Claim
  <2> QED
    BY <1>3, <2>1, NoClaimType DEF DeliveryTypeOK, ClaimLiveness, Answers
<1>4. ASSUME NEW c \in Claimers, ClaimExpire(c)
      PROVE  DeliveryTypeOK'
  <2>1. \A r \in DeliveryIntent :
            [r EXCEPT !.state = "expired", !.completedAt = claims[c].at] \in DeliveryIntent
    BY DEF DeliveryIntent, IntentState, DeliveryTypeOK, Claim
  <2> QED
    BY <1>4, <2>1, NoClaimType DEF DeliveryTypeOK, ClaimExpire, ExpireIfPending
<1>5. ASSUME NEW c \in Claimers, ClaimPending(c)
      PROVE  DeliveryTypeOK'
  <2>1. \A r \in DeliveryIntent :
            [r EXCEPT !.state = "claimed", !.claimToken = claims[c].token,
                      !.claimedBy = claims[c].agent, !.claimedAt = claims[c].at] \in DeliveryIntent
    BY DEF DeliveryIntent, IntentState, DeliveryTypeOK, Claim
  <2> QED
    BY <1>5, <2>1, NoClaimType DEF DeliveryTypeOK, ClaimPending
<1>6. ASSUME NEW c \in Claimers, ClaimAbort(c)
      PROVE  DeliveryTypeOK'
  BY <1>6, NoClaimType DEF DeliveryTypeOK, ClaimAbort
<1>7. ASSUME NEW k \in Keys, NEW t \in Tokens, NEW type \in EventType, NEW at \in Recent,
             ReportEvent(k, t, type, at)
      PROVE  DeliveryTypeOK'
  <2>1. \A r \in DeliveryIntent, s \in EventType, time \in Time :
            [r EXCEPT !.state = s, !.completedAt = time] \in DeliveryIntent
    BY DEF DeliveryIntent, IntentState, EventType
  <2>2. (IF type = "running" THEN NoTime ELSE at) \in Time
    BY DEF Recent, Time
  <2>3. intents' = [intents EXCEPT ![k] =
            [@ EXCEPT !.state = type, !.completedAt = IF type = "running" THEN NoTime ELSE at]]
    BY <1>7 DEF ReportEvent, DeliveryTypeOK, DeliveryIntent
  <2>4. intents' \in [Keys -> DeliveryIntent]
    BY <2>1, <2>2, <2>3 DEF DeliveryTypeOK
  <2>5. events' \in [Keys -> Seq(EventType)]
    BY <1>7 DEF ReportEvent, DeliveryTypeOK
  <2> QED
    BY <1>7, <2>4, <2>5 DEF DeliveryTypeOK, ReportEvent
<1>8. ASSUME ReapBegin PROVE DeliveryTypeOK'
  <2>1. \A at \in Time : [reaper EXCEPT !.pc = "expire", !.at = at] \in Reaper
    BY DEF DeliveryTypeOK, Reaper
  <2>2. now \in Time
    BY DEF DeliveryTypeOK, Time
  <2> QED
    BY <1>8, <2>1, <2>2 DEF DeliveryTypeOK, ReapBegin
<1>9. ASSUME ExpirePendingBefore PROVE DeliveryTypeOK'
  <2>1. \A r \in DeliveryIntent :
            [r EXCEPT !.state = "expired", !.completedAt = reaper.at] \in DeliveryIntent
    BY DEF DeliveryIntent, IntentState, DeliveryTypeOK, Reaper
  <2>2. [reaper EXCEPT !.pc = "list"] \in Reaper
    BY DEF DeliveryTypeOK, Reaper
  <2> QED
    BY <1>9, <2>1, <2>2 DEF DeliveryTypeOK, ExpirePendingBefore
<1>10. ASSUME ListRunningBefore PROVE DeliveryTypeOK'
  BY <1>10 DEF DeliveryTypeOK, ListRunningBefore, Reaper
<1>11. ASSUME NEW k \in Keys, NEW answer \in Answers, ReapLiveness(k, answer)
       PROVE  DeliveryTypeOK'
  <2>1. /\ [reaper EXCEPT !.listed = @ \ {k}] \in Reaper
        /\ [reaper EXCEPT !.pc = "fail", !.failing = k, !.listed = @ \ {k}] \in Reaper
    BY DEF DeliveryTypeOK, Reaper
  <2> QED
    BY <1>11, <2>1, NoReapType DEF DeliveryTypeOK, ReapLiveness, Answers
<1>12. ASSUME FailRunning PROVE DeliveryTypeOK'
  <2>1. \A r \in DeliveryIntent :
            [r EXCEPT !.state = "failed", !.completedAt = reaper.at] \in DeliveryIntent
    BY DEF DeliveryIntent, IntentState, DeliveryTypeOK, Reaper
  <2>2. [reaper EXCEPT !.pc = "check", !.failing = None] \in Reaper
    BY DEF DeliveryTypeOK, Reaper
  <2> QED
    BY <1>12, <2>1, <2>2 DEF DeliveryTypeOK, FailRunning
<1>13. ASSUME ReapDone \/ ReapAbort PROVE DeliveryTypeOK'
  BY <1>13, NoReapType DEF DeliveryTypeOK, ReapDone, ReapAbort
<1>14. ASSUME Tick PROVE DeliveryTypeOK'
  BY <1>14 DEF DeliveryTypeOK, Tick, deliveryVars
<1>15. ASSUME UNCHANGED vars PROVE DeliveryTypeOK'
  BY <1>15 DEF DeliveryTypeOK, vars, deliveryVars
<1> QED
  BY <1>1, <1>2, <1>3, <1>4, <1>5, <1>6, <1>7, <1>8, <1>9, <1>10, <1>11, <1>12, <1>13,
     <1>14, <1>15
     DEF DeliveryNext, DeliveryStep, Ingest, ClaimRequest, Lifecycle, Reap, AskRuntime

\* The tables and the state of every handler keep their types (the columns of
\* den_delivery.delivery_intents, Claim and Reap).
THEOREM TypeCorrect == DeliverySpec => []DeliveryTypeOK
<1>1. DeliveryInit => DeliveryTypeOK
  BY TypeInit
<1>2. DeliveryTypeOK /\ [DeliveryNext]_vars => DeliveryTypeOK'
  BY TypeStep
<1> QED
  BY <1>1, <1>2, PTL DEF DeliverySpec, vars

-----------------------------------------------------------------------------
(* What a step may do to one row, and to one claim request *)

KeptAddress(k) ==
    /\ intents'[k].target = intents[k].target
    /\ intents'[k].createdAt = intents[k].createdAt
    /\ intents'[k].expiresAt = intents[k].expiresAt

KeptClaim(k) ==
    /\ intents'[k].claimToken = intents[k].claimToken
    /\ intents'[k].claimedBy = intents[k].claimedBy
    /\ intents'[k].claimedAt = intents[k].claimedAt

RowSame(k) == intents'[k] = intents[k] /\ events'[k] = events[k]

RowCreated(k) ==
    /\ intents[k].state = "absent"
    /\ \E a \in Agents, ttl \in Nat, at \in Nat : intents'[k] = NewDeliveryIntent(a, ttl, at)
    /\ events'[k] = events[k]

RowExpired(k) ==
    /\ intents[k].state = "pending"
    /\ intents'[k].state = "expired"
    /\ KeptAddress(k) /\ KeptClaim(k)
    /\ events'[k] = events[k]

RowGranted(k) ==
    /\ intents[k].state = "pending"
    /\ intents'[k].state = "claimed"
    /\ KeptAddress(k)
    /\ \E c \in Claimers :
          /\ claims[c].pc = "claim"
          /\ claims[c].key = k
          /\ intents'[k].claimToken = claims[c].token
          /\ intents'[k].claimedBy = claims[c].agent
          /\ intents'[k].claimedAt = claims[c].at
          /\ TokenFree(k, claims[c].token)
    /\ \A j \in Keys \ {k} : intents'[j] = intents[j]
    /\ events'[k] = events[k]

RowReported(k) ==
    /\ intents[k].state \in {"claimed", "running"}
    /\ intents'[k].state \in EventType
    /\ intents'[k].state = "running" => intents[k].state = "claimed"
    /\ KeptAddress(k) /\ KeptClaim(k)
    /\ events'[k] = Append(events[k], intents'[k].state)

RowFailed(k) ==
    /\ intents[k].state = "running"
    /\ intents'[k].state = "failed"
    /\ KeptAddress(k) /\ KeptClaim(k)
    /\ events'[k] = events[k]
    /\ reaper.pc = "fail" /\ reaper.failing = k

RowStep(k) ==
    \/ RowSame(k) \/ RowCreated(k) \/ RowExpired(k) \/ RowGranted(k)
    \/ RowReported(k) \/ RowFailed(k)

\* Every step of the service does one of six things to a row.
LEMMA RowStepLemma ==
    ASSUME DeliveryTypeOK, [DeliveryNext]_vars, NEW k \in Keys
    PROVE  RowStep(k)
<1> USE DeliveryAssumption
<1>a. /\ intents \in [Keys -> DeliveryIntent]
      /\ events \in [Keys -> Seq(EventType)]
      /\ intents[k] \in DeliveryIntent
  BY DEF DeliveryTypeOK
<1>1. ASSUME NEW j \in Keys, NEW a \in Agents, NEW ttl \in TTLs, NEW at \in Recent,
             Create(j, a, ttl, at)
      PROVE  RowStep(k)
  <2>1. CASE k = j /\ intents[k].state = "absent"
    <3>1. intents'[k] = NewDeliveryIntent(a, ttl, at) /\ events'[k] = events[k]
      BY <1>1, <1>a, <2>1 DEF Create
    <3>2. ttl \in Nat /\ at \in Nat
      BY DEF Recent
    <3> QED
      BY <2>1, <3>1, <3>2 DEF RowStep, RowCreated
  <2>2. CASE ~(k = j /\ intents[k].state = "absent")
    BY <1>1, <1>a, <2>2 DEF Create, RowStep, RowSame
  <2> QED
    BY <2>1, <2>2
<1>2. ASSUME NEW c \in Claimers, ClaimExpire(c)
      PROVE  RowStep(k)
  <2>1. CASE k = claims[c].key /\ intents[k].state = "pending" /\ claims[c].at >= intents[k].createdAt
    <3>1. /\ intents'[k] = [intents[k] EXCEPT !.state = "expired", !.completedAt = claims[c].at]
          /\ events'[k] = events[k]
      BY <1>2, <1>a, <2>1 DEF ClaimExpire, ExpireIfPending
    <3> QED
      BY <1>a, <2>1, <3>1 DEF RowStep, RowExpired, KeptAddress, KeptClaim, DeliveryIntent
  <2>2. CASE ~(k = claims[c].key /\ intents[k].state = "pending" /\ claims[c].at >= intents[k].createdAt)
    BY <1>2, <1>a, <2>2 DEF ClaimExpire, ExpireIfPending, RowStep, RowSame
  <2> QED
    BY <2>1, <2>2
<1>3. ASSUME NEW c \in Claimers, ClaimPending(c)
      PROVE  RowStep(k)
  <2>1. CASE k = claims[c].key /\ intents[k].state = "pending" /\ TokenFree(k, claims[c].token)
    <3>1. /\ intents'[k] = [intents[k] EXCEPT !.state = "claimed", !.claimToken = claims[c].token,
                               !.claimedBy = claims[c].agent, !.claimedAt = claims[c].at]
          /\ events'[k] = events[k]
          /\ \A j \in Keys \ {k} : intents'[j] = intents[j]
          /\ claims[c].pc = "claim"
      BY <1>3, <1>a, <2>1 DEF ClaimPending
    <3>2. /\ intents'[k].state = "claimed"
          /\ intents'[k].claimToken = claims[c].token
          /\ intents'[k].claimedBy = claims[c].agent
          /\ intents'[k].claimedAt = claims[c].at
          /\ KeptAddress(k)
      BY <1>a, <3>1 DEF KeptAddress, DeliveryIntent
    <3> QED
      BY <2>1, <3>1, <3>2 DEF RowStep, RowGranted
  <2>2. CASE ~(k = claims[c].key /\ intents[k].state = "pending" /\ TokenFree(k, claims[c].token))
    BY <1>3, <1>a, <2>2 DEF ClaimPending, RowStep, RowSame
  <2> QED
    BY <2>1, <2>2
<1>4. ASSUME NEW j \in Keys, NEW t \in Tokens, NEW type \in EventType, NEW at \in Recent,
             ReportEvent(j, t, type, at)
      PROVE  RowStep(k)
  <2>1. CASE k = j
    <3>1. /\ intents[k].state \in {"claimed", "running"}
          /\ type = "running" => intents[k].state = "claimed"
      BY <1>4, <2>1 DEF ReportEvent, canReport
    <3>2. intents'[k].state = type /\ KeptAddress(k) /\ KeptClaim(k)
      BY <1>4, <1>a, <2>1 DEF ReportEvent, KeptAddress, KeptClaim, DeliveryIntent
    <3>3. events'[k] = Append(events[k], type)
      BY <1>4, <1>a, <2>1 DEF ReportEvent
    <3> QED
      BY <3>1, <3>2, <3>3 DEF RowStep, RowReported
  <2>2. CASE k # j
    BY <1>4, <1>a, <2>2 DEF ReportEvent, RowStep, RowSame
  <2> QED
    BY <2>1, <2>2
<1>5. ASSUME ExpirePendingBefore PROVE RowStep(k)
  <2>1. CASE intents[k].state = "pending" /\ intents[k].createdAt <= reaper.at - PendingTTL
    <3>1. /\ intents'[k] = [intents[k] EXCEPT !.state = "expired", !.completedAt = reaper.at]
          /\ events'[k] = events[k]
      BY <1>5, <2>1 DEF ExpirePendingBefore
    <3> QED
      BY <1>a, <2>1, <3>1 DEF RowStep, RowExpired, KeptAddress, KeptClaim, DeliveryIntent
  <2>2. CASE ~(intents[k].state = "pending" /\ intents[k].createdAt <= reaper.at - PendingTTL)
    BY <1>5, <2>2 DEF ExpirePendingBefore, RowStep, RowSame
  <2> QED
    BY <2>1, <2>2
<1>6. ASSUME FailRunning PROVE RowStep(k)
  <2>1. CASE k = reaper.failing /\ intents[k].state = "running"
    <3>1. /\ intents'[k] = [intents[k] EXCEPT !.state = "failed", !.completedAt = reaper.at]
          /\ events'[k] = events[k]
          /\ reaper.pc = "fail"
      BY <1>6, <1>a, <2>1 DEF FailRunning
    <3> QED
      BY <1>a, <2>1, <3>1 DEF RowStep, RowFailed, KeptAddress, KeptClaim, DeliveryIntent
  <2>2. CASE ~(k = reaper.failing /\ intents[k].state = "running")
    BY <1>6, <1>a, <2>2 DEF FailRunning, RowStep, RowSame
  <2> QED
    BY <2>1, <2>2
<1>7. ASSUME UNCHANGED <<intents, events>> PROVE RowStep(k)
  BY <1>7 DEF RowStep, RowSame
<1>8. UNCHANGED <<intents, events>> \/ Ingest \/ Lifecycle \/ ExpirePendingBefore \/ FailRunning
        \/ \E c \in Claimers : ClaimExpire(c) \/ ClaimPending(c)
  BY DEF DeliveryNext, DeliveryStep, ClaimRequest, Reap, AskRuntime, ClaimRead, ClaimLiveness,
         ClaimAbort, ReapBegin, ListRunningBefore, ReapLiveness, ReapDone, ReapAbort, Tick,
         vars, deliveryVars
<1> QED
  BY <1>1, <1>2, <1>3, <1>4, <1>5, <1>6, <1>7, <1>8 DEF Ingest, Lifecycle

ClaimStarted(c) ==
    \E k \in Keys, a \in Agents, t \in Tokens, at \in Nat :
        /\ intents[k].state # "absent"
        /\ intents[k].target = a
        /\ claims'[c].key = k /\ claims'[c].agent = a /\ claims'[c].token = t /\ claims'[c].at = at
        /\ claims'[c].pc = "liveness" /\ intents[k].state = "pending" => at < intents[k].expiresAt
        /\ claims'[c].pc \in {"liveness", "expire"}
        /\ intents' = intents

ClaimAnswered(c) ==
    /\ claims[c].pc = "liveness"
    /\ claims'[c].key = claims[c].key /\ claims'[c].agent = claims[c].agent
    /\ claims'[c].token = claims[c].token /\ claims'[c].at = claims[c].at
    /\ intents' = intents

ClaimStep(c) ==
    claims'[c] = claims[c] \/ claims'[c].pc = "idle" \/ ClaimStarted(c) \/ ClaimAnswered(c)

\* Every step of the service leaves a claim request alone, ends it, starts it
\* or takes it past the liveness check.
LEMMA ClaimStepLemma ==
    ASSUME DeliveryTypeOK, [DeliveryNext]_vars, NEW c \in Claimers
    PROVE  ClaimStep(c)
<1> USE DeliveryAssumption
<1>a. claims \in [Claimers -> Claim] /\ claims[c] \in Claim /\ intents \in [Keys -> DeliveryIntent]
  BY DEF DeliveryTypeOK
<1>1. ASSUME NEW d \in Claimers, NEW k \in Keys, NEW a \in Agents, NEW t \in Tokens,
             NEW at \in Recent, ClaimRead(d, k, a, t, at)
      PROVE  ClaimStep(c)
  <2>1. CASE c = d
    <3>1. claims'[c] = [pc |-> IF intents[k].state = "pending" /\ at >= intents[k].expiresAt
                                 THEN "expire" ELSE "liveness",
                        key |-> k, agent |-> a, token |-> t, at |-> at]
      BY <1>1, <1>a, <2>1 DEF ClaimRead
    <3>2. at \in Nat /\ intents[k].expiresAt \in Int
      BY <1>a DEF Recent, DeliveryIntent, Time, NoTime
    <3>3. intents[k].state # "absent" /\ intents[k].target = a /\ intents' = intents
      BY <1>1 DEF ClaimRead
    <3>4. claims'[c].pc = "liveness" /\ intents[k].state = "pending" => at < intents[k].expiresAt
      BY <3>1, <3>2
    <3>5. claims'[c].pc \in {"liveness", "expire"}
      BY <3>1
    <3>6. claims'[c].key = k /\ claims'[c].agent = a /\ claims'[c].token = t /\ claims'[c].at = at
      BY <3>1
    <3> QED
      BY <3>2, <3>3, <3>4, <3>5, <3>6 DEF ClaimStep, ClaimStarted
  <2>2. CASE c # d
    BY <1>1, <1>a, <2>2 DEF ClaimRead, ClaimStep
  <2> QED
    BY <2>1, <2>2
<1>2. ASSUME NEW d \in Claimers, NEW answer \in Answers, ClaimLiveness(d, answer)
      PROVE  ClaimStep(c)
  <2>1. CASE c = d
    <3>1. \/ claims'[c] = [claims[c] EXCEPT !.pc = "claim"]
          \/ claims'[c] = [claims[c] EXCEPT !.pc = "expire"]
          \/ claims'[c] = NoClaim
      BY <1>2, <1>a, <2>1 DEF ClaimLiveness, Answers
    <3>2. claims[c].pc = "liveness" /\ intents' = intents
      BY <1>2, <2>1 DEF ClaimLiveness
    <3> QED
      BY <1>a, <3>1, <3>2 DEF ClaimStep, ClaimAnswered, NoClaim, Claim
  <2>2. CASE c # d
    BY <1>2, <1>a, <2>2 DEF ClaimLiveness, ClaimStep
  <2> QED
    BY <2>1, <2>2
<1>3. ASSUME NEW d \in Claimers, claims' = [claims EXCEPT ![d] = NoClaim]
      PROVE  ClaimStep(c)
  BY <1>3, <1>a DEF ClaimStep, NoClaim
<1>4. ASSUME claims' = claims PROVE ClaimStep(c)
  BY <1>4 DEF ClaimStep
<1>5. \/ claims' = claims
      \/ \E d \in Claimers, answer \in Answers : ClaimLiveness(d, answer)
      \/ \E d \in Claimers : claims' = [claims EXCEPT ![d] = NoClaim]
      \/ \E d \in Claimers, k \in Keys, a \in Agents, t \in Tokens, at \in Recent :
            ClaimRead(d, k, a, t, at)
  BY DEF DeliveryNext, DeliveryStep, Ingest, ClaimRequest, Lifecycle, Reap, AskRuntime, Create,
         ClaimExpire, ClaimPending, ClaimAbort, ReportEvent, ReapBegin, ExpirePendingBefore,
         ListRunningBefore, ReapLiveness, FailRunning, ReapDone, ReapAbort, Tick, vars, deliveryVars
<1> QED
  BY <1>1, <1>2, <1>3, <1>4, <1>5

-----------------------------------------------------------------------------
(* The inductive invariant *)

\* What a claim request knows is still true of its row when it acts on it.
ClaimsFit ==
    \A c \in Claimers : claims[c].pc # "idle" =>
        /\ claims[c].key \in Keys
        /\ claims[c].token \in Tokens
        /\ claims[c].at \in Nat
        /\ intents[claims[c].key].state # "absent"
        /\ claims[c].agent = intents[claims[c].key].target
        /\ claims[c].pc # "expire" /\ intents[claims[c].key].state = "pending" =>
              claims[c].at < intents[claims[c].key].expiresAt

DeliveryInv ==
    /\ DeliveryTypeOK
    /\ RunningIsHeld
    /\ ClaimedByTarget
    /\ ClaimedBeforeExpiry
    /\ TokenNamesOneIntent
    /\ EventLogAgrees
    /\ ClaimsFit

\* The inductive invariant holds before the first request.
LEMMA InvInit == DeliveryInit => DeliveryInv
<1> SUFFICES ASSUME DeliveryInit PROVE DeliveryInv
  OBVIOUS
<1>1. DeliveryTypeOK
  BY TypeInit
<1>2. \A k \in Keys : /\ intents[k].state \in {"absent", "display_only", "cancelled"}
                      /\ intents[k].claimToken = None
                      /\ intents[k].claimedBy = None
                      /\ intents[k].claimedAt = NoTime
  <2> SUFFICES ASSUME NEW k \in Keys
               PROVE  /\ intents[k].state \in {"absent", "display_only", "cancelled"}
                      /\ intents[k].claimToken = None
                      /\ intents[k].claimedBy = None
                      /\ intents[k].claimedAt = NoTime
    OBVIOUS
  <2>1. CASE intents[k] = NoIntent
    BY <2>1 DEF NoIntent
  <2>2. CASE intents[k] \in Imported(k)
    BY <2>2, ImportedType
  <2> QED
    BY <2>1, <2>2 DEF DeliveryInit
<1>3. RunningIsHeld /\ ClaimedByTarget /\ ClaimedBeforeExpiry /\ TokenNamesOneIntent
  BY <1>2 DEF RunningIsHeld, ClaimedByTarget, ClaimedBeforeExpiry, TokenNamesOneIntent
<1>4. EventLogAgrees
  BY <1>2 DEF EventLogAgrees, DeliveryInit
<1>5. ClaimsFit
  BY DEF ClaimsFit, DeliveryInit, NoClaim
<1> QED
  BY <1>1, <1>3, <1>4, <1>5 DEF DeliveryInv

\* Every handler step preserves the inductive invariant.
LEMMA InvStep == DeliveryInv /\ [DeliveryNext]_vars => DeliveryInv'
<1> SUFFICES ASSUME DeliveryInv, [DeliveryNext]_vars PROVE DeliveryInv'
  OBVIOUS
<1> USE DeliveryAssumption
<1>1. DeliveryTypeOK /\ DeliveryTypeOK'
  BY TypeStep DEF DeliveryInv
<1>2. \A k \in Keys : RowStep(k)
  BY <1>1, RowStepLemma
<1>3. \A c \in Claimers : ClaimStep(c)
  BY <1>1, ClaimStepLemma
<1>4. \A k \in Keys : RowGranted(k) =>
        /\ intents'[k].claimToken \in Tokens
        /\ intents'[k].claimedBy = intents'[k].target
        /\ intents'[k].claimedAt \in Nat
        /\ intents'[k].claimedAt < intents'[k].expiresAt
        /\ \A j \in Keys \ {k} : intents'[j].claimToken # intents'[k].claimToken
  BY DEF DeliveryInv, ClaimsFit, RowGranted, KeptAddress, TokenFree
<1>5. \A k \in Keys : RowCreated(k) =>
        /\ intents'[k].state = "pending"
        /\ intents'[k].claimToken = None
        /\ intents'[k].claimedBy = None
        /\ intents'[k].claimedAt = NoTime
  BY NewIntentType DEF RowCreated
<1>6. RunningIsHeld'
  <2> SUFFICES ASSUME NEW k \in Keys
               PROVE  (intents'[k].state \in {"claimed", "running", "completed", "failed"} <=>
                         intents'[k].claimToken # None)
    BY DEF RunningIsHeld
  <2>1. intents[k].state \in {"claimed", "running", "completed", "failed"} <=>
          intents[k].claimToken # None
    BY DEF DeliveryInv, RunningIsHeld
  <2> QED
    BY <1>2, <1>4, <1>5, <2>1
       DEF RowStep, RowSame, RowCreated, RowExpired, RowGranted, RowReported, RowFailed,
           KeptClaim, EventType
<1>7. ClaimedByTarget'
  <2> SUFFICES ASSUME NEW k \in Keys
               PROVE  IF intents'[k].claimToken = None
                        THEN intents'[k].claimedBy = None /\ intents'[k].claimedAt = NoTime
                        ELSE /\ intents'[k].claimedBy = intents'[k].target
                             /\ intents'[k].claimedAt # NoTime
    BY DEF ClaimedByTarget
  <2>1. IF intents[k].claimToken = None
          THEN intents[k].claimedBy = None /\ intents[k].claimedAt = NoTime
          ELSE intents[k].claimedBy = intents[k].target /\ intents[k].claimedAt # NoTime
    BY DEF DeliveryInv, ClaimedByTarget
  <2> QED
    BY <1>2, <1>4, <1>5, <2>1
       DEF RowStep, RowSame, RowExpired, RowReported, RowFailed, KeptClaim, KeptAddress, NoTime
<1>8. ClaimedBeforeExpiry'
  <2> SUFFICES ASSUME NEW k \in Keys, intents'[k].claimedAt # NoTime
               PROVE  intents'[k].claimedAt < intents'[k].expiresAt
    BY DEF ClaimedBeforeExpiry
  <2>1. intents[k].claimedAt # NoTime => intents[k].claimedAt < intents[k].expiresAt
    BY DEF DeliveryInv, ClaimedBeforeExpiry
  <2> QED
    BY <1>2, <1>4, <1>5, <2>1
       DEF RowStep, RowSame, RowExpired, RowReported, RowFailed, KeptClaim, KeptAddress
<1>9. TokenNamesOneIntent'
  <2> SUFFICES ASSUME NEW j \in Keys, NEW k \in Keys, j # k, intents'[j].claimToken # None
               PROVE  intents'[j].claimToken # intents'[k].claimToken
    BY DEF TokenNamesOneIntent
  <2>1. intents[j].claimToken # None => intents[j].claimToken # intents[k].claimToken
    BY DEF DeliveryInv, TokenNamesOneIntent
  <2>2. \A i \in Keys : RowGranted(i) \/ KeptClaim(i) \/ RowCreated(i)
    BY <1>2 DEF RowStep, RowSame, RowExpired, RowReported, RowFailed, KeptClaim
  <2>3. CASE RowGranted(j) \/ RowGranted(k)
    BY <1>4, <2>3
  <2>4. CASE ~RowGranted(j) /\ ~RowGranted(k)
    BY <1>5, <2>1, <2>2, <2>4 DEF KeptClaim
  <2> QED
    BY <2>3, <2>4
<1>10. EventLogAgrees'
  <2> SUFFICES ASSUME NEW k \in Keys
               PROVE  events'[k] \in
                        CASE intents'[k].state = "running"   -> {<<"running">>}
                          [] intents'[k].state = "completed" -> {<<"completed">>, <<"running", "completed">>}
                          [] intents'[k].state = "failed"    ->
                                {<<"failed">>, <<"running", "failed">>, <<"running">>}
                          [] OTHER -> {<<>>}
    BY DEF EventLogAgrees
  <2>1. events[k] \in
          CASE intents[k].state = "running"   -> {<<"running">>}
            [] intents[k].state = "completed" -> {<<"completed">>, <<"running", "completed">>}
            [] intents[k].state = "failed"    ->
                  {<<"failed">>, <<"running", "failed">>, <<"running">>}
            [] OTHER -> {<<>>}
    BY DEF DeliveryInv, EventLogAgrees
  <2>2. CASE RowSame(k)
    BY <2>1, <2>2 DEF RowSame
  <2>3. CASE RowCreated(k) \/ RowExpired(k) \/ RowGranted(k)
    BY <1>5, <2>1, <2>3 DEF RowCreated, RowExpired, RowGranted
  <2>4. CASE RowFailed(k)
    BY <2>1, <2>4 DEF RowFailed
  <2>5. CASE RowReported(k)
    <3>1. /\ \A e \in EventType : Append(<<>>, e) = <<e>>
          /\ \A e \in EventType : Append(<<"running">>, e) = <<"running", e>>
      BY AppendEvents DEF EventType
    <3>2. events[k] = IF intents[k].state = "running" THEN <<"running">> ELSE <<>>
      BY <2>1, <2>5 DEF RowReported
    <3> QED
      BY <2>5, <3>1, <3>2 DEF RowReported, EventType
  <2> QED
    BY <1>2, <2>2, <2>3, <2>4, <2>5 DEF RowStep
<1>11. ClaimsFit'
  <2> SUFFICES ASSUME NEW c \in Claimers, claims'[c].pc # "idle"
               PROVE  /\ claims'[c].key \in Keys
                      /\ claims'[c].token \in Tokens
                      /\ claims'[c].at \in Nat
                      /\ intents'[claims'[c].key].state # "absent"
                      /\ claims'[c].agent = intents'[claims'[c].key].target
                      /\ claims'[c].pc # "expire" /\ intents'[claims'[c].key].state = "pending" =>
                            claims'[c].at < intents'[claims'[c].key].expiresAt
    BY DEF ClaimsFit
  <2>1. \A k \in Keys : intents[k].state # "absent" =>
            /\ intents'[k].state # "absent"
            /\ KeptAddress(k)
            /\ intents'[k].state = "pending" => intents[k].state = "pending"
    BY <1>2 DEF RowStep, RowSame, RowCreated, RowExpired, RowGranted, RowReported, RowFailed,
                KeptAddress, EventType
  <2>2. claims[c].pc # "idle" =>
            /\ claims[c].key \in Keys
            /\ claims[c].token \in Tokens
            /\ claims[c].at \in Nat
            /\ intents[claims[c].key].state # "absent"
            /\ claims[c].agent = intents[claims[c].key].target
            /\ claims[c].pc # "expire" /\ intents[claims[c].key].state = "pending" =>
                  claims[c].at < intents[claims[c].key].expiresAt
    BY DEF DeliveryInv, ClaimsFit
  <2>3. CASE claims'[c] = claims[c]
    BY <2>1, <2>2, <2>3 DEF KeptAddress
  <2>4. CASE ClaimStarted(c)
    BY <2>4 DEF ClaimStarted
  <2>5. CASE ClaimAnswered(c)
    BY <2>2, <2>5 DEF ClaimAnswered
  <2> QED
    BY <1>3, <2>3, <2>4, <2>5 DEF ClaimStep
<1> QED
  BY <1>1, <1>6, <1>7, <1>8, <1>9, <1>10, <1>11 DEF DeliveryInv

\* Every safety invariant of the service, together with what the requests in
\* progress know (ClaimsFit), holds in every reachable state.
THEOREM Invariance == DeliverySpec => []DeliveryInv
<1> QED
  BY InvInit, InvStep, PTL DEF DeliverySpec, vars

-----------------------------------------------------------------------------
(* The properties *)

\* Claim authority: only the identity an intent is addressed to ever holds it
\* (Claim, ClaimPending).
THEOREM ClaimAuthority == DeliverySpec => []ClaimedByTarget
<1>1. DeliveryInv => ClaimedByTarget
  BY DEF DeliveryInv
<1> QED
  BY <1>1, Invariance, PTL

\* No claim is stamped at or after the intent's expiry, whatever ran between
\* the expiry check and the compare and swap (Claim).
THEOREM ClaimsBeforeExpiry == DeliverySpec => []ClaimedBeforeExpiry
<1>1. DeliveryInv => ClaimedBeforeExpiry
  BY DEF DeliveryInv
<1> QED
  BY <1>1, Invariance, PTL

\* Both together: the grant still rests on the target and the time that were
\* checked several statements earlier (Claim).
THEOREM ClaimsAuthorized == DeliverySpec => []ClaimsAreAuthorized
<1>1. DeliveryTypeOK /\ ClaimedByTarget /\ ClaimedBeforeExpiry => ClaimsAreAuthorized
  BY DEF ClaimsAreAuthorized
<1> QED
  BY <1>1, TypeCorrect, ClaimAuthority, ClaimsBeforeExpiry, PTL

\* The delivery_events rows of an intent and its state column always agree
\* (ReportEvent, FailRunning).
THEOREM EventLogCorrect == DeliverySpec => []EventLogAgrees
<1>1. DeliveryInv => EventLogAgrees
  BY DEF DeliveryInv
<1> QED
  BY <1>1, Invariance, PTL

\* Terminal states are final (ARCHITECTURE.md, "Delivery Lifecycle").
THEOREM TerminalFinality == DeliverySpec => TerminalIsFinal
<1>1. DeliveryInv /\ [DeliveryNext]_vars =>
        [\A k \in Keys : IsTerminal(intents[k].state) =>
            intents'[k] = intents[k] /\ events'[k] = events[k]]_vars
  <2> SUFFICES ASSUME DeliveryInv, [DeliveryNext]_vars, NEW k \in Keys,
                      IsTerminal(intents[k].state)
               PROVE  intents'[k] = intents[k] /\ events'[k] = events[k]
    OBVIOUS
  <2>1. RowStep(k)
    BY RowStepLemma DEF DeliveryInv
  <2> QED
    BY <2>1 DEF RowStep, RowSame, RowCreated, RowExpired, RowGranted, RowReported, RowFailed,
                IsTerminal
<1> QED
  BY <1>1, Invariance, PTL DEF DeliverySpec, TerminalIsFinal, vars

\* A claim is won once: no later request replaces it or puts the intent back
\* (claimPendingSQL).
THEOREM ClaimWonOnce == DeliverySpec => ClaimIsWonOnce
<1>1. DeliveryInv /\ [DeliveryNext]_vars =>
        [\A k \in Keys : intents[k].claimToken # None =>
            /\ intents'[k].claimToken = intents[k].claimToken
            /\ intents'[k].claimedBy = intents[k].claimedBy
            /\ intents'[k].claimedAt = intents[k].claimedAt
            /\ intents'[k].state # "pending"]_vars
  <2> SUFFICES ASSUME DeliveryInv, [DeliveryNext]_vars, NEW k \in Keys,
                      intents[k].claimToken # None
               PROVE  /\ intents'[k].claimToken = intents[k].claimToken
                      /\ intents'[k].claimedBy = intents[k].claimedBy
                      /\ intents'[k].claimedAt = intents[k].claimedAt
                      /\ intents'[k].state # "pending"
    OBVIOUS
  <2>1. RowStep(k)
    BY RowStepLemma DEF DeliveryInv
  <2>2. intents[k].state \in {"claimed", "running", "completed", "failed"}
    BY DEF DeliveryInv, RunningIsHeld
  <2> QED
    BY <2>1, <2>2 DEF RowStep, RowSame, RowCreated, RowExpired, RowGranted, RowReported,
                      RowFailed, KeptClaim, EventType
<1> QED
  BY <1>1, Invariance, PTL DEF DeliverySpec, ClaimIsWonOnce, vars

-----------------------------------------------------------------------------
(* The service implements the abstract lifecycle *)

\* The initial tables map to an initial state of the lifecycle.
LEMMA RefinementInit == DeliveryInit => Abstract!LifecycleInit
<1> SUFFICES ASSUME DeliveryInit PROVE Abstract!LifecycleInit
  OBVIOUS
<1>1. \A k \in Keys : /\ intents[k].state \in {"absent", "cancelled", "display_only"}
                      /\ intents[k].target \in Agents \cup {None}
                      /\ intents[k].target = None <=> intents[k].state = "absent"
                      /\ intents[k].claimToken = None
  <2> SUFFICES ASSUME NEW k \in Keys
               PROVE  /\ intents[k].state \in {"absent", "cancelled", "display_only"}
                      /\ intents[k].target \in Agents \cup {None}
                      /\ intents[k].target = None <=> intents[k].state = "absent"
                      /\ intents[k].claimToken = None
    OBVIOUS
  <2>1. CASE intents[k] = NoIntent
    BY <2>1 DEF NoIntent
  <2>2. CASE intents[k] \in Imported(k)
    BY <2>2, ImportedType, DeliveryAssumption
  <2> QED
    BY <2>1, <2>2 DEF DeliveryInit
<1> QED
  BY <1>1 DEF Abstract!LifecycleInit

\* Every handler step maps to a lifecycle step or a stutter.
LEMMA RefinementStep ==
    DeliveryInv /\ [DeliveryNext]_vars => [Abstract!LifecycleNext]_(Abstract!lifecycleVars)
<1> SUFFICES ASSUME DeliveryInv, [DeliveryNext]_vars
             PROVE  [Abstract!LifecycleNext]_(Abstract!lifecycleVars)
  OBVIOUS
<1> USE DeliveryAssumption
<1> DEFINE phase == [k \in Keys |-> intents[k].state]
           target == [k \in Keys |-> intents[k].target]
           grant == [k \in Keys |-> intents[k].claimToken]
<1>a. /\ DeliveryTypeOK
      /\ intents \in [Keys -> DeliveryIntent]
      /\ \A k \in Keys : RowStep(k)
  BY RowStepLemma DEF DeliveryInv, DeliveryTypeOK
<1>1. ASSUME NEW j \in Keys, RowCreated(j), \A k \in Keys \ {j} : intents'[k] = intents[k]
      PROVE  Abstract!LifecycleNext
  <2>1. PICK a \in Agents, ttl \in Nat, at \in Nat : intents'[j] = NewDeliveryIntent(a, ttl, at)
    BY <1>1 DEF RowCreated
  <2>2. /\ intents'[j].state = "pending" /\ intents'[j].target = a
        /\ intents'[j].claimToken = None
    BY <2>1, NewIntentType
  <2>3. intents[j].claimToken = None /\ intents[j].state = "absent"
    BY <1>1 DEF RowCreated, DeliveryInv, RunningIsHeld
  <2>4. Abstract!Post(j, a)
    BY <1>1, <2>2, <2>3 DEF Abstract!Post
  <2> QED
    BY <2>4 DEF Abstract!LifecycleNext
<1>2. ASSUME NEW j \in Keys, RowGranted(j)
      PROVE  Abstract!LifecycleNext
  <2>1. PICK c \in Claimers : /\ claims[c].pc = "claim"
                             /\ intents'[j].claimToken = claims[c].token
                             /\ TokenFree(j, claims[c].token)
    BY <1>2 DEF RowGranted
  <2>2. claims[c].token \in Tokens
    BY <2>1 DEF DeliveryInv, ClaimsFit
  <2>3. intents[j].claimToken = None
    BY <1>2 DEF RowGranted, DeliveryInv, RunningIsHeld
  <2>4. PICK t \in Tokens : t = claims[c].token
    BY <2>2
  <2>5. \A k \in Keys : grant[k] # t
    BY <2>1, <2>3, <2>4 DEF TokenFree
  <2>6. Abstract!Grant(j, t)
    BY <1>2, <2>1, <2>4, <2>5 DEF Abstract!Grant, RowGranted, KeptAddress
  <2> QED
    BY <2>6 DEF Abstract!LifecycleNext
<1>3. ASSUME NEW j \in Keys, RowReported(j) \/ RowFailed(j),
             \A k \in Keys \ {j} : intents'[k] = intents[k]
      PROVE  Abstract!LifecycleNext
  <2>1. KeptAddress(j) /\ KeptClaim(j)
    BY <1>3 DEF RowReported, RowFailed
  <2>2. CASE intents'[j].state = "running"
    <3>1. Abstract!Start(j)
      BY <1>3, <2>1, <2>2 DEF Abstract!Start, RowReported, RowFailed, KeptAddress, KeptClaim
    <3> QED
      BY <3>1 DEF Abstract!LifecycleNext
  <2>3. CASE intents'[j].state \in {"completed", "failed"}
    <3>1. PICK outcome \in {"completed", "failed"} : outcome = intents'[j].state
      BY <2>3
    <3>2. Abstract!Finish(j, outcome)
      BY <1>3, <2>1, <3>1 DEF Abstract!Finish, RowReported, RowFailed, KeptAddress, KeptClaim
    <3> QED
      BY <3>2 DEF Abstract!LifecycleNext
  <2> QED
    BY <1>3, <2>2, <2>3 DEF RowReported, RowFailed, EventType
<1>4. ASSUME \A k \in Keys : RowSame(k) \/ RowExpired(k)
      PROVE  Abstract!LifecycleNext
  <2>0. PICK S \in SUBSET Keys :
            S = {k \in Keys : intents[k].state = "pending" /\ intents'[k].state = "expired"}
    OBVIOUS
  <2>1. /\ \A k \in S : phase[k] = "pending"
        /\ phase' = [k \in Keys |-> IF k \in S THEN "expired" ELSE phase[k]]
    BY <1>4, <2>0 DEF RowSame, RowExpired
  <2>2. target' = target /\ grant' = grant
    BY <1>4 DEF RowSame, RowExpired, KeptAddress, KeptClaim
  <2>3. Abstract!Expire(S)
    BY <2>1, <2>2 DEF Abstract!Expire
  <2> QED
    BY <2>3 DEF Abstract!LifecycleNext
<1>5. \/ \A k \in Keys : RowSame(k) \/ RowExpired(k)
      \/ \E j \in Keys : RowGranted(j)
      \/ \E j \in Keys : /\ RowCreated(j) \/ RowReported(j) \/ RowFailed(j)
                         /\ \A k \in Keys \ {j} : intents'[k] = intents[k]
  <2>1. CASE UNCHANGED <<intents, events>>
    BY <2>1 DEF RowSame
  <2>2. CASE Ingest \/ Lifecycle
    <3>1. PICK j \in Keys : \A k \in Keys \ {j} : intents'[k] = intents[k] /\ events'[k] = events[k]
      BY <1>a, <2>2 DEF Ingest, Lifecycle, Create, ReportEvent, DeliveryTypeOK
    <3> QED
      BY <1>a, <3>1 DEF RowStep, RowSame
  <2>3. CASE FailRunning
    <3>1. \A k \in Keys : k # reaper.failing => intents'[k] = intents[k] /\ events'[k] = events[k]
      BY <1>a, <2>3 DEF FailRunning
    <3> QED
      BY <1>a, <3>1 DEF RowStep, RowSame
  <2>4. CASE ExpirePendingBefore
    <3>1. \A k \in Keys : /\ intents'[k] = intents[k] \/ intents'[k].state = "expired"
                          /\ events'[k] = events[k]
      BY <1>a, <2>4 DEF ExpirePendingBefore, DeliveryIntent
    <3> QED
      BY <1>a, <3>1, NewIntentType
         DEF RowStep, RowSame, RowCreated, RowGranted, RowReported, RowFailed, EventType
  <2>5. ASSUME NEW c \in Claimers, ClaimExpire(c) \/ ClaimPending(c)
        PROVE  \/ \A k \in Keys : RowSame(k) \/ RowExpired(k)
               \/ \E j \in Keys : RowGranted(j)
               \/ \E j \in Keys : /\ RowCreated(j) \/ RowReported(j) \/ RowFailed(j)
                                  /\ \A k \in Keys \ {j} : intents'[k] = intents[k]
    <3>1. claims[c].key \in Keys
      BY <2>5 DEF ClaimExpire, ClaimPending, DeliveryInv, ClaimsFit
    <3>2. \A k \in Keys \ {claims[c].key} : intents'[k] = intents[k] /\ events'[k] = events[k]
      BY <1>a, <2>5, <3>1 DEF ClaimExpire, ExpireIfPending, ClaimPending
    <3> QED
      BY <1>a, <3>1, <3>2 DEF RowStep, RowSame
  <2> QED
    BY <2>1, <2>2, <2>3, <2>4, <2>5
    DEF DeliveryNext, DeliveryStep, ClaimRequest, Reap, AskRuntime, ClaimRead, ClaimLiveness,
        ClaimAbort, ReapBegin, ListRunningBefore, ReapLiveness, ReapDone, ReapAbort, Tick,
        vars, deliveryVars
<1> QED
  BY <1>1, <1>2, <1>3, <1>4, <1>5

\* Seen through the state, target and token columns the service implements
\* IntentLifecycle: one claim per intent, by its target, and one end.
THEOREM Refinement == DeliverySpec => ImplementsLifecycle
<1> QED
  BY RefinementInit, RefinementStep, Invariance, PTL
     DEF DeliverySpec, ImplementsLifecycle, Abstract!LifecycleSpec, vars

-----------------------------------------------------------------------------
(* Views of the observation service.  The inductive invariant: what a request *)
(* has read so far accounts for every row held for it.                        *)

Sources == {"activity", "delivery", "runtime", "chat"}

Statements == {"activity", "delivery", "runtime", "chat", "ids"}

Seen ==
    [source : Sources, id : Nat, at : Nat, agent : Members \cup {NoAgent},
     assignment : Assignments \cup {NoWork}, channel : Channels \cup {0}, display : BOOLEAN]

Names == Members \cup Assignments \cup {NoAgent}

Views == {"agents", "agent", "trace", "history"}

Reading ==
    [op : Views \cup {"none", "lane"}, left : Seq(Statements),
     limit : Nat, about : Names, got : SUBSET Seen,
     listed : SUBSET Members, chat : {"store", "legacy"}]

ViewsTyped ==
    /\ turn \in 1 .. MaxTurns
    /\ rows \in SUBSET Seen /\ IsFiniteSet(rows)
    /\ drawn \in [Sources -> Nat]
    /\ reader \in Reading /\ IsFiniteSet(reader.got) /\ reader.limit # 0
    /\ held \subseteq rows
    /\ view.status \in {"none", "ok", "not_found", "failed"}

\* The statements of a request that are done.
Done(q, source) == \A k \in 1 .. Len(q.left) : q.left[k] # source

\* There are `limit` rows of S at least as new as r.
Outdone(S, limit, r) ==
    \E U \in SUBSET S : Cardinality(U) = limit /\ \A u \in U : u.at >= r.at

LaneAccounts(q, H) ==
    q.op = "lane" =>
        \A r \in H : Done(q, r.source) =>
            \/ r \in q.got \/ Outdone(q.got, q.limit, r)
            \/ q.chat = "legacy" /\ r.source = "chat"

AgentAccounts(q, H) ==
    q.op = "agent" \/ (q.op = "agents" /\ q.about # NoAgent) =>
        \A r \in H : r.agent = q.about /\ r.source # "chat" /\ Done(q, r.source) =>
            \E g \in q.got : g.agent = q.about

ViewsInv ==
    /\ ViewsTyped
    /\ LaneAccounts(reader, held) /\ AgentAccounts(reader, held)
    /\ LaneMissesNothing /\ MissingHadNothing

-----------------------------------------------------------------------------
(* The newest of a set                                                       *)

LEMMA NewestLeaves ==
    ASSUME NEW S \in SUBSET Seen, IsFiniteSet(S), NEW limit \in Nat, NEW T \in NewestOf(S, limit)
    PROVE  /\ T \in SUBSET S /\ IsFiniteSet(T)
           /\ Cardinality(S) \in Nat /\ Cardinality(T) \in Nat
           /\ Cardinality(T) = IF Cardinality(S) <= limit THEN Cardinality(S) ELSE limit
           /\ \A y \in S \ T : Cardinality(T) = limit /\ \A x \in T : x.at >= y.at
<1>1. /\ T \in SUBSET S
      /\ Cardinality(T) = IF Cardinality(S) <= limit THEN Cardinality(S) ELSE limit
      /\ \A x \in T, y \in S \ T : x.at >= y.at
  BY DEF NewestOf, kSubset
<1>2. IsFiniteSet(T) /\ Cardinality(S) \in Nat /\ Cardinality(T) \in Nat
  BY <1>1, FS_Subset, FS_CardinalityType
<1>3. ASSUME NEW y \in S \ T PROVE Cardinality(T) = limit
  <2>1. Cardinality(S) # Cardinality(T)
    BY <1>1, <1>3, FS_Subset
  <2> QED
    BY <1>1, <2>1
<1> QED
  BY <1>1, <1>2, <1>3

\* What a statement returns are rows that are there.
LEMMA StatementRows ==
    ASSUME ViewsTyped, NEW source, NEW result \in Statement(source)
    PROVE  result \in SUBSET rows /\ IsFiniteSet(result)
<1>1. \A S, n : \A T \in NewestOf(S, n) : T \in SUBSET S
  BY DEF NewestOf, kSubset
<1>2. \A S, n : \A T \in kSubset(n, S) : T \in SUBSET S
  BY DEF kSubset
<1>3. /\ Of(source) \in SUBSET rows /\ Of("chat") \in SUBSET rows
      /\ \A a : About(a, source) \in SUBSET rows /\ OnAssignment(a, source) \in SUBSET rows
  BY DEF Of, About, OnAssignment
<1>4. result \in SUBSET rows
  <2>1. CASE reader.op = "lane" /\ source = "chat"
    <3>1. result \in ChatEvents(reader.limit)
      BY <2>1 DEF Statement
    <3>2. CASE reader.chat = "legacy"
      <4>1. result \in LegacyPages(reader.limit)
        BY <3>1, <3>2 DEF ChatEvents
      <4>2. PICK C : result \in NewestOf(Displayed(UNION {LastOf(c, reader.limit) : c \in C}), reader.limit)
        BY <4>1 DEF LegacyPages
      <4>3. UNION {LastOf(c, reader.limit) : c \in C} \in SUBSET rows
        BY <1>3 DEF LastOf
      <4> DEFINE P == UNION {LastOf(c, reader.limit) : c \in C}
      <4>4. Displayed(P) \in SUBSET rows
        BY <4>3 DEF Displayed
      <4>5. result \in SUBSET Displayed(P)
        BY <4>2, <1>1
      <4> QED
        BY <4>4, <4>5
    <3>3. CASE reader.chat # "legacy"
      BY <1>1, <1>3, <3>1, <3>3 DEF ChatEvents
    <3> QED
      BY <3>2, <3>3
  <2>2. CASE reader.op = "lane" /\ source # "chat"
    <3>1. result \in NewestOf(Of(source), reader.limit)
      BY <2>2 DEF Statement
    <3> QED
      BY <1>1, <1>3, <3>1
  <2>3. CASE reader.op \in {"agent", "agents"} /\ source = "activity"
    <3>1. result \in NewestOf(About(reader.about, source), DefaultRowLimit)
      BY <2>3 DEF Statement
    <3> QED
      BY <1>1, <1>3, <3>1
  <2>4. CASE reader.op \in {"agent", "agents"} /\ source # "activity"
    <3>1. result = About(reader.about, source)
      BY <2>4 DEF Statement
    <3> QED
      BY <1>3, <3>1
  <2>5. CASE reader.op = "trace" /\ source = "chat"
    <3>1. result \in SUBSET OnAssignment(reader.about, source)
      BY <1>2, <2>5 DEF Statement
    <3> QED
      BY <1>3, <3>1
  <2>6. CASE reader.op = "trace" /\ source = "activity"
    <3>1. result \in NewestOf(OnAssignment(reader.about, source), reader.limit)
      BY <2>6 DEF Statement
    <3> QED
      BY <1>1, <1>3, <3>1
  <2>7. CASE reader.op = "history"
    <3>1. result \in NewestOf(IF reader.about = NoAgent THEN Of(source) ELSE About(reader.about, source),
                              reader.limit)
      BY <2>7 DEF Statement
    <3> QED
      BY <1>1, <1>3, <3>1
  <2>8. CASE /\ ~(reader.op = "lane") /\ reader.op \notin {"agent", "agents"} /\ reader.op # "history"
             /\ ~(reader.op = "trace" /\ source \in {"chat", "activity"})
    BY <2>8 DEF Statement
  <2> QED
    BY <2>1, <2>2, <2>3, <2>4, <2>5, <2>6, <2>7, <2>8
<1> QED
  BY <1>4, FS_Subset DEF ViewsTyped

-----------------------------------------------------------------------------
(* Rows come and go                                                          *)

\* Whatever happens to the rows, a view owes no more than it did.
LEMMA RowsKeep ==
    ASSUME ViewsInv, UNCHANGED <<reader, view>>, turn' \in 1 .. MaxTurns,
           rows' \in SUBSET Seen, IsFiniteSet(rows'), drawn' \in [Sources -> Nat],
           held' \subseteq held, held' \subseteq rows'
    PROVE  ViewsInv'
<1>1. ViewsTyped'
  BY DEF ViewsInv, ViewsTyped
<1>2. LaneAccounts(reader', held') /\ AgentAccounts(reader', held')
  BY DEF ViewsInv, LaneAccounts, AgentAccounts
<1>3. LaneMissesNothing' /\ MissingHadNothing'
  <2>1. held' \cap rows' \subseteq held \cap rows
    BY DEF ViewsInv, ViewsTyped
  <2> QED
    BY <2>1 DEF ViewsInv, LaneMissesNothing, MissingHadNothing
<1> QED
  BY <1>1, <1>2, <1>3 DEF ViewsInv

LEMMA PutKeeps ==
    ASSUME ViewsInv, NEW row \in Seen, Put(row)
    PROVE  ViewsInv'
<1>1. /\ drawn' = [drawn EXCEPT ![row.source] = @ + 1] /\ rows' = rows \cup {row}
      /\ turn' = turn /\ held' = held /\ UNCHANGED <<reader, view>>
  BY DEF Put
<1>2. drawn' \in [Sources -> Nat]
  <2>1. row.source \in Sources /\ drawn \in [Sources -> Nat]
    BY DEF ViewsInv, ViewsTyped, Seen
  <2>2. PICK n \in Nat : n = drawn[row.source] + 1
    BY <2>1
  <2> QED
    BY <1>1, <2>1, <2>2
<1>3. rows' \in SUBSET Seen /\ IsFiniteSet(rows') /\ held' \subseteq rows' /\ turn' \in 1 .. MaxTurns
  BY <1>1, FS_AddElement DEF ViewsInv, ViewsTyped
<1> QED
  BY <1>1, <1>2, <1>3, RowsKeep

LEMMA RowSeen ==
    ASSUME ViewsInv, NEW source \in Sources, NEW agent \in Members \cup {NoAgent},
           NEW assignment \in Assignments \cup {NoWork}, NEW channel \in Channels \cup {0},
           NEW display \in BOOLEAN
    PROVE  Row(source, agent, assignment, channel, display) \in Seen
<1>1. drawn[source] + 1 \in Nat /\ turn \in Nat
  BY ObservationAssumption DEF ViewsInv, ViewsTyped
<1> QED
  BY <1>1 DEF Row, Seen

LEMMA OthersKeep ==
    ASSUME ViewsInv,
           \/ \E req \in EmitRequests, agent \in Members, a \in Assignments :
                 AppendLifecycleEvent(req, agent, a)
           \/ \E agent \in Members : IntentAppears(agent) \/ InstanceRegisters(agent)
           \/ \E a \in Assignments, c \in Channels, display \in BOOLEAN : MessageArrives(a, c, display)
           \/ \E r \in rows : RowLeaves(r) \/ Heartbeat(r)
           \/ TurnPasses
    PROVE  ViewsInv'
<1>1. ASSUME NEW req \in EmitRequests, NEW agent \in Members, NEW a \in Assignments,
             AppendLifecycleEvent(req, agent, a)
      PROVE  ViewsInv'
  <2>1. PICK work \in Assignments \cup {NoWork} : work = WorkOf(req, a)
    BY DEF WorkOf
  <2>2. NewActivityEvent(req, agent, a) = Row("activity", agent, work, 0, TRUE)
    BY <2>1 DEF NewActivityEvent
  <2>3. Row("activity", agent, work, 0, TRUE) \in Seen
    BY RowSeen DEF Sources
  <2> QED
    BY <1>1, <2>2, <2>3, PutKeeps DEF AppendLifecycleEvent
<1>2. ASSUME NEW agent \in Members, IntentAppears(agent) \/ InstanceRegisters(agent)
      PROVE  ViewsInv'
  <2>1. Row("delivery", agent, NoWork, 0, TRUE) \in Seen /\ Row("runtime", agent, NoWork, 0, TRUE) \in Seen
    BY RowSeen DEF Sources
  <2> QED
    BY <1>2, <2>1, PutKeeps DEF IntentAppears, InstanceRegisters
<1>3. ASSUME NEW a \in Assignments, NEW c \in Channels, NEW display \in BOOLEAN, MessageArrives(a, c, display)
      PROVE  ViewsInv'
  <2>1. Row("chat", NoAgent, a, c, display) \in Seen
    BY RowSeen DEF Sources
  <2> QED
    BY <1>3, <2>1, PutKeeps DEF MessageArrives
<1>4. ASSUME NEW r \in rows, RowLeaves(r) PROVE ViewsInv'
  <2>1. rows' \in SUBSET Seen /\ IsFiniteSet(rows') /\ held' \subseteq held /\ held' \subseteq rows'
    BY <1>4, FS_RemoveElement DEF RowLeaves, ViewsInv, ViewsTyped
  <2> QED
    BY <1>4, <2>1, RowsKeep DEF RowLeaves, ViewsInv, ViewsTyped
<1>5. ASSUME NEW r \in rows, Heartbeat(r) PROVE ViewsInv'
  <2>1. turn \in Nat /\ r \in Seen
    BY ObservationAssumption DEF ViewsInv, ViewsTyped
  <2>2. PICK s \in Seen : s = [r EXCEPT !.at = turn]
    BY <2>1 DEF Seen
  <2>3. rows' = (rows \ {r}) \cup {s} /\ held' = held \ {r} /\ UNCHANGED <<turn, drawn, reader, view>>
    BY <1>5, <2>2 DEF Heartbeat
  <2>4. IsFiniteSet(rows \ {r})
    BY FS_RemoveElement DEF ViewsInv, ViewsTyped
  <2>5. IsFiniteSet(rows')
    BY <2>3, <2>4, FS_AddElement
  <2>6. rows' \in SUBSET Seen /\ held' \subseteq held /\ held' \subseteq rows'
    BY <2>3 DEF ViewsInv, ViewsTyped
  <2> QED
    BY <2>3, <2>5, <2>6, RowsKeep DEF ViewsInv, ViewsTyped
<1>6. CASE TurnPasses
  <2>1. turn' \in 1 .. MaxTurns
    BY <1>6, ObservationAssumption DEF TurnPasses, ViewsInv, ViewsTyped
  <2> QED
    BY <1>6, <2>1, RowsKeep DEF TurnPasses, ViewsInv, ViewsTyped
<1> QED
  BY <1>1, <1>2, <1>3, <1>4, <1>5, <1>6

-----------------------------------------------------------------------------
(* Requests                                                                  *)

\* A request starts owing all there is, and has read nothing.
LEMMA StartKeeps ==
    ASSUME ViewsInv, NEW q \in Reading, reader' = q, q.limit # 0, q.got = {},
           held' = rows, view' = NoView, UNCHANGED <<turn, rows, drawn>>,
           LaneAccounts(q, rows), AgentAccounts(q, rows)
    PROVE  ViewsInv'
<1>1. ViewsTyped'
  BY FS_EmptySet DEF ViewsInv, ViewsTyped, NoView
<1>2. view'.op = "none" /\ view'.status = "none"
  BY DEF NoView
<1> QED
  BY <1>1, <1>2 DEF ViewsInv, LaneMissesNothing, MissingHadNothing

LEMMA NoReaderReads ==
    /\ NoReader \in Reading /\ NoReader.op = "none" /\ NoReader.left = << >> /\ NoReader.limit = 1
    /\ NoReader.got = {} /\ NoReader.chat = "store"
<1>1. << >> \in Seq(Statements)
  OBVIOUS
<1> QED
  BY <1>1 DEF NoReader, Reading, Names

LEMMA LimitParsed ==
    ASSUME NEW raw \in 0 .. MaxRowLimit
    PROVE  ParsedLimit(raw) \in Nat \ {0}
BY ObservationAssumption DEF ParsedLimit

\* No source of the statement lists is done at the start.
LEMMA ListsAhead ==
    /\ LaneSources \in Seq(Statements) /\ <<"runtime", "delivery", "activity">> \in Seq(Statements)
    /\ \A q, source : q.left = LaneSources /\ source \in Sources => ~Done(q, source)
    /\ \A q, source : q.left = <<"runtime", "delivery", "activity">> /\ source \in Sources \ {"chat"}
                         => ~Done(q, source)
<1>1. /\ LaneSources \in Seq(Statements) /\ Len(LaneSources) = 4
      /\ LaneSources[1] = "activity" /\ LaneSources[2] = "delivery"
      /\ LaneSources[3] = "runtime" /\ LaneSources[4] = "chat"
  BY DEF LaneSources, Statements
<1> DEFINE three == <<"runtime", "delivery", "activity">>
<1>2. /\ three \in Seq(Statements) /\ Len(three) = 3
      /\ three[1] = "runtime" /\ three[2] = "delivery" /\ three[3] = "activity"
  BY DEF Statements
<1>3. 1 \in 1 .. 4 /\ 2 \in 1 .. 4 /\ 3 \in 1 .. 4 /\ 4 \in 1 .. 4 /\ 1 \in 1 .. 3 /\ 2 \in 1 .. 3 /\ 3 \in 1 .. 3
  OBVIOUS
<1> HIDE DEF three
<1>4. \A q, source : q.left = LaneSources /\ source \in Sources => ~Done(q, source)
  BY <1>1, <1>3 DEF Done, Sources
<1>5. \A q, source : q.left = three /\ source \in Sources \ {"chat"} => ~Done(q, source)
  BY <1>2, <1>3 DEF Done, Sources
<1> QED
  BY <1>1, <1>2, <1>4, <1>5 DEF three

StartOf(op, left, limit, about) ==
    [NoReader EXCEPT !.op = op, !.left = left, !.limit = limit, !.about = about]

Starts(q, op, left, limit, about) ==
    /\ q \in Reading /\ q.got = {}
    /\ q.op = op /\ q.left = left /\ q.limit = limit /\ q.about = about

LEMMA RequestReads ==
    ASSUME NEW op \in Views, NEW left \in Seq(Statements), NEW limit \in Nat, NEW about \in Names
    PROVE  Starts(StartOf(op, left, limit, about), op, left, limit, about)
<1>1. PICK none \in Reading : none = NoReader
  BY NoReaderReads
<1>2. none.got = {}
  BY <1>1, NoReaderReads
<1> DEFINE p == [none EXCEPT !.op = op, !.left = left]
           q == [p EXCEPT !.limit = limit, !.about = about]
<1>3. StartOf(op, left, limit, about) = q
  BY <1>1 DEF StartOf
<1>4. p \in Reading /\ p.op = op /\ p.left = left /\ p.got = {}
  BY <1>2 DEF Reading
<1> HIDE DEF p
<1>5. q \in Reading /\ q.op = op /\ q.left = left /\ q.limit = limit /\ q.about = about /\ q.got = {}
  BY <1>4 DEF Reading
<1> HIDE DEF q
<1> QED
  BY <1>3, <1>5 DEF Starts

LEMMA RequestKeeps ==
    ASSUME ViewsInv, NEW op \in Views, NEW raw \in Nat,
           NEW about \in Names, NEW left \in Seq(Statements),
           op = "agents" => about = NoAgent,
           op = "agent" => left = <<"runtime", "delivery", "activity">>,
           Request(op, raw, about, left)
    PROVE  ViewsInv'
<1>1. raw \in 0 .. MaxRowLimit /\ held' = rows /\ view' = NoView /\ UNCHANGED <<turn, rows, drawn>>
  BY DEF Request
<1>2. PICK limit \in Nat \ {0} : limit = ParsedLimit(raw)
  BY <1>1, LimitParsed
<1>3. reader' = [NoReader EXCEPT !.op = op, !.left = left, !.limit = limit, !.about = about]
  BY <1>2 DEF Request
<1>4. PICK q : q = reader'
  OBVIOUS
<1>5. q \in Reading /\ q.op = op /\ q.left = left /\ q.limit = limit /\ q.about = about /\ q.got = {}
  <2>1. q = StartOf(op, left, limit, about)
    BY <1>3, <1>4 DEF StartOf
  <2>2. Starts(StartOf(op, left, limit, about), op, left, limit, about)
    BY RequestReads
  <2>3. Starts(q, op, left, limit, about)
    BY <2>1, <2>2
  <2> QED
    BY <2>3 DEF Starts
<1>6. LaneAccounts(q, rows)
  BY <1>5 DEF LaneAccounts, Views
<1>7. AgentAccounts(q, rows)
  <2> SUFFICES ASSUME op = "agent", NEW r \in rows, r.source # "chat", Done(q, r.source) PROVE FALSE
    BY <1>5 DEF AgentAccounts
  <2>1. r.source \in Sources \ {"chat"}
    BY DEF ViewsInv, ViewsTyped, Seen
  <2> QED
    BY <1>5, <2>1, ListsAhead
<1> QED
  BY <1>1, <1>2, <1>4, <1>5, <1>6, <1>7, StartKeeps

LEMMA LaneKeeps ==
    ASSUME ViewsInv, NEW raw \in Nat, Lane(raw)
    PROVE  ViewsInv'
<1>1. raw \in 0 .. MaxRowLimit /\ held' = rows /\ view' = NoView /\ UNCHANGED <<turn, rows, drawn>>
  BY DEF Lane
<1>2. PICK limit \in Nat \ {0} : limit = ParsedLimit(raw)
  BY <1>1, LimitParsed
<1>3. PICK chat \in {"store", "legacy"} :
          reader' = [NoReader EXCEPT !.op = "lane", !.left = LaneSources, !.limit = limit, !.chat = chat]
  BY <1>2, ObservationAssumption DEF Lane
<1>4. PICK none \in Reading : none = NoReader
  BY NoReaderReads
<1>5. none.got = {}
  BY <1>4, NoReaderReads
<1> DEFINE p == [none EXCEPT !.op = "lane", !.left = LaneSources]
           q == [p EXCEPT !.limit = limit, !.chat = chat]
<1>6. p \in Reading /\ p.op = "lane" /\ p.left = LaneSources /\ p.got = {}
  BY <1>5, ListsAhead DEF Reading
<1>7. reader' = q
  BY <1>3, <1>4
<1> HIDE DEF p
<1>8. q \in Reading /\ q.op = "lane" /\ q.left = LaneSources /\ q.limit = limit /\ q.got = {}
  BY <1>6 DEF Reading
<1> HIDE DEF q
<1>9. LaneAccounts(q, rows)
  <2> SUFFICES ASSUME NEW r \in rows, Done(q, r.source) PROVE FALSE
    BY DEF LaneAccounts
  <2>1. r.source \in Sources
    BY DEF ViewsInv, ViewsTyped, Seen
  <2> QED
    BY <1>8, <2>1, ListsAhead
<1>10. AgentAccounts(q, rows)
  BY <1>8 DEF AgentAccounts
<1> QED
  BY <1>1, <1>2, <1>7, <1>8, <1>9, <1>10, StartKeeps

-----------------------------------------------------------------------------
(* Statements                                                                *)

LEMMA OneMoreDone ==
    ASSUME NEW q, NEW p, NEW left \in Seq(Statements), p.left = left, left # << >>, q.left = Tail(left),
           NEW source, Done(q, source)
    PROVE  Done(p, source) \/ source = Head(left)
<1> SUFFICES ASSUME source # Head(left), NEW k \in 1 .. Len(left) PROVE left[k] # source
  BY DEF Done
<1>1. Len(left) \in Nat /\ Len(Tail(left)) = Len(left) - 1 /\ Head(left) = left[1]
  OBVIOUS
<1>2. CASE k = 1
  BY <1>1, <1>2
<1>3. CASE k # 1
  <2>1. k - 1 \in 1 .. Len(Tail(left)) /\ left[k] = Tail(left)[k - 1]
    BY <1>1, <1>3
  <2> QED
    BY <2>1 DEF Done
<1> QED
  BY <1>2, <1>3

\* A request that goes on without touching rows or the last answer.
LEMMA ReaderKeeps ==
    ASSUME ViewsInv, NEW q \in Reading, reader' = q, q.limit # 0, IsFiniteSet(q.got),
           UNCHANGED <<turn, rows, drawn, held, view>>,
           LaneAccounts(q, held), AgentAccounts(q, held)
    PROVE  ViewsInv'
<1>1. ViewsTyped'
  BY DEF ViewsInv, ViewsTyped
<1> QED
  BY <1>1 DEF ViewsInv, LaneMissesNothing, MissingHadNothing

LEMMA ReadLane ==
    ASSUME ViewsInv, reader.op = "lane", NEW r \in held, NEW result \in Statement(r.source),
           ~(reader.chat = "legacy" /\ r.source = "chat")
    PROVE  r \in result \/ Outdone(result, reader.limit, r)
<1>1. r \in Of(r.source) /\ Of(r.source) \in SUBSET rows
  BY DEF Of, ViewsInv, ViewsTyped
<1>2. IsFiniteSet(Of(r.source)) /\ Of(r.source) \in SUBSET Seen /\ reader.limit \in Nat
  BY <1>1, FS_Subset DEF ViewsInv, ViewsTyped, Reading
<1>3. result \in NewestOf(Of(r.source), reader.limit)
  <2>1. CASE r.source = "chat"
    BY <2>1 DEF Statement, ChatEvents
  <2>2. CASE r.source # "chat"
    BY <2>2 DEF Statement
  <2> QED
    BY <2>1, <2>2
<1>4. r \notin result => Cardinality(result) = reader.limit /\ \A x \in result : x.at >= r.at
  BY <1>1, <1>2, <1>3, NewestLeaves
<1> QED
  BY <1>4 DEF Outdone

LEMMA ReadAgent ==
    ASSUME ViewsInv, reader.op \in {"agent", "agents"}, NEW r \in held, r.agent = reader.about,
           NEW result \in Statement(r.source)
    PROVE  \E g \in result : g.agent = reader.about
<1> DEFINE S == About(reader.about, r.source)
<1>1. r \in S /\ S \in SUBSET rows /\ \A g \in S : g.agent = reader.about
  BY DEF About, Of, ViewsInv, ViewsTyped
<1>2. IsFiniteSet(S) /\ S \in SUBSET Seen
  BY <1>1, FS_Subset DEF ViewsInv, ViewsTyped
<1>3. CASE r.source = "activity"
  <2>1. result \in NewestOf(S, DefaultRowLimit) /\ DefaultRowLimit \in Nat \ {0}
    BY <1>3, ObservationAssumption DEF Statement
  <2> HIDE DEF S
  <2>2. result \in SUBSET S /\ (r \notin result => Cardinality(result) = DefaultRowLimit)
    BY <1>1, <1>2, <2>1, NewestLeaves
  <2>3. result # {}
    BY <2>1, <2>2, FS_EmptySet
  <2> QED
    BY <1>1, <2>2, <2>3
<1>4. CASE r.source # "activity"
  <2>1. result = S
    BY <1>4 DEF Statement
  <2> QED
    BY <1>1, <2>1
<1> QED
  BY <1>3, <1>4

LEMMA OutdoneByMore ==
    ASSUME NEW S, NEW T, S \subseteq T, NEW n, NEW r, Outdone(S, n, r)
    PROVE  Outdone(T, n, r)
BY DEF Outdone

LEMMA ReadRowsKeeps ==
    ASSUME ViewsInv, ReadRows
    PROVE  ViewsInv'
<1> DEFINE p == reader
           source == Head(reader.left)
<1>1. PICK result \in Statement(source) : reader' = [reader EXCEPT !.left = Tail(@), !.got = @ \cup result]
  BY DEF ReadRows
<1>2. result \in SUBSET rows /\ IsFiniteSet(result)
  BY <1>1, StatementRows DEF ViewsInv
<1>3. reader \in Reading /\ reader.left \in Seq(Statements) /\ reader.left # << >> /\ reader.limit # 0
  BY DEF ReadRows, ViewsInv, ViewsTyped, Reading
<1>4. Tail(reader.left) \in Seq(Statements) /\ result \in SUBSET Seen
  <2>1. Tail(reader.left) \in Seq(Statements)
    BY <1>3, HeadTailProperties
  <2> QED
    BY <1>2, <2>1 DEF ViewsInv, ViewsTyped
<1> DEFINE q == [reader EXCEPT !.left = Tail(@), !.got = @ \cup result]
<1>5. /\ q \in Reading /\ q.left = Tail(reader.left) /\ q.got = reader.got \cup result
      /\ q.op = reader.op /\ q.limit = reader.limit /\ q.about = reader.about /\ q.chat = reader.chat
  BY <1>3, <1>4 DEF Reading
<1>6. reader' = q
  BY <1>1
<1> HIDE DEF q
<1>7. IsFiniteSet(q.got)
  <2>1. IsFiniteSet(reader.got)
    BY DEF ViewsInv, ViewsTyped
  <2> QED
    BY <1>2, <1>5, <2>1, FS_Union
<1>8. ASSUME NEW s, Done(q, s) PROVE Done(reader, s) \/ s = source
  BY <1>3, <1>5, <1>8, OneMoreDone
<1>9. LaneAccounts(q, held)
  <2> SUFFICES ASSUME reader.op = "lane", NEW r \in held, Done(q, r.source),
                      ~(reader.chat = "legacy" /\ r.source = "chat")
               PROVE  r \in q.got \/ Outdone(q.got, reader.limit, r)
    BY <1>5 DEF LaneAccounts
  <2>1. CASE Done(reader, r.source)
    <3>1. r \in reader.got \/ Outdone(reader.got, reader.limit, r)
      BY <2>1 DEF ViewsInv, LaneAccounts
    <3> QED
      BY <1>5, <3>1, OutdoneByMore
  <2>2. CASE r.source = source
    <3>1. r \in result \/ Outdone(result, reader.limit, r)
      BY <1>1, <2>2, ReadLane
    <3> QED
      BY <1>5, <3>1, OutdoneByMore
  <2> QED
    BY <1>8, <2>1, <2>2
<1>10. AgentAccounts(q, held)
  <2> SUFFICES ASSUME reader.op = "agent" \/ (reader.op = "agents" /\ reader.about # NoAgent),
                      NEW r \in held, r.agent = reader.about, r.source # "chat", Done(q, r.source)
               PROVE  \E g \in q.got : g.agent = reader.about
    BY <1>5 DEF AgentAccounts
  <2>1. CASE Done(reader, r.source)
    <3>1. \E g \in reader.got : g.agent = reader.about
      BY <2>1 DEF ViewsInv, AgentAccounts
    <3> QED
      BY <1>5, <3>1
  <2>2. CASE r.source = source
    <3>1. \E g \in result : g.agent = reader.about
      BY <1>1, <2>2, ReadAgent
    <3> QED
      BY <1>5, <3>1
  <2> QED
    BY <1>8, <2>1, <2>2
<1>11. UNCHANGED <<turn, rows, drawn, held, view>>
  BY DEF ReadRows
<1> QED
  BY <1>3, <1>5, <1>6, <1>7, <1>9, <1>10, <1>11, ReaderKeeps

LEMMA AgentsKeep ==
    ASSUME ViewsInv, ListAgentIDs \/ ReadNextAgent \/ (NextAgentRead /\ reader'.op # "none")
    PROVE  ViewsInv'
<1>1. reader \in Reading /\ IsFiniteSet(reader.got) /\ reader.limit # 0
  BY DEF ViewsInv, ViewsTyped
<1>2. CASE ListAgentIDs
  <2>1. PICK ids \in SUBSET Members : reader' = [reader EXCEPT !.left = << >>, !.listed = ids]
    BY <1>2 DEF ListAgentIDs, kSubset
  <2>2. << >> \in Seq(Statements)
    OBVIOUS
  <2> DEFINE q == [reader EXCEPT !.left = << >>, !.listed = ids]
  <2>3. /\ q \in Reading /\ q.op = reader.op /\ q.limit = reader.limit /\ q.about = reader.about
        /\ q.got = reader.got
    BY <1>1, <2>2 DEF Reading
  <2>4. reader' = q
    BY <2>1
  <2> HIDE DEF q
  <2>5. reader.op = "agents" /\ reader.left = <<"ids">> /\ UNCHANGED <<turn, rows, drawn, held, view>>
    BY <1>2 DEF ListAgentIDs
  <2>6. ASSUME NEW r \in held PROVE Done(reader, r.source)
    <3>1. r.source \in Sources
      BY DEF ViewsInv, ViewsTyped, Seen
    <3>2. r.source # "ids"
      BY <3>1 DEF Sources
    <3>3. Len(reader.left) = 1 /\ reader.left[1] = "ids"
      BY <2>5
    <3> QED
      BY <3>2, <3>3 DEF Done
  <2>7. LaneAccounts(q, held)
    BY <2>3, <2>5 DEF LaneAccounts
  <2>8. AgentAccounts(q, held)
    BY <2>3, <2>6 DEF AgentAccounts, ViewsInv
  <2> QED
    BY <1>1, <2>3, <2>4, <2>5, <2>7, <2>8, ReaderKeeps
<1>3. CASE ReadNextAgent
  <2> DEFINE three == <<"runtime", "delivery", "activity">>
  <2>1. PICK a \in reader.listed : reader' = [reader EXCEPT !.left = three, !.about = a]
    BY <1>3 DEF ReadNextAgent
  <2>2. a \in Members
    BY <1>1 DEF Reading
  <2>3. three \in Seq(Statements)
    BY ListsAhead
  <2>4. \A p, s : p.left = three /\ s \in Sources \ {"chat"} => ~Done(p, s)
    BY ListsAhead
  <2> HIDE DEF three
  <2> DEFINE q == [reader EXCEPT !.left = three, !.about = a]
  <2>5. /\ q \in Reading /\ q.op = reader.op /\ q.limit = reader.limit /\ q.left = three
        /\ q.got = reader.got
    BY <1>1, <2>2, <2>3 DEF Reading, Names
  <2>6. reader' = q
    BY <2>1
  <2> HIDE DEF q
  <2>7. reader.op = "agents" /\ UNCHANGED <<turn, rows, drawn, held, view>>
    BY <1>3 DEF ReadNextAgent
  <2>8. LaneAccounts(q, held)
    BY <2>5, <2>7 DEF LaneAccounts
  <2>9. AgentAccounts(q, held)
    <3> SUFFICES ASSUME NEW r \in held, r.source # "chat", Done(q, r.source) PROVE FALSE
      BY DEF AgentAccounts
    <3>1. r.source \in Sources \ {"chat"}
      BY DEF ViewsInv, ViewsTyped, Seen
    <3> QED
      BY <2>4, <2>5, <3>1
  <2> QED
    BY <1>1, <2>5, <2>6, <2>7, <2>8, <2>9, ReaderKeeps
<1>4. CASE NextAgentRead /\ reader'.op # "none"
  <2>1. /\ reader' = [reader EXCEPT !.about = NoAgent] /\ reader.op = "agents"
        /\ UNCHANGED <<turn, rows, drawn, held, view>>
    BY <1>4, NoReaderReads DEF NextAgentRead, AnswerView
  <2> DEFINE q == [reader EXCEPT !.about = NoAgent]
  <2>2. q \in Reading /\ q.op = reader.op /\ q.limit = reader.limit /\ q.about = NoAgent /\ q.got = reader.got
    BY <1>1 DEF Reading, Names
  <2>3. reader' = q
    BY <2>1
  <2> HIDE DEF q
  <2>4. LaneAccounts(q, held) /\ AgentAccounts(q, held)
    BY <2>1, <2>2 DEF LaneAccounts, AgentAccounts
  <2> QED
    BY <1>1, <2>1, <2>2, <2>3, <2>4, ReaderKeeps
<1> QED
  BY <1>2, <1>3, <1>4

-----------------------------------------------------------------------------
(* Answers                                                                   *)

LEMMA AnswerKeepsView ==
    ASSUME ViewsInv, NEW status \in {"ok", "not_found", "failed"}, NEW found, AnswerView(status, found),
           reader.op = "lane" /\ status = "ok" =>
               \A r \in held \ found :
                   \/ reader.chat = "legacy" /\ r.source = "chat"
                   \/ Cardinality(found) = reader.limit /\ \A s \in found : s.at >= r.at,
           status = "not_found" => ~\E r \in held : r.agent = reader.about /\ r.source # "chat"
    PROVE  ViewsInv'
<1>1. /\ view'.op = reader.op /\ view'.status = status /\ view'.rows = found /\ view'.limit = reader.limit
      /\ view'.about = reader.about /\ view'.chat = reader.chat
      /\ reader' = NoReader /\ UNCHANGED <<turn, rows, drawn, held>>
  BY DEF AnswerView
<1>2. held \subseteq rows
  BY DEF ViewsInv, ViewsTyped
<1>3. ViewsTyped'
  BY <1>1, NoReaderReads, FS_EmptySet DEF ViewsInv, ViewsTyped
<1>4. LaneAccounts(reader, held)' /\ AgentAccounts(reader, held)'
  BY <1>1, NoReaderReads DEF LaneAccounts, AgentAccounts
<1>5. LaneMissesNothing'
  BY <1>1, <1>2 DEF LaneMissesNothing
<1>6. MissingHadNothing'
  BY <1>1, <1>2 DEF MissingHadNothing
<1> QED
  BY <1>3, <1>4, <1>5, <1>6 DEF ViewsInv

\* A lane that has read its sources and is cut misses nothing newer.
LEMMA LaneAnswered ==
    ASSUME ViewsInv, AnswerLane
    PROVE  ViewsInv'
<1>1. PICK cut \in LaneCuts : AnswerView("ok", cut)
  BY DEF AnswerLane
<1>2. reader.op = "lane" /\ reader.left = << >>
  BY DEF AnswerLane
<1>3. cut \in NewestOf(reader.got, reader.limit)
  BY <1>1 DEF LaneCuts
<1>4. reader.got \in SUBSET Seen /\ IsFiniteSet(reader.got) /\ reader.limit \in Nat
  BY DEF ViewsInv, ViewsTyped, Reading
<1>5. /\ cut \in SUBSET reader.got /\ IsFiniteSet(cut)
      /\ Cardinality(reader.got) \in Nat /\ Cardinality(cut) \in Nat
      /\ Cardinality(cut) = IF Cardinality(reader.got) <= reader.limit
                            THEN Cardinality(reader.got) ELSE reader.limit
      /\ \A y \in reader.got \ cut :
            Cardinality(cut) = reader.limit /\ \A x \in cut : x.at >= y.at
  BY <1>3, <1>4, NewestLeaves
<1>6. ASSUME NEW r \in held \ cut, ~(reader.chat = "legacy" /\ r.source = "chat")
      PROVE  Cardinality(cut) = reader.limit /\ \A s \in cut : s.at >= r.at
  <2>1. Done(reader, r.source)
    BY <1>2 DEF Done
  <2>2. r \in reader.got \/ Outdone(reader.got, reader.limit, r)
    BY <1>2, <1>6, <2>1 DEF ViewsInv, LaneAccounts
  <2>3. CASE r \in reader.got
    BY <1>5, <1>6, <2>3
  <2>4. CASE Outdone(reader.got, reader.limit, r)
    <3>1. PICK U \in SUBSET reader.got : Cardinality(U) = reader.limit /\ \A u \in U : u.at >= r.at
      BY <2>4 DEF Outdone
    <3>2. IsFiniteSet(U) /\ Cardinality(U) <= Cardinality(reader.got)
      BY <1>4, <3>1, FS_Subset
    <3>3. Cardinality(cut) = reader.limit
      BY <1>4, <1>5, <3>1, <3>2
    <3>4. CASE U \subseteq cut
      <4>1. U = cut
        BY <1>5, <3>1, <3>3, <3>4, FS_Subset
      <4> QED
        BY <3>1, <3>3, <4>1
    <3>5. CASE ~(U \subseteq cut)
      <4>1. PICK y \in U : y \notin cut
        BY <3>5
      <4>2. y \in Seen /\ r \in Seen /\ y.at >= r.at /\ \A x \in cut : x \in Seen /\ x.at >= y.at
        BY <1>4, <1>5, <3>1, <4>1 DEF ViewsInv, ViewsTyped
      <4>3. y.at \in Nat /\ r.at \in Nat /\ \A x \in cut : x.at \in Nat
        BY <4>2 DEF Seen
      <4> QED
        BY <3>3, <4>2, <4>3
    <3> QED
      BY <3>4, <3>5
  <2> QED
    BY <2>2, <2>3, <2>4
<1> QED
  BY <1>1, <1>6, AnswerKeepsView

\* An agent is reported missing when every source was read and had nothing.
LEMMA MissingAnswered ==
    ASSUME ViewsInv, AnswerAgent \/ (NextAgentRead /\ ~(reader'.op # "none"))
    PROVE  ViewsInv'
<1>1. reader.left = << >> /\ \A s : Done(reader, s)
  BY DEF AnswerAgent, NextAgentRead, Done
<1>2. CASE AnswerAgent
  <2>1. PICK status \in {"ok", "not_found"} : status = IF reader.got = {} THEN "not_found" ELSE "ok"
    OBVIOUS
  <2>2. reader.op = "agent" /\ AnswerView(status, reader.got)
    BY <1>2, <2>1 DEF AnswerAgent
  <2>3. status = "not_found" => ~\E r \in held : r.agent = reader.about /\ r.source # "chat"
    BY <1>1, <2>1, <2>2 DEF ViewsInv, AgentAccounts
  <2> QED
    BY <2>2, <2>3, AnswerKeepsView
<1>3. CASE NextAgentRead /\ ~(reader'.op # "none")
  <2>1. reader.op = "agents" /\ reader.about # NoAgent /\ reader \in Reading
    BY <1>3 DEF NextAgentRead, ViewsInv, ViewsTyped
  <2>2. [reader EXCEPT !.about = NoAgent].op = reader.op
    BY <2>1 DEF Reading
  <2>3. ~(\E r \in reader.got : r.agent = reader.about) /\ AnswerView("not_found", {})
    BY <1>3, <2>1, <2>2 DEF NextAgentRead
  <2>4. ~\E r \in held : r.agent = reader.about /\ r.source # "chat"
    BY <1>1, <2>1, <2>3 DEF ViewsInv, AgentAccounts
  <2> QED
    BY <2>1, <2>3, <2>4, AnswerKeepsView
<1> QED
  BY <1>2, <1>3

LEMMA PlainAnswered ==
    ASSUME ViewsInv, AnswerAgents \/ AnswerTrace \/ ReadFails
    PROVE  ViewsInv'
<1>1. CASE AnswerAgents
  BY <1>1, AnswerKeepsView DEF AnswerAgents
<1>2. CASE AnswerTrace
  BY <1>2, AnswerKeepsView DEF AnswerTrace
<1>3. CASE ReadFails
  BY <1>3, AnswerKeepsView DEF ReadFails
<1> QED
  BY <1>1, <1>2, <1>3

LEMMA RawNatural == \A raw \in 0 .. MaxRowLimit : raw \in Nat
BY ObservationAssumption

LEMMA RequestsKeep ==
    ASSUME ViewsInv,
           \/ \E raw \in RowLimits : Lane(raw) \/ AgentsOverview(raw)
           \/ \E agent \in Members : AgentOverview(agent)
           \/ \E a \in Assignments, raw \in RowLimits : AssignmentTrace(a, raw)
           \/ \E agent \in Members \cup {NoAgent}, raw \in RowLimits : ActivityHistory(agent, raw)
    PROVE  ViewsInv'
<1>1. \A op, raw, about, left : Request(op, raw, about, left) => raw \in Nat
  BY RawNatural DEF Request
<1>2. /\ <<"ids">> \in Seq(Statements) /\ <<"runtime", "delivery", "activity">> \in Seq(Statements)
      /\ <<"chat", "activity">> \in Seq(Statements) /\ <<"activity">> \in Seq(Statements)
  BY DEF Statements
<1>3. ASSUME NEW raw, Lane(raw) PROVE ViewsInv'
  <2>1. raw \in Nat
    BY <1>3, RawNatural DEF Lane
  <2> QED
    BY <1>3, <2>1, LaneKeeps
<1>4. ASSUME NEW raw, AgentsOverview(raw) PROVE ViewsInv'
  <2>1. Request("agents", raw, NoAgent, <<"ids">>) /\ raw \in Nat
    BY <1>1, <1>4 DEF AgentsOverview
  <2> QED
    BY <1>2, <2>1, RequestKeeps DEF Views, Names
<1>5. ASSUME NEW agent \in Members, AgentOverview(agent) PROVE ViewsInv'
  <2>1. Request("agent", 0, agent, <<"runtime", "delivery", "activity">>)
    BY <1>5 DEF AgentOverview
  <2> QED
    BY <1>2, <2>1, RequestKeeps DEF Views, Names
<1>6. ASSUME NEW a \in Assignments, NEW raw, AssignmentTrace(a, raw) PROVE ViewsInv'
  <2>1. Request("trace", raw, a, <<"chat", "activity">>) /\ raw \in Nat
    BY <1>1, <1>6 DEF AssignmentTrace
  <2> QED
    BY <1>2, <2>1, RequestKeeps DEF Views, Names
<1>7. ASSUME NEW agent \in Members \cup {NoAgent}, NEW raw, ActivityHistory(agent, raw) PROVE ViewsInv'
  <2>1. Request("history", raw, agent, <<"activity">>) /\ raw \in Nat
    BY <1>1, <1>7 DEF ActivityHistory
  <2> QED
    BY <1>2, <2>1, RequestKeeps DEF Views, Names
<1> QED
  BY <1>3, <1>4, <1>5, <1>6, <1>7

\* A lane leaves out a row that stayed only for rows at least as new, and an
\* agent with a row that stayed is not reported missing, whatever happens to
\* the rows between the statements of a view (Lane, AgentOverview and
\* AgentsOverview of observation/internal/service.go).
THEOREM ViewsComplete == ObservationSpec => []ViewsMissNothing
<1>1. ObservationInit => ViewsInv
  <2> SUFFICES ASSUME ObservationInit PROVE ViewsInv
    OBVIOUS
  <2>1. /\ turn = 1 /\ rows = {} /\ held = {} /\ reader = NoReader
        /\ drawn = [source \in Sources |-> 0]
        /\ view.op = "none" /\ view.status = "none"
    BY DEF ObservationInit, Sources, NoView
  <2>2. ViewsTyped
    BY <2>1, NoReaderReads, FS_EmptySet, ObservationAssumption DEF ViewsTyped
  <2> QED
    BY <2>1, <2>2, NoReaderReads
    DEF ViewsInv, LaneAccounts, AgentAccounts, LaneMissesNothing, MissingHadNothing
<1>2. ViewsInv /\ [ObservationNext]_observationVars => ViewsInv'
  <2> SUFFICES ASSUME ViewsInv, [ObservationNext]_observationVars PROVE ViewsInv'
    OBVIOUS
  <2>1. CASE UNCHANGED observationVars
    <3>1. UNCHANGED <<turn, rows, drawn, reader, held, view>>
      BY <2>1 DEF observationVars
    <3>2. /\ turn' \in 1 .. MaxTurns /\ rows' \in SUBSET Seen /\ IsFiniteSet(rows')
          /\ drawn' \in [Sources -> Nat] /\ held' \subseteq held /\ held' \subseteq rows'
      BY <3>1 DEF ViewsInv, ViewsTyped
    <3> QED
      BY <3>1, <3>2, RowsKeep
  <2>2. CASE ObservationNext
    BY <2>2, OthersKeep, RequestsKeep, ReadRowsKeeps, AgentsKeep, LaneAnswered, MissingAnswered, PlainAnswered
    DEF ObservationNext
  <2> QED
    BY <2>1, <2>2
<1>3. ViewsInv => ViewsMissNothing
  BY DEF ViewsInv, ViewsTyped, ViewsMissNothing, ObservationTypeOK
<1> QED
  BY <1>1, <1>2, <1>3, PTL DEF ObservationSpec

-----------------------------------------------------------------------------
(* The timeline.  The inductive invariant: two rows differ in their place,    *)
(* what a poll could reach can lose its channel and not regain it, and an     *)
(* open stream stands behind the last item the client received.               *)

FeedRows == [at : 1 .. MaxInstant, source : Domains, id : 1 .. MaxRows,
             channel : BOOLEAN, debug : BOOLEAN, link : 0 .. MaxRows]
FeedCursors == [at : 0 .. MaxInstant, source : Domains, id : 0 .. MaxRows]
Followers == [state : {"closed", "open", "error"}, cursor : FeedCursors, limit : Nat,
              debug : BOOLEAN, opened : 0 .. MaxStreams]

StreamTyped ==
    /\ instant \in 1 .. MaxInstant
    /\ serial \in [Domains -> 0 .. MaxRows]
    /\ feed \in SUBSET FeedRows /\ IsFiniteSet(feed) /\ unseen \in SUBSET FeedRows
    /\ received \in Seq(FeedRows) /\ offered \in SUBSET FeedRows
    /\ follower \in Followers

SameRow(i, j) == i.source = j.source /\ i.id = j.id

RowsDistinct ==
    /\ \A i, j \in feed \cup unseen : SameRow(i, j) => i = j
    /\ \A i \in feed \cup unseen \cup offered : i.id <= serial[i.source]
    /\ feed \cap unseen = {} /\ offered \cap unseen = {}

\* The message an offered row shows by has been committed, and so is there for
\* good or gone for good.
LinksSettled ==
    \A i \in offered :
        \/ i.channel
        \/ /\ i.link <= serial["msg"]
           /\ \A m \in unseen : m.source = "msg" => m.id # i.link

StreamAtEnd ==
    follower.state = "open" =>
        follower.cursor = Resume \/ (follower.cursor # NoCursor /\ ~ValidCursor(follower.cursor))

Ascending(s) == \A j, k \in 1 .. Len(s) : j < k => Earlier(s[j], s[k])

\* The row is in the list, or every item of it comes before.
Kept(i, s) ==
    \/ \E k \in 1 .. Len(s) : s[k] = i
    \/ \A k \in 1 .. Len(s) : Earlier(s[k], i)

NothingSkipped ==
    /\ received = << >> => offered = {}
    /\ \A i \in offered \cap feed : InChannel(i) /\ ~i.debug => Kept(i, received)

StreamInv ==
    StreamTyped /\ RowsDistinct /\ LinksSettled /\ StreamAtEnd /\ Ascending(received) /\ NothingSkipped

-----------------------------------------------------------------------------
(* The order of the feed                                                      *)

LEMMA EarlierIsOrder ==
    ASSUME NEW a \in FeedRows, NEW b \in FeedRows, NEW c \in FeedRows
    PROVE  /\ ~Earlier(a, a)
           /\ Earlier(a, b) /\ Earlier(b, c) => Earlier(a, c)
           /\ Earlier(a, b) => ~Earlier(b, a)
           /\ ~SameRow(a, b) => Earlier(a, b) \/ Earlier(b, a)
<1>1. /\ a.at \in Nat /\ b.at \in Nat /\ c.at \in Nat /\ a.id \in Nat /\ b.id \in Nat /\ c.id \in Nat
      /\ a.source \in Domains /\ b.source \in Domains /\ c.source \in Domains
  BY TimelineAssumption DEF FeedRows
<1>2. \A x, y \in Domains : /\ sourceRank(x) \in {1, 2}
                            /\ sourceRank(x) = sourceRank(y) => x = y
  BY DEF Domains, sourceRank
<1> HIDE DEF sourceRank
<1>3. /\ sourceRank(a.source) \in {1, 2} /\ sourceRank(b.source) \in {1, 2}
      /\ sourceRank(c.source) \in {1, 2}
      /\ sourceRank(a.source) = sourceRank(b.source) => a.source = b.source
  BY <1>1, <1>2
<1>4. ~Earlier(a, a)
  BY <1>1, <1>3 DEF Earlier
<1>5. Earlier(a, b) /\ Earlier(b, c) => Earlier(a, c)
  BY <1>1, <1>3 DEF Earlier
<1>6. Earlier(a, b) => ~Earlier(b, a)
  BY <1>1, <1>3 DEF Earlier
<1>7. ~SameRow(a, b) => Earlier(a, b) \/ Earlier(b, a)
  BY <1>1, <1>3 DEF Earlier, SameRow
<1> QED
  BY <1>4, <1>5, <1>6, <1>7

\* Rows that can be put in order.
Sortable(S) ==
    /\ S \in SUBSET FeedRows /\ IsFiniteSet(S)
    /\ \A i, j \in S : SameRow(i, j) => i = j

\* A page in the order of the feed, without repetition, with every member of S.
InFeedOrder(s, S) ==
    /\ s \in Seq(S) /\ Ascending(s)
    /\ \A i \in S : \E k \in 1 .. Len(s) : s[k] = i

LEMMA SortedIs ==
    ASSUME NEW S, Sortable(S)
    PROVE  InFeedOrder(Ordered(S), S)
<1> DEFINE n == Cardinality(S)
           upto(x) == {y \in S : ~Earlier(x, y)}
<1>1. IsFiniteSet(S) /\ n \in Nat /\ S \in SUBSET FeedRows
  BY FS_CardinalityType DEF Sortable
<1>2. ASSUME NEW x \in S PROVE /\ IsFiniteSet(upto(x)) /\ Rank(x, S) = Cardinality(upto(x))
                               /\ Rank(x, S) \in 1..n
  <2>1. IsFiniteSet(upto(x)) /\ Cardinality(upto(x)) <= n
    BY <1>1, FS_Subset
  <2>2. x \in upto(x)
    BY <1>1, EarlierIsOrder
  <2>3. Cardinality(upto(x)) \in Nat /\ Cardinality(upto(x)) # 0
    BY <2>1, <2>2, FS_CardinalityType, FS_EmptySet
  <2> QED
    BY <1>1, <2>1, <2>3 DEF Rank
<1>3. ASSUME NEW a \in S, NEW b \in S, Earlier(a, b) PROVE Rank(a, S) < Rank(b, S)
  <2>1. a \in FeedRows /\ b \in FeedRows
    BY <1>1
  <2>2. upto(a) \in SUBSET upto(b)
    <3> SUFFICES ASSUME NEW y \in S, ~Earlier(a, y) PROVE ~Earlier(b, y)
      OBVIOUS
    <3>1. y \in FeedRows
      BY <1>1
    <3> QED
      BY <1>3, <2>1, <3>1, EarlierIsOrder
  <2>3. b \in upto(b) /\ b \notin upto(a)
    BY <1>3, <2>1, EarlierIsOrder
  <2>4. Cardinality(upto(a)) <= Cardinality(upto(b)) /\ Cardinality(upto(a)) # Cardinality(upto(b))
    BY <1>2, <2>2, <2>3, FS_Subset
  <2>5. Rank(a, S) <= Rank(b, S) /\ Rank(a, S) # Rank(b, S) /\ Rank(a, S) \in Nat /\ Rank(b, S) \in Nat
    BY <1>2, <2>4
  <2> QED
    BY <2>5
<1>4. ASSUME NEW a \in S, NEW b \in S, a # b PROVE Earlier(a, b) \/ Earlier(b, a)
  BY <1>1, <1>4, EarlierIsOrder DEF Sortable
<1>5. ASSUME NEW a \in S, NEW b \in S, Rank(a, S) = Rank(b, S) PROVE a = b
  <2>1. Rank(a, S) \in 1..n
    BY <1>2
  <2>2. ~(Rank(a, S) < Rank(b, S)) /\ ~(Rank(b, S) < Rank(a, S))
    BY <1>1, <1>5, <2>1
  <2> QED
    BY <1>3, <1>4, <2>2
<1> DEFINE place == [x \in S |-> Rank(x, S)]
<1>6. place \in Injection(S, 1..n)
  BY <1>2, <1>5 DEF Injection, IsInjective
<1>7. IsFiniteSet(1..n) /\ Cardinality(1..n) = n
  BY <1>1, FS_Interval
<1>8. place \in Surjection(S, 1..n)
  BY <1>6, <1>7, FS_Injection
<1>9. ASSUME NEW k \in 1..n PROVE Ordered(S)[k] \in S /\ Rank(Ordered(S)[k], S) = k
  <2>1. \E x \in S : Rank(x, S) = k
    BY <1>8 DEF Surjection
  <2>2. Ordered(S)[k] = CHOOSE x \in S : Rank(x, S) = k
    BY DEF Ordered
  <2> QED
    BY <2>1, <2>2
<1>10. Ordered(S) \in Seq(S) /\ Len(Ordered(S)) = n
  <2>1. Ordered(S) = [k \in 1..n |-> Ordered(S)[k]]
    BY DEF Ordered
  <2> QED
    BY <1>1, <1>9, <2>1
<1>11. ASSUME NEW x \in S PROVE \E k \in 1..Len(Ordered(S)) : Ordered(S)[k] = x
  BY <1>2, <1>5, <1>9, <1>10
<1>12. ASSUME NEW j \in 1..n, NEW k \in 1..n, j < k PROVE Earlier(Ordered(S)[j], Ordered(S)[k])
  <2>1. PICK a \in S : a = Ordered(S)[j] /\ Rank(a, S) = j
    BY <1>9
  <2>2. PICK b \in S : b = Ordered(S)[k] /\ Rank(b, S) = k
    BY <1>9
  <2>3. a # b /\ ~Earlier(b, a)
    <3>1. j \in Nat /\ k \in Nat /\ j # k /\ ~(k < j)
      BY <1>1, <1>12
    <3> QED
      BY <1>3, <2>1, <2>2, <3>1
  <2> QED
    BY <1>4, <2>1, <2>2, <2>3
<1> QED
  BY <1>10, <1>11, <1>12 DEF InFeedOrder, Ascending

\* Part of a page in order is in order.
LEMMA PartIs ==
    ASSUME NEW S, NEW s \in Seq(S), Ascending(s),
           NEW a \in 1 .. Len(s) + 1, NEW b \in 0 .. Len(s), a <= b + 1
    PROVE  /\ SubSeq(s, a, b) \in Seq(S) /\ Ascending(SubSeq(s, a, b))
           /\ Len(SubSeq(s, a, b)) = b - a + 1
           /\ \A k \in 1 .. b - a + 1 : SubSeq(s, a, b)[k] = s[a + k - 1]
<1>1. Len(s) \in Nat
  OBVIOUS
<1>2. \A k \in 1 .. b - a + 1 : a + k - 1 \in 1 .. Len(s)
  BY <1>1
<1>3. /\ Len(SubSeq(s, a, b)) = b - a + 1
      /\ \A k \in 1 .. b - a + 1 : SubSeq(s, a, b)[k] = s[a + k - 1]
  BY <1>1, <1>2
<1>4. SubSeq(s, a, b) \in Seq(S)
  BY <1>1
<1>5. Ascending(SubSeq(s, a, b))
  <2> SUFFICES ASSUME NEW j \in 1 .. b - a + 1, NEW k \in 1 .. b - a + 1, j < k
               PROVE  Earlier(s[a + j - 1], s[a + k - 1])
    BY <1>3 DEF Ascending
  <2>1. a + j - 1 \in 1 .. Len(s) /\ a + k - 1 \in 1 .. Len(s) /\ a + j - 1 < a + k - 1
    BY <1>1, <1>2
  <2> QED
    BY <2>1 DEF Ascending
<1> QED
  BY <1>3, <1>4, <1>5

-----------------------------------------------------------------------------
(* The page of a poll                                                         *)

\* Part of the rows in order; what is left out comes after all of it.
FirstOf(p, S) ==
    /\ p \in Seq(S) /\ Ascending(p)
    /\ \A i \in S : Kept(i, p)

LEMMA OldestIs ==
    ASSUME NEW S, Sortable(S), NEW limit \in Nat
    PROVE  FirstOf(Oldest(S, limit), S)
<1> DEFINE s == Ordered(S)
<1>1. s \in Seq(S) /\ Ascending(s) /\ \A i \in S : \E k \in 1 .. Len(s) : s[k] = i
  BY SortedIs DEF InFeedOrder
<1>0. Oldest(S, limit) = IF Len(s) <= limit THEN s ELSE SubSeq(s, 1, limit)
  BY DEF Oldest
<1> HIDE DEF s
<1>2. CASE Len(s) <= limit
  <2>1. Oldest(S, limit) = s
    BY <1>0, <1>2
  <2> QED
    BY <1>1, <2>1 DEF FirstOf, Kept
<1>3. CASE ~(Len(s) <= limit)
  <2> DEFINE p == SubSeq(s, 1, limit)
  <2>1. Len(s) \in Nat /\ limit \in 0 .. Len(s) /\ 1 \in 1 .. Len(s) + 1 /\ 1 <= limit + 1
        /\ limit - 1 + 1 = limit /\ limit < Len(s)
    BY <1>1, <1>3
  <2>2. /\ p \in Seq(S) /\ Ascending(p) /\ Len(p) = limit
        /\ \A k \in 1 .. limit : p[k] = s[1 + k - 1]
    BY <1>1, <2>1, PartIs
  <2>3. \A k \in 1 .. limit : 1 + k - 1 = k
    BY <2>1
  <2> HIDE DEF p
  <2>4. ASSUME NEW i \in S PROVE Kept(i, p)
    <3>1. PICK k \in 1 .. Len(s) : s[k] = i
      BY <1>1
    <3>2. CASE k <= limit
      <4>1. k \in 1 .. Len(p) /\ p[k] = i
        BY <2>1, <2>2, <2>3, <3>1, <3>2
      <4> QED
        BY <4>1 DEF Kept
    <3>3. CASE ~(k <= limit)
      <4>1. ASSUME NEW j \in 1 .. Len(p) PROVE Earlier(p[j], i)
        <5>1. j \in 1 .. Len(s) /\ j < k /\ p[j] = s[j]
          BY <2>1, <2>2, <2>3, <3>1, <3>3
        <5> QED
          BY <1>1, <3>1, <5>1 DEF Ascending
      <4> QED
        BY <4>1 DEF Kept
    <3> QED
      BY <3>2, <3>3
  <2>5. Oldest(S, limit) = p
    BY <1>0, <1>3 DEF p
  <2> QED
    BY <2>2, <2>4, <2>5 DEF FirstOf
<1> QED
  BY <1>2, <1>3

LEMMA NewestIs ==
    ASSUME NEW S, Sortable(S), NEW limit \in Nat
    PROVE  NewestRows(S, limit) \in Seq(S) /\ Ascending(NewestRows(S, limit))
<1> DEFINE s == Ordered(S)
<1>1. s \in Seq(S) /\ Ascending(s)
  BY SortedIs DEF InFeedOrder
<1>0. NewestRows(S, limit) =
        IF Len(s) <= limit THEN s ELSE SubSeq(s, Len(s) - limit + 1, Len(s))
  BY DEF NewestRows
<1> HIDE DEF s
<1>2. CASE Len(s) <= limit
  BY <1>0, <1>1, <1>2
<1>3. CASE ~(Len(s) <= limit)
  <2>1. /\ Len(s) \in 0 .. Len(s) /\ Len(s) - limit + 1 \in 1 .. Len(s) + 1
        /\ Len(s) - limit + 1 <= Len(s) + 1
    BY <1>1, <1>3
  <2>2. /\ SubSeq(s, Len(s) - limit + 1, Len(s)) \in Seq(S)
        /\ Ascending(SubSeq(s, Len(s) - limit + 1, Len(s)))
    BY <1>1, <2>1, PartIs
  <2> QED
    BY <1>0, <1>3, <2>2
<1> QED
  BY <1>2, <1>3

\* What a page holds can itself be put in order.
LEMMA PageSortable ==
    ASSUME NEW S, Sortable(S), NEW p \in Seq(S), NEW T,
           T \in SUBSET { p[k] : k \in DOMAIN p }
    PROVE  Sortable(T) /\ T \in SUBSET S
<1>1. T \in SUBSET S
  BY DEF Sortable
<1>2. IsFiniteSet(T)
  BY <1>1, FS_Subset DEF Sortable
<1> QED
  BY <1>1, <1>2 DEF Sortable

\* The second cut of a page keeps what the first one promised.
LEMMA FirstOfFirst ==
    ASSUME NEW S, Sortable(S), NEW p, FirstOf(p, S), NEW q,
           FirstOf(q, { p[k] : k \in DOMAIN p })
    PROVE  FirstOf(q, S)
<1> DEFINE T == { p[k] : k \in DOMAIN p }
<1>1. p \in Seq(S) /\ T \in SUBSET S /\ S \in SUBSET FeedRows
  BY DEF FirstOf, Sortable
<1>2. q \in Seq(T) /\ Ascending(q)
  BY DEF FirstOf
<1>3. q \in Seq(S) /\ Len(q) \in Nat
  BY <1>1, <1>2
<1>4. ASSUME NEW i \in S PROVE Kept(i, q)
  <2>1. CASE \E k \in 1 .. Len(p) : p[k] = i
    <3>1. i \in T
      BY <1>1, <2>1
    <3> QED
      BY <3>1 DEF FirstOf
  <2>2. CASE \A k \in 1 .. Len(p) : Earlier(p[k], i)
    <3>1. ASSUME NEW j \in 1 .. Len(q) PROVE Earlier(q[j], i)
      <4>1. q[j] \in T
        BY <1>2
      <4>2. PICK k \in DOMAIN p : q[j] = p[k]
        BY <4>1
      <4>3. k \in 1 .. Len(p)
        BY <1>1
      <4> QED
        BY <2>2, <4>2, <4>3
    <3> QED
      BY <3>1 DEF Kept
  <2>3. Kept(i, p)
    BY DEF FirstOf
  <2> QED
    BY <2>1, <2>2, <2>3 DEF Kept
<1> QED
  BY <1>2, <1>3, <1>4 DEF FirstOf

\* The rows a poll can send.
InReach(cursor, debug) ==
    { i \in Shown(debug) : cursor = NoCursor \/ itemAfterCursor(i, cursor) }

LEMMA PageIs ==
    ASSUME StreamTyped, RowsDistinct, NEW cursor, NEW limit \in Nat, NEW debug
    PROVE  /\ ListItems(cursor, limit, debug) \in Seq(InReach(cursor, debug))
           /\ Ascending(ListItems(cursor, limit, debug))
           /\ cursor # NoCursor => FirstOf(ListItems(cursor, limit, debug), InReach(cursor, debug))
<1> DEFINE S == InReach(cursor, debug)
           p == StoreItems(cursor, limit, debug)
           q == ListItems(cursor, limit, debug)
           T == { p[k] : k \in DOMAIN p }
<1>1. Sortable(S) /\ S \in SUBSET Shown(debug)
  <2>1. S \in SUBSET feed /\ S \in SUBSET Shown(debug)
    BY DEF InReach, Shown
  <2>2. S \in SUBSET FeedRows /\ IsFiniteSet(S)
    BY <2>1, FS_Subset DEF StreamTyped
  <2>3. \A i, j \in S : SameRow(i, j) => i = j
    BY <2>1 DEF RowsDistinct
  <2> QED
    BY <2>1, <2>2, <2>3 DEF Sortable
<1>2. CASE cursor = NoCursor
  <2>1. S = Shown(debug) /\ p = NewestRows(S, limit) /\ q = NewestRows(T, limit)
    BY <1>2 DEF InReach, StoreItems, ListItems, orderAndLimitItems
  <2> HIDE DEF S, p, q
  <2>2. p \in Seq(S)
    BY <1>1, <2>1, NewestIs
  <2>3. Sortable(T) /\ T \in SUBSET S
    BY <1>1, <2>2, PageSortable
  <2> HIDE DEF T
  <2>4. q \in Seq(T) /\ Ascending(q)
    BY <2>1, <2>3, NewestIs
  <2>5. q \in Seq(S)
    BY <2>3, <2>4
  <2> QED
    BY <1>2, <2>4, <2>5 DEF S, q
<1>3. CASE cursor # NoCursor
  <2>1. /\ S = { i \in Shown(debug) : itemAfterCursor(i, cursor) } /\ p = Oldest(S, limit)
        /\ q = Oldest({ i \in T : itemAfterCursor(i, cursor) }, limit)
    BY <1>3 DEF InReach, StoreItems, ListItems, orderAndLimitItems
  <2> HIDE DEF S, p, q
  <2>2. FirstOf(p, S)
    BY <1>1, <2>1, OldestIs
  <2>3. Sortable(T) /\ T \in SUBSET S
    BY <1>1, <2>2, PageSortable DEF FirstOf
  <2>4. { i \in T : itemAfterCursor(i, cursor) } = T
    <3> HIDE DEF T
    <3> QED
      BY <2>1, <2>3
  <2>5. q = Oldest(T, limit)
    BY <2>1, <2>4
  <2>6. FirstOf(q, T)
    BY <2>3, <2>5, OldestIs
  <2>7. FirstOf(q, S)
    BY <1>1, <2>2, <2>6, FirstOfFirst
  <2> QED
    BY <2>7 DEF FirstOf, S, q
<1> QED
  BY <1>2, <1>3

-----------------------------------------------------------------------------
(* The steps                                                                  *)

\* The writers: what an offered row shows by can only go.
LEMMA FeedGoes ==
    ASSUME NothingSkipped, received' = received, offered' = offered,
           \A i \in offered : i \in feed' => i \in feed,
           \A i \in offered : InChannel(i)' => InChannel(i)
    PROVE  NothingSkipped'
  BY DEF NothingSkipped

LEMMA WriteKeeps ==
    ASSUME StreamInv, NEW source \in Domains, WriteRow(source)
    PROVE  StreamInv'
<1>1. PICK channel \in BOOLEAN, debug \in BOOLEAN, link \in 0 .. MaxRows :
        unseen' = unseen \cup
            {[at |-> instant, source |-> source, id |-> serial'[source],
              channel |-> channel, debug |-> debug, link |-> link]}
  BY DEF WriteRow
<1>2. PICK n : n = serial[source] + 1
  OBVIOUS
<1>3. /\ serial[source] \in 0 .. MaxRows /\ serial[source] < MaxRows /\ MaxRows \in Nat
      /\ instant \in 1 .. MaxInstant
  BY TimelineAssumption DEF StreamInv, StreamTyped, WriteRow
<1>4. n \in 1 .. MaxRows /\ serial[source] < n
  BY <1>2, <1>3
<1>5. serial' \in [Domains -> 0 .. MaxRows] /\ serial'[source] = n
      /\ \A d \in Domains : d # source => serial'[d] = serial[d]
  BY <1>2, <1>4 DEF StreamInv, StreamTyped, WriteRow
<1> DEFINE row == [at |-> instant, source |-> source, id |-> n,
                   channel |-> channel, debug |-> debug, link |-> link]
<1>6. PICK new \in FeedRows : /\ new.source = source /\ new.id = n
                             /\ unseen' = unseen \cup {new}
  <2>1. row \in FeedRows
    BY <1>3, <1>4 DEF FeedRows
  <2>2. unseen' = unseen \cup {row}
    BY <1>1, <1>5
  <2> QED
    BY <2>1, <2>2
<1>7. UNCHANGED <<instant, feed, follower, received, offered>>
  BY DEF WriteRow
<1>8. \A i \in FeedRows : i.source \in Domains /\ i.id \in Nat
  BY <1>3 DEF FeedRows
<1>9. \A i \in feed \cup unseen \cup offered :
         i \in FeedRows /\ i.id <= serial[i.source] /\ ~SameRow(i, new)
  <2> TAKE i \in feed \cup unseen \cup offered
  <2>1. i \in FeedRows /\ i.id <= serial[i.source]
    BY DEF StreamInv, StreamTyped, RowsDistinct
  <2>2. i.source = source => i.id # n
    BY <1>3, <1>4, <1>8, <2>1
  <2> QED
    BY <1>6, <2>1, <2>2 DEF SameRow
<1>10. StreamTyped'
  BY <1>5, <1>6, <1>7 DEF StreamInv, StreamTyped
<1>11. RowsDistinct'
  <2>1. \A i, j \in feed \cup unseen \cup {new} : SameRow(i, j) => i = j
    BY <1>9 DEF StreamInv, RowsDistinct, SameRow
  <2>2. \A i \in feed \cup unseen \cup offered : i.id <= serial'[i.source]
    <3> TAKE i \in feed \cup unseen \cup offered
    <3>1. i \in FeedRows /\ i.id <= serial[i.source] /\ i.source \in Domains /\ i.id \in Nat
      BY <1>8, <1>9
    <3>2. CASE i.source = source
      BY <1>3, <1>4, <1>5, <3>1, <3>2
    <3>3. CASE i.source # source
      BY <1>5, <3>1, <3>3
    <3> QED
      BY <3>2, <3>3
  <2>3. new.id <= serial'[new.source]
    BY <1>4, <1>5, <1>6
  <2>4. new \notin feed /\ new \notin offered
    BY <1>9 DEF SameRow
  <2> QED
    BY <1>6, <1>7, <2>1, <2>2, <2>3, <2>4 DEF StreamInv, RowsDistinct
<1>12. LinksSettled'
  <2> SUFFICES ASSUME NEW i \in offered, ~i.channel
               PROVE  /\ i.link <= serial'["msg"]
                      /\ \A m \in unseen \cup {new} : m.source = "msg" => m.id # i.link
    BY <1>6, <1>7 DEF LinksSettled
  <2>1. /\ i.link <= serial["msg"] /\ i \in FeedRows
        /\ \A m \in unseen : m.source = "msg" => m.id # i.link
    BY DEF StreamInv, StreamTyped, LinksSettled
  <2>2. i.link \in Nat /\ serial["msg"] \in Nat
    BY <2>1, <1>3 DEF FeedRows, Domains, StreamInv, StreamTyped
  <2>3. CASE source = "msg"
    BY <1>3, <1>4, <1>5, <1>6, <2>1, <2>2, <2>3
  <2>4. CASE source # "msg"
    BY <1>5, <1>6, <2>1, <2>4 DEF Domains
  <2> QED
    BY <2>3, <2>4
<1>13. StreamAtEnd' /\ Ascending(received')
  BY <1>7 DEF StreamInv, StreamAtEnd, Resume
<1>14. NothingSkipped'
  BY <1>7 DEF StreamInv, NothingSkipped, InChannel
<1> QED
  BY <1>10, <1>11, <1>12, <1>13, <1>14 DEF StreamInv

LEMMA CommitRowKeeps ==
    ASSUME StreamInv, NEW row \in unseen, CommitRow(row)
    PROVE  StreamInv'
<1>1. /\ unseen' = unseen \ {row} /\ feed' = feed \cup {row}
      /\ UNCHANGED <<instant, serial, follower, received, offered>>
  BY DEF CommitRow
<1>2. StreamTyped'
  <2>1. IsFiniteSet(feed')
    BY <1>1, FS_AddElement DEF StreamInv, StreamTyped
  <2> QED
    BY <1>1, <2>1 DEF StreamInv, StreamTyped
<1>3. RowsDistinct'
  BY <1>1 DEF StreamInv, RowsDistinct
<1>4. LinksSettled'
  BY <1>1 DEF StreamInv, LinksSettled
<1>5. StreamAtEnd' /\ Ascending(received')
  BY <1>1 DEF StreamInv, StreamAtEnd, Resume
<1>6. ASSUME NEW i \in offered, InChannel(i)' PROVE InChannel(i)
  <2>1. CASE i.channel
    BY <2>1 DEF InChannel
  <2>2. CASE ~i.channel
    <3>1. \A m \in unseen : m.source = "msg" => m.id # i.link
      BY <2>2 DEF StreamInv, LinksSettled
    <3>2. PICK m \in feed \cup {row} : m.source = "msg" /\ m.id = i.link /\ m.channel
      BY <1>1, <1>6, <2>2 DEF InChannel
    <3>3. m \in feed /\ i.source = "obs"
      BY <1>1, <1>6, <2>2, <3>1, <3>2 DEF InChannel
    <3> QED
      BY <3>2, <3>3 DEF InChannel
  <2> QED
    BY <2>1, <2>2
<1>7. \A i \in offered : i \in feed' => i \in feed
  BY <1>1 DEF StreamInv, RowsDistinct
<1>8. NothingSkipped'
  BY <1>1, <1>6, <1>7, FeedGoes DEF StreamInv
<1> QED
  BY <1>2, <1>3, <1>4, <1>5, <1>8 DEF StreamInv

LEMMA DeleteKeeps ==
    ASSUME StreamInv, NEW row \in feed, DeleteMessage(row)
    PROVE  StreamInv'
<1>1. feed' = feed \ {row} /\ UNCHANGED <<instant, serial, unseen, follower, received, offered>>
  BY DEF DeleteMessage
<1>2. StreamTyped'
  <2>1. IsFiniteSet(feed')
    BY <1>1, FS_Subset DEF StreamInv, StreamTyped
  <2> QED
    BY <1>1, <2>1 DEF StreamInv, StreamTyped
<1>3. RowsDistinct'
  BY <1>1 DEF StreamInv, RowsDistinct
<1>4. LinksSettled'
  BY <1>1 DEF StreamInv, LinksSettled
<1>5. StreamAtEnd' /\ Ascending(received')
  BY <1>1 DEF StreamInv, StreamAtEnd, Resume
<1>6. \A i \in offered : InChannel(i)' => InChannel(i)
  BY <1>1 DEF InChannel
<1>7. NothingSkipped'
  BY <1>1, <1>6, FeedGoes DEF StreamInv
<1> QED
  BY <1>2, <1>3, <1>4, <1>5, <1>7 DEF StreamInv

\* Only the clock or the stream changes.
LEMMA FollowerKeeps ==
    ASSUME StreamInv, UNCHANGED <<serial, unseen, feed, received, offered>>,
           instant' \in 1 .. MaxInstant, follower' \in Followers, StreamAtEnd'
    PROVE  StreamInv'
<1>1. StreamTyped' /\ RowsDistinct' /\ LinksSettled' /\ Ascending(received')
  BY DEF StreamInv, StreamTyped, RowsDistinct, LinksSettled
<1>2. NothingSkipped'
  BY DEF StreamInv, NothingSkipped, InChannel
<1> QED
  BY <1>1, <1>2 DEF StreamInv

LEMMA ResumeIs ==
    ASSUME StreamTyped
    PROVE  /\ Resume \in FeedCursors
           /\ Resume = NoCursor <=> received = << >>
           /\ received # << >> => Len(received) \in DOMAIN received
                                 /\ received[Len(received)] \in FeedRows
                                 /\ Resume = Place(received[Len(received)])
<1>1. CASE received = << >>
  BY <1>1, TimelineAssumption DEF Resume, NoCursor, FeedCursors, Domains
<1>2. CASE received # << >>
  <2>1. received \in Seq(FeedRows)
    BY DEF StreamTyped
  <2>2. Len(received) \in DOMAIN received /\ received[Len(received)] \in FeedRows
    BY <1>2, <2>1
  <2>3. PICK row \in FeedRows : row = received[Len(received)]
    BY <2>2
  <2>4. Place(row) \in FeedCursors /\ Place(row) # NoCursor
    BY TimelineAssumption DEF Place, NoCursor, FeedCursors, FeedRows
  <2> QED
    BY <1>2, <2>2, <2>3, <2>4 DEF Resume
<1> QED
  BY <1>1, <1>2

LEMMA OpenKeeps ==
    ASSUME StreamInv, NEW limit \in Nat, NEW debug \in BOOLEAN, NEW after \in {Resume, Malformed},
           channelStream(limit, debug, after)
    PROVE  StreamInv'
<1>1. /\ follower' = [state |-> "open", cursor |-> after, limit |-> limit,
                      debug |-> debug, opened |-> follower.opened + 1]
      /\ UNCHANGED <<instant, serial, unseen, feed, received, offered>>
      /\ follower.opened < MaxStreams /\ follower.opened \in 0 .. MaxStreams /\ MaxStreams \in Nat
      /\ instant \in 1 .. MaxInstant
  BY TimelineAssumption DEF channelStream, StreamInv, StreamTyped, Followers
<1>2. Malformed \in FeedCursors /\ ~ValidCursor(Malformed) /\ Malformed # NoCursor
  BY TimelineAssumption DEF Malformed, FeedCursors, ValidCursor, NoCursor, Domains
<1>3. after \in FeedCursors /\ (after = Resume \/ after = Malformed)
  <2>1. StreamTyped
    BY DEF StreamInv
  <2>2. Resume \in FeedCursors
    BY <2>1, ResumeIs
  <2> QED
    BY <1>2, <2>2
<1>4. follower.opened + 1 \in 0 .. MaxStreams
  BY <1>1
<1>5. follower' \in Followers
  BY <1>1, <1>3, <1>4 DEF Followers
<1>6. StreamAtEnd'
  <2>1. Resume' = Resume /\ follower'.cursor = after
    BY <1>1 DEF Resume
  <2> QED
    BY <1>2, <1>3, <2>1 DEF StreamAtEnd
<1> QED
  BY <1>1, <1>5, <1>6, FollowerKeeps

LEMMA EndKeeps ==
    ASSUME StreamInv, streamError \/ clientLeaves
    PROVE  StreamInv'
<1>1. /\ follower' = [follower EXCEPT !.state = "error"] \/ follower' = [follower EXCEPT !.state = "closed"]
      /\ UNCHANGED <<instant, serial, unseen, feed, received, offered>>
  BY DEF streamError, clientLeaves
<1>2. follower \in Followers /\ instant \in 1 .. MaxInstant
  BY DEF StreamInv, StreamTyped
<1>3. follower' \in Followers /\ follower'.state # "open"
  BY <1>1, <1>2 DEF Followers
<1> QED
  BY <1>1, <1>2, <1>3, FollowerKeeps DEF StreamAtEnd

\* Behind the cursor of an open stream, all was received before.
LEMMA AfterCursor ==
    ASSUME StreamTyped, Ascending(received), NEW i \in FeedRows,
           Resume = NoCursor \/ itemAfterCursor(i, Resume)
    PROVE  \A j \in 1 .. Len(received) : Earlier(received[j], i)
<1>1. CASE received = << >>
  BY <1>1
<1>2. CASE received # << >>
  <2>1. PICK last \in FeedRows : last = received[Len(received)]
    BY <1>2, ResumeIs
  <2>2. Resume = Place(last) /\ Resume # NoCursor
    BY <1>2, <2>1, ResumeIs
  <2>3. Earlier(last, i)
    BY <2>2 DEF itemAfterCursor, Earlier, Place
  <2>4. ASSUME NEW j \in 1 .. Len(received) PROVE Earlier(received[j], i)
    <3>1. received \in Seq(FeedRows) /\ Len(received) \in 1 .. Len(received) /\ received[j] \in FeedRows
      BY <1>2 DEF StreamTyped
    <3>2. CASE j = Len(received)
      BY <2>1, <2>3, <3>2
    <3>3. CASE j # Len(received)
      <4>1. j < Len(received)
        BY <3>1, <3>3
      <4>2. Earlier(received[j], last)
        BY <2>1, <3>1, <4>1 DEF Ascending
      <4> QED
        BY <2>3, <3>1, <4>2, EarlierIsOrder
    <3> QED
      BY <3>2, <3>3
  <2> QED
    BY <2>4
<1> QED
  BY <1>1, <1>2

\* The rows sent follow what was received, in order, and leave nothing behind.
Extends(old, part, new) ==
    /\ Len(new) = Len(old) + Len(part)
    /\ \A k \in 1 .. Len(old) : new[k] = old[k]
    /\ \A k \in 1 .. Len(part) : new[Len(old) + k] = part[k]

LEMMA ExtendsIs ==
    ASSUME NEW T, NEW old \in Seq(T), NEW part \in Seq(T)
    PROVE  old \o part \in Seq(T) /\ Extends(old, part, old \o part)
<1>1. Len(old) \in Nat /\ Len(part) \in Nat /\ old \o part \in Seq(T)
  OBVIOUS
<1>2. Len(old \o part) = Len(old) + Len(part)
  OBVIOUS
<1>3. \A k \in 1 .. Len(old) : (old \o part)[k] = old[k]
  BY <1>1
<1>4. \A k \in 1 .. Len(part) : (old \o part)[Len(old) + k] = part[k]
  BY <1>1
<1> QED
  BY <1>1, <1>2, <1>3, <1>4 DEF Extends

\* Each place of the longer list is one of the old list or of the part.
LEMMA PlaceIn ==
    ASSUME NEW T, NEW old \in Seq(T), NEW part \in Seq(T), NEW new, Extends(old, part, new),
           NEW j \in 1 .. Len(new)
    PROVE  \/ j \in 1 .. Len(old) /\ new[j] = old[j]
           \/ j - Len(old) \in 1 .. Len(part) /\ new[j] = part[j - Len(old)]
<1>1. Len(old) \in Nat /\ Len(part) \in Nat /\ Len(new) = Len(old) + Len(part)
  BY DEF Extends
<1>2. CASE j <= Len(old)
  BY <1>1, <1>2 DEF Extends
<1>3. CASE ~(j <= Len(old))
  <2>1. PICK k \in 1 .. Len(part) : j = Len(old) + k
    <3>1. j - Len(old) \in 1 .. Len(part) /\ j = Len(old) + (j - Len(old))
      BY <1>1, <1>3
    <3> QED
      BY <3>1
  <2>2. j - Len(old) = k
    BY <1>1, <2>1
  <2> QED
    BY <2>1, <2>2 DEF Extends
<1> QED
  BY <1>2, <1>3

LEMMA AscendingOn ==
    ASSUME NEW T, NEW old \in Seq(T), NEW part \in Seq(T), NEW new, Extends(old, part, new),
           Ascending(old), Ascending(part),
           \A j \in 1 .. Len(old), k \in 1 .. Len(part) : Earlier(old[j], part[k])
    PROVE  Ascending(new)
<1> SUFFICES ASSUME NEW j \in 1 .. Len(new), NEW k \in 1 .. Len(new), j < k
             PROVE  Earlier(new[j], new[k])
  BY DEF Ascending
<1>1. Len(old) \in Nat /\ Len(part) \in Nat /\ Len(new) = Len(old) + Len(part)
  BY DEF Extends
<1>2. CASE k \in 1 .. Len(old)
  <2>1. j \in 1 .. Len(old)
    BY <1>1, <1>2
  <2> QED
    BY <1>2, <2>1 DEF Extends, Ascending
<1>3. CASE k \notin 1 .. Len(old)
  <2>1. PICK b \in 1 .. Len(part) : b = k - Len(old) /\ new[k] = part[b]
    BY <1>3, PlaceIn
  <2>2. CASE j \in 1 .. Len(old)
    BY <2>1, <2>2 DEF Extends
  <2>3. CASE j \notin 1 .. Len(old)
    <3>1. PICK a \in 1 .. Len(part) : a = j - Len(old) /\ new[j] = part[a]
      BY <2>3, PlaceIn
    <3>2. a < b
      BY <1>1, <2>1, <3>1
    <3> QED
      BY <2>1, <3>1, <3>2 DEF Ascending
  <2> QED
    BY <2>2, <2>3
<1> QED
  BY <1>2, <1>3

\* A row within reach is in the list after the poll, or behind it.
LEMMA ReachedKept ==
    ASSUME NEW S, S \in SUBSET FeedRows, NEW page, FirstOf(page, S), NEW sent \in 0 .. Len(page),
           NEW part \in Seq(FeedRows), Len(part) = sent, \A k \in 1 .. sent : part[k] = page[k],
           NEW old \in Seq(FeedRows), NEW new, Extends(old, part, new),
           NEW i \in S, \A j \in 1 .. Len(old) : Earlier(old[j], i)
    PROVE  Kept(i, new)
<1>1. /\ page \in Seq(S) /\ Ascending(page) /\ Kept(i, page)
      /\ Len(page) \in Nat /\ Len(old) \in Nat /\ Len(new) = Len(old) + sent /\ sent \in Nat
  BY DEF FirstOf, Extends
<1>2. CASE \E k \in 1 .. Len(page) : k <= sent /\ page[k] = i
  <2>1. PICK k \in 1 .. Len(page) : k <= sent /\ page[k] = i
    BY <1>2
  <2>2. k \in 1 .. Len(part) /\ part[k] = i /\ Len(old) + k \in 1 .. Len(new)
    BY <1>1, <2>1
  <2>3. new[Len(old) + k] = i
    BY <2>2 DEF Extends
  <2> QED
    BY <2>2, <2>3 DEF Kept
<1>3. CASE \A k \in 1 .. sent : Earlier(page[k], i)
  <2>1. ASSUME NEW j \in 1 .. Len(new) PROVE Earlier(new[j], i)
    <3>1. CASE j \in 1 .. Len(old) /\ new[j] = old[j]
      BY <3>1
    <3>2. CASE j - Len(old) \in 1 .. Len(part) /\ new[j] = part[j - Len(old)]
      BY <1>3, <3>2
    <3> QED
      BY <3>1, <3>2, PlaceIn
  <2> QED
    BY <2>1 DEF Kept
<1>4. CASE \E k \in 1 .. Len(page) : ~(k <= sent) /\ page[k] = i
  <2>1. PICK k \in 1 .. Len(page) : ~(k <= sent) /\ page[k] = i
    BY <1>4
  <2>2. ASSUME NEW j \in 1 .. sent PROVE Earlier(page[j], i)
    <3>1. j \in 1 .. Len(page) /\ j < k
      BY <1>1, <2>1
    <3> QED
      BY <1>1, <2>1, <3>1 DEF Ascending
  <2> QED
    BY <2>2, <1>3
<1>5. \A k \in 1 .. sent : k \in 1 .. Len(page)
  BY <1>1
<1> QED
  BY <1>1, <1>2, <1>3, <1>4, <1>5 DEF Kept

LEMMA EmitKeeps ==
    ASSUME StreamInv, NEW sent \in 0 .. MaxLimit, emitTimelineItems(sent)
    PROVE  StreamInv'
<1> DEFINE S == InReach(follower.cursor, follower.debug)
           page == ListItems(follower.cursor, follower.limit, follower.debug)
           part == SubSeq(page, 1, sent)
<1>1. /\ follower.state = "open" /\ sent \in 0 .. Len(page)
      /\ follower.cursor = NoCursor \/ ValidCursor(follower.cursor)
      /\ received' = received \o part
      /\ follower' = IF sent = Len(page)
                     THEN [follower EXCEPT !.cursor = NextCursor(page, @)]
                     ELSE [follower EXCEPT !.state = "closed"]
      /\ offered' = offered \cup
              IF follower.cursor = NoCursor THEN {}
              ELSE { i \in Shown(follower.debug) : itemAfterCursor(i, follower.cursor) }
      /\ UNCHANGED <<instant, serial, unseen, feed>>
  BY DEF emitTimelineItems
<1>2. /\ StreamTyped /\ RowsDistinct /\ LinksSettled /\ Ascending(received) /\ NothingSkipped
      /\ follower \in Followers /\ follower.limit \in Nat /\ received \in Seq(FeedRows)
  BY DEF StreamInv, StreamTyped, Followers
<1>3. follower.cursor = Resume
  BY <1>1 DEF StreamInv, StreamAtEnd
<1>4. /\ page \in Seq(S) /\ Ascending(page)
      /\ follower.cursor # NoCursor => FirstOf(page, S)
  BY <1>2, PageIs
<1>5. /\ S \in SUBSET feed /\ S \in SUBSET FeedRows /\ S \in SUBSET Shown(follower.debug)
      /\ \A i \in S : Resume = NoCursor \/ itemAfterCursor(i, Resume)
      /\ offered' = offered \cup (IF follower.cursor = NoCursor THEN {} ELSE S)
  BY <1>1, <1>2, <1>3 DEF InReach, Shown, StreamTyped
<1> HIDE DEF S, page
<1>6. /\ part \in Seq(FeedRows) /\ part \in Seq(S) /\ Ascending(part) /\ Len(part) = sent
      /\ \A k \in 1 .. sent : part[k] = page[k]
  <2>1. /\ Len(page) \in Nat /\ 1 \in 1 .. Len(page) + 1 /\ 1 <= sent + 1 /\ sent \in Nat
        /\ sent - 1 + 1 = sent /\ \A k \in 1 .. sent : 1 + k - 1 = k
    BY <1>1, <1>4
  <2>2. /\ part \in Seq(S) /\ Ascending(part) /\ Len(part) = sent - 1 + 1
        /\ \A k \in 1 .. sent - 1 + 1 : part[k] = page[1 + k - 1]
    BY <1>1, <1>4, <2>1, PartIs
  <2> HIDE DEF part
  <2>3. part \in Seq(FeedRows)
    BY <1>5, <2>2
  <2> QED
    BY <2>1, <2>2, <2>3
<1> HIDE DEF part
<1>7. received' \in Seq(FeedRows) /\ Extends(received, part, received')
  BY <1>1, <1>2, <1>6, ExtendsIs
<1>8. ASSUME NEW i \in S PROVE \A j \in 1 .. Len(received) : Earlier(received[j], i)
  BY <1>2, <1>5, AfterCursor
<1>9. Ascending(received')
  <2>1. ASSUME NEW j \in 1 .. Len(received), NEW k \in 1 .. Len(part)
        PROVE  Earlier(received[j], part[k])
    <3>1. part[k] \in S
      BY <1>6
    <3> QED
      BY <1>8, <3>1
  <2> QED
    BY <1>2, <1>6, <1>7, <2>1, AscendingOn
<1>10. /\ received' = << >> => received = << >> /\ sent = 0
       /\ sent # 0 => Len(received') \in Nat /\ received' # << >>
                      /\ received'[Len(received')] = page[sent]
       /\ sent = 0 => received' = received
  <2>1. Len(received) \in Nat /\ Len(part) = sent /\ sent \in Nat /\ Len(received') = Len(received) + sent
    BY <1>1, <1>2, <1>6, <1>7 DEF Extends
  <2>2. received' = << >> => received = << >> /\ sent = 0
    <3>1. received' = << >> => Len(received') = 0
      OBVIOUS
    <3>2. Len(received) = 0 => received = << >>
      BY <1>2
    <3> QED
      BY <2>1, <3>1, <3>2
  <2>3. ASSUME sent # 0 PROVE received'[Len(received')] = page[sent]
    <3>1. sent \in 1 .. Len(part) /\ sent \in 1 .. sent
      BY <2>1, <2>3
    <3> QED
      BY <1>6, <1>7, <2>1, <3>1 DEF Extends
  <2>4. ASSUME sent = 0 PROVE received' = received
    <3>1. part = << >>
      BY <1>6, <2>4
    <3> QED
      BY <1>1, <1>2, <3>1
  <2> QED
    BY <2>1, <2>2, <2>3, <2>4
<1>11. StreamAtEnd' /\ follower' \in Followers
  <2>1. CASE sent = Len(page) /\ page # << >>
    <3>1. sent # 0
      BY <1>4, <2>1
    <3>2. follower' = [follower EXCEPT !.cursor = Place(page[sent])]
      BY <1>1, <2>1 DEF NextCursor
    <3>3. Resume' = Place(page[sent])
      BY <1>10, <3>1 DEF Resume
    <3>4. PICK row \in FeedRows : row = page[sent]
      <4>1. sent \in 1 .. Len(page)
        BY <1>1, <1>4, <3>1
      <4> QED
        BY <1>4, <1>5, <4>1
    <3>5. Place(row) \in FeedCursors
      BY TimelineAssumption DEF Place, FeedRows, FeedCursors
    <3>6. follower' \in Followers /\ follower'.cursor = Place(row)
      BY <1>2, <3>2, <3>4, <3>5 DEF Followers
    <3> QED
      BY <3>3, <3>4, <3>6 DEF StreamAtEnd
  <2>2. CASE sent = Len(page) /\ page = << >>
    <3>1. sent = 0
      BY <2>2
    <3>2. follower' = follower
      BY <1>1, <1>2, <2>2 DEF NextCursor, Followers
    <3>3. Resume' = Resume
      BY <1>10, <3>1 DEF Resume
    <3> QED
      BY <1>2, <1>3, <3>2, <3>3 DEF StreamAtEnd
  <2>3. CASE sent # Len(page)
    <3>1. follower' \in Followers /\ follower'.state = "closed"
      BY <1>1, <1>2, <2>3 DEF Followers
    <3> QED
      BY <3>1 DEF StreamAtEnd
  <2> QED
    BY <2>1, <2>2, <2>3
<1>12. StreamTyped'
  BY <1>1, <1>2, <1>5, <1>7, <1>11 DEF StreamTyped
<1>13. RowsDistinct'
  BY <1>1, <1>2, <1>5 DEF RowsDistinct
<1>14. LinksSettled'
  <2> SUFFICES ASSUME NEW i \in S, ~i.channel
               PROVE  /\ i.link <= serial["msg"]
                      /\ \A m \in unseen : m.source = "msg" => m.id # i.link
    BY <1>1, <1>2, <1>5 DEF LinksSettled
  <2>1. PICK m \in feed : m.source = "msg" /\ m.id = i.link
    BY <1>5 DEF Shown, InChannel
  <2>2. i.link <= serial["msg"]
    BY <1>2, <2>1 DEF RowsDistinct
  <2>3. ASSUME NEW u \in unseen, u.source = "msg", u.id = i.link PROVE FALSE
    BY <1>2, <2>1, <2>3 DEF RowsDistinct, SameRow
  <2> QED
    BY <2>2, <2>3
<1>15. ASSUME NEW i \in S, follower.cursor # NoCursor PROVE Kept(i, received')
  <2>1. FirstOf(page, S) /\ \A j \in 1 .. Len(received) : Earlier(received[j], i)
    BY <1>4, <1>8, <1>15
  <2> QED
    BY <1>1, <1>2, <1>5, <1>6, <1>7, <2>1, ReachedKept
<1>16. NothingSkipped'
  <2>1. received' = << >> => offered' = {}
    BY <1>2, <1>3, <1>5, <1>10, ResumeIs DEF NothingSkipped
  <2>2. ASSUME NEW i \in offered, i \in feed, InChannel(i), ~i.debug PROVE Kept(i, received')
    <3>0. received # << >> /\ follower.cursor # NoCursor
      BY <1>2, <1>3, ResumeIs DEF NothingSkipped
    <3>1. CASE \E k \in 1 .. Len(received) : received[k] = i
      <4>1. PICK k \in 1 .. Len(received) : received[k] = i
        BY <3>1
      <4>2. Len(received) \in Nat /\ Len(part) \in Nat
        BY <1>2, <1>6
      <4>3. k \in 1 .. Len(received') /\ received'[k] = i
        BY <1>7, <4>1, <4>2 DEF Extends
      <4> QED
        BY <4>3 DEF Kept
    <3>2. CASE \A k \in 1 .. Len(received) : Earlier(received[k], i)
      <4>1. /\ Len(received) \in 1 .. Len(received) /\ Resume = Place(received[Len(received)])
        BY <1>2, <3>0, ResumeIs
      <4>2. Earlier(received[Len(received)], i)
        BY <3>2, <4>1
      <4>3. itemAfterCursor(i, Resume)
        BY <4>1, <4>2 DEF itemAfterCursor, Place, Earlier
      <4>4. i \in S
        BY <1>3, <2>2, <4>3 DEF S, InReach, Shown
      <4> QED
        BY <1>15, <3>0, <4>4
    <3> QED
      BY <1>2, <2>2, <3>1, <3>2 DEF NothingSkipped, Kept
  <2>3. \A i : InChannel(i)' <=> InChannel(i)
    BY <1>1 DEF InChannel
  <2> QED
    BY <1>1, <1>5, <1>15, <2>1, <2>2, <2>3 DEF NothingSkipped
<1> QED
  BY <1>9, <1>11, <1>12, <1>13, <1>14, <1>16 DEF StreamInv

\* Over however many streams, a client gets every item at most once and in the
\* order of the feed, and what was within reach of a poll is not passed over
\* (emitTimelineItems, orderAndLimitItems, src/timeline/internal).
THEOREM StreamCorrect == TimelineSpec => []StreamSkipsNothing
<1>1. TimelineInit => StreamInv
  <2> SUFFICES ASSUME TimelineInit PROVE StreamInv
    OBVIOUS
  <2>1. /\ instant = 1 /\ serial = [source \in Domains |-> 0] /\ unseen = {} /\ feed = {}
        /\ received = << >> /\ offered = {}
        /\ follower = [state |-> "closed", cursor |-> NoCursor, limit |-> 1,
                       debug |-> FALSE, opened |-> 0]
    BY DEF TimelineInit
  <2>2. NoCursor \in FeedCursors
    BY TimelineAssumption DEF NoCursor, FeedCursors, Domains
  <2>3. follower \in Followers
    BY <2>1, <2>2, TimelineAssumption DEF Followers
  <2>4. StreamTyped
    BY <2>1, <2>3, TimelineAssumption, FS_EmptySet DEF StreamTyped
  <2> QED
    BY <2>1, <2>4 DEF StreamInv, RowsDistinct, LinksSettled, StreamAtEnd, Ascending, NothingSkipped
<1>2. StreamInv /\ [TimelineNext]_timelineVars => StreamInv'
  <2> SUFFICES ASSUME StreamInv, [TimelineNext]_timelineVars PROVE StreamInv'
    OBVIOUS
  <2>1. CASE TimePasses
    <3>1. instant' \in 1 .. MaxInstant /\ follower' \in Followers
      BY <2>1, TimelineAssumption DEF TimePasses, StreamInv, StreamTyped
    <3>2. StreamAtEnd' /\ UNCHANGED <<serial, unseen, feed, received, offered>>
      BY <2>1 DEF TimePasses, StreamInv, StreamAtEnd, Resume
    <3> QED
      BY <3>1, <3>2, FollowerKeeps
  <2>2. CASE UNCHANGED timelineVars
    <3>1. /\ instant' \in 1 .. MaxInstant /\ follower' \in Followers
          /\ UNCHANGED <<serial, unseen, feed, received, offered>>
      BY <2>2 DEF timelineVars, StreamInv, StreamTyped
    <3>2. StreamAtEnd'
      BY <2>2 DEF timelineVars, StreamInv, StreamAtEnd, Resume
    <3> QED
      BY <3>1, <3>2, FollowerKeeps
  <2>3. ASSUME NEW limit \in Limits, NEW debug \in BOOLEAN,
               channelStream(limit, debug, Resume) \/ channelStream(limit, debug, Malformed)
        PROVE  StreamInv'
    <3>1. limit \in Nat
      BY TimelineAssumption
    <3> QED
      BY <2>3, <3>1, OpenKeeps
  <2> QED
    BY <2>1, <2>2, <2>3, WriteKeeps, CommitRowKeeps, DeleteKeeps, EmitKeeps, EndKeeps
       DEF TimelineNext
<1>3. StreamInv => StreamSkipsNothing
  <2> SUFFICES ASSUME StreamInv PROVE StreamSkipsNothing
    OBVIOUS
  <2>1. StreamTyped /\ received \in Seq(FeedRows) /\ DOMAIN received = 1 .. Len(received)
    BY DEF StreamInv, StreamTyped
  <2>2. TimelineTypeOK
    BY <2>1 DEF StreamTyped, TimelineTypeOK, FeedRows, Followers
  <2>3. \A j, k \in DOMAIN received : j < k => Earlier(received[j], received[k])
    BY <2>1 DEF StreamInv, Ascending
  <2>4. ASSUME NEW i \in offered \cap feed, InChannel(i), ~i.debug,
               received # << >>, ~Earlier(received[Len(received)], i)
        PROVE  i \in { received[k] : k \in DOMAIN received }
    <3>1. Kept(i, received)
      BY <2>4 DEF StreamInv, NothingSkipped
    <3>2. Len(received) \in 1 .. Len(received)
      BY <2>1, <2>4, ResumeIs
    <3> QED
      BY <2>1, <2>4, <3>1, <3>2 DEF Kept
  <2> QED
    BY <2>2, <2>3, <2>4 DEF StreamSkipsNothing
<1> QED
  BY <1>1, <1>2, <1>3, PTL DEF TimelineSpec
=============================================================================
