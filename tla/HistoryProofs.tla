---------------------------- MODULE HistoryProofs ---------------------------
(***************************************************************************)
(* Proofs about module DeliveryHistory: delivery and runtime together, for *)
(* every set of intents, agents, instances and requests, all times to live *)
(* and every bound.                                                        *)
(***************************************************************************)
EXTENDS DeliveryHistory, TLAPS

SystemTyped ==
    /\ now \in Nat
    /\ intents \in [Keys -> D!DeliveryIntent]
    /\ events \in [Keys -> Seq(D!EventType)]
    /\ claims \in [Claimers -> D!Claim]
    /\ reaper \in D!Reaper

\* A row the reaper has listed was overdue then, so it is overdue or has ended.
OverdueOrEnded(k) ==
    \/ D!IsTerminal(intents[k].state)
    \/ intents[k].state = "running" /\ intents[k].claimedAt + RunningTTL <= now

\* What the reaper and the claim requests have established: the reaper's clock
\* read is past, what it has listed was overdue, the row it is about to fail
\* ended or its holder was seen not alive while it held the row, and a request
\* that is past the liveness check has seen its runtime alive.
HistoryInv ==
    /\ SystemTyped
    /\ reaper.pc # "idle" => reaper.at \in 0..now
    /\ \A k \in reaper.listed : OverdueOrEnded(k)
    /\ reaper.pc = "fail" =>
          /\ reaper.failing \in Keys
          /\ OverdueOrEnded(reaper.failing)
          /\ D!IsTerminal(intents[reaper.failing].state) \/ reaper.failing \in lapsed
    /\ \A c \in Claimers : claims[c].pc = "claim" => c \in sawAlive

-----------------------------------------------------------------------------
(* What a step may do to one row                                             *)

RowCreated(k) == intents[k].state = "absent" /\ intents'[k].state \notin {"absent", "claimed", "running"}

RowExpired(k) ==
    /\ intents[k].state = "pending" /\ intents'[k].state = "expired"
    /\ claims' # claims \/ intents[k].createdAt + PendingTTL <= now

RowGranted(k) ==
    /\ intents[k].state = "pending" /\ intents'[k].state = "claimed"
    /\ \E c \in Claimers : claims[c].pc = "claim" /\ claims[c].key = k /\ claims'[c].pc = "idle"

RowReported(k) ==
    /\ intents[k].state \in {"claimed", "running"}
    /\ intents'[k].state \in D!EventType
    /\ intents[k].state = "running" => intents'[k].state # "running"
    /\ events'[k] # events[k]

RowFailed(k) ==
    /\ intents[k].state = "running" /\ intents'[k].state = "failed"
    /\ reaper.pc = "fail" /\ reaper.failing = k

RowStep(k) ==
    \/ intents'[k] = intents[k]
    \/ RowCreated(k) \/ RowExpired(k) \/ RowGranted(k) \/ RowReported(k) \/ RowFailed(k)

Rows == SystemTyped' /\ \A k \in Keys : RowStep(k)

\* A step that only reads rows, or does nothing to the service.
LEMMA RowsStay ==
    ASSUME SystemTyped, now' \in Nat, UNCHANGED <<intents, events>>,
           claims' \in [Claimers -> D!Claim], reaper' \in D!Reaper
    PROVE  Rows
BY DEF Rows, SystemTyped, RowStep

LEMMA RowsOfCreate ==
    ASSUME SystemTyped, NEW k \in Keys, NEW a \in Agents, NEW ttl \in TTLs, NEW at \in D!Recent,
           D!Create(k, a, ttl, at)
    PROVE  Rows
<1> DEFINE new == D!NewDeliveryIntent(a, ttl, at)
<1>1. at \in Nat /\ ttl \in Nat /\ a \in Agents
  BY SystemAssumption DEF D!Recent
<1>2. new \in D!DeliveryIntent /\ new.state = "pending"
  BY <1>1 DEF D!NewDeliveryIntent, D!DeliveryIntent, D!IntentState, D!Time, D!NoTime
<1>3. UNCHANGED <<now, events, claims, reaper>>
      /\ intents' = [intents EXCEPT ![k] = IF intents[k].state = "absent" THEN new ELSE intents[k]]
  BY DEF D!Create, SystemTyped
<1> HIDE DEF new
<1>4. intents' \in [Keys -> D!DeliveryIntent]
  BY <1>2, <1>3 DEF SystemTyped
<1>5. ASSUME NEW j \in Keys PROVE RowStep(j)
  BY <1>2, <1>3 DEF SystemTyped, RowStep, RowCreated
<1> QED
  BY <1>3, <1>4, <1>5 DEF Rows, SystemTyped

LEMMA RowsOfClaimExpire ==
    ASSUME SystemTyped, NEW c \in Claimers, D!ClaimExpire(c)
    PROVE  Rows
<1> DEFINE k == claims[c].key
           at == claims[c].at
<1>1. /\ claims[c].pc = "expire" /\ claims[c] \in D!Claim /\ at \in D!Time
      /\ claims' = [claims EXCEPT ![c] = D!NoClaim]
      /\ UNCHANGED <<now, events, reaper>>
      /\ intents' = [intents EXCEPT ![k] =
            IF @.state = "pending" /\ at >= @.createdAt
              THEN [@ EXCEPT !.state = "expired", !.completedAt = at] ELSE @]
  BY DEF D!ClaimExpire, D!ExpireIfPending, SystemTyped, D!Claim
<1>2. D!NoClaim \in D!Claim /\ D!NoClaim.pc = "idle"
  BY DEF D!NoClaim, D!Claim, D!Time, D!NoTime
<1>3. claims' \in [Claimers -> D!Claim] /\ claims' # claims
  BY <1>1, <1>2 DEF SystemTyped
<1> HIDE DEF k, at
<1>4. ASSUME NEW row \in D!DeliveryIntent
      PROVE  [row EXCEPT !.state = "expired", !.completedAt = at] \in D!DeliveryIntent
  BY <1>1 DEF D!DeliveryIntent, D!IntentState
<1>5. intents' \in [Keys -> D!DeliveryIntent]
  BY <1>1, <1>4 DEF SystemTyped
<1>6. ASSUME NEW j \in Keys PROVE RowStep(j)
  <2>1. intents[j] \in D!DeliveryIntent
    BY DEF SystemTyped
  <2>2. [intents[j] EXCEPT !.state = "expired", !.completedAt = at].state = "expired"
    BY <2>1 DEF D!DeliveryIntent
  <2> QED
    BY <1>1, <1>3, <2>2 DEF SystemTyped, RowStep, RowExpired
<1> QED
  BY <1>1, <1>3, <1>5, <1>6 DEF Rows, SystemTyped

LEMMA RowsOfClaimPending ==
    ASSUME SystemTyped, NEW c \in Claimers, D!ClaimPending(c)
    PROVE  Rows
<1>0. PICK r \in D!Claim : r = claims[c]
  BY DEF SystemTyped
<1>1. /\ r.pc = "claim"
      /\ claims' = [claims EXCEPT ![c] = D!NoClaim]
      /\ UNCHANGED <<now, events, reaper>>
      /\ intents' = [intents EXCEPT ![r.key] =
            IF @.state = "pending" /\ D!TokenFree(r.key, r.token)
              THEN [@ EXCEPT !.state = "claimed", !.claimToken = r.token,
                             !.claimedBy = r.agent, !.claimedAt = r.at] ELSE @]
  BY <1>0 DEF D!ClaimPending
<1>2. D!NoClaim \in D!Claim /\ D!NoClaim.pc = "idle"
  BY DEF D!NoClaim, D!Claim, D!Time, D!NoTime
<1>3. claims' \in [Claimers -> D!Claim] /\ claims'[c].pc = "idle"
  BY <1>1, <1>2 DEF SystemTyped
<1>4. ASSUME NEW row \in D!DeliveryIntent
      PROVE  LET won == [row EXCEPT !.state = "claimed", !.claimToken = r.token,
                                    !.claimedBy = r.agent, !.claimedAt = r.at]
             IN  won \in D!DeliveryIntent /\ won.state = "claimed"
  BY <1>0 DEF D!DeliveryIntent, D!IntentState, D!Claim
<1>5. intents' \in [Keys -> D!DeliveryIntent]
  BY <1>1, <1>4 DEF SystemTyped
<1>6. ASSUME NEW j \in Keys PROVE RowStep(j)
  <2>1. intents[j] \in D!DeliveryIntent
    BY DEF SystemTyped
  <2>2. intents'[j] # intents[j] => j = r.key /\ intents[j].state = "pending" /\ intents'[j].state = "claimed"
    BY <1>1, <1>4, <2>1 DEF SystemTyped
  <2> QED
    BY <1>0, <1>1, <1>3, <2>2 DEF RowStep, RowGranted
<1> QED
  BY <1>1, <1>3, <1>5, <1>6 DEF Rows, SystemTyped

LEMMA RowsOfReport ==
    ASSUME SystemTyped, NEW k \in Keys, NEW t \in Tokens, NEW type \in D!EventType,
           NEW at \in D!Recent, D!ReportEvent(k, t, type, at)
    PROVE  Rows
<1> DEFINE done == IF type = "running" THEN D!NoTime ELSE at
<1>1. /\ intents[k].state \in {"claimed", "running"}
      /\ intents[k].state = "running" => type # "running"
      /\ intents' = [intents EXCEPT ![k].state = type, ![k].completedAt = done]
      /\ events' = [events EXCEPT ![k] = Append(@, type)]
      /\ UNCHANGED <<now, claims, reaper>>
  BY DEF D!ReportEvent, D!canReport
<1>2. done \in D!Time
  BY DEF D!Recent, D!Time
<1>3. intents[k] \in D!DeliveryIntent /\ events[k] \in Seq(D!EventType)
  BY DEF SystemTyped
<1> HIDE DEF done
<1>4. intents' \in [Keys -> D!DeliveryIntent]
  BY <1>1, <1>2, <1>3 DEF SystemTyped, D!DeliveryIntent, D!IntentState, D!EventType
<1>5. events' \in [Keys -> Seq(D!EventType)] /\ events'[k] # events[k]
  <2>1. Append(events[k], type) \in Seq(D!EventType) /\ Append(events[k], type) # events[k]
    BY <1>3
  <2> QED
    BY <1>1, <2>1 DEF SystemTyped
<1>6. intents'[k].state = type
  BY <1>1, <1>3 DEF SystemTyped, D!DeliveryIntent
<1>7. ASSUME NEW j \in Keys, j # k PROVE intents'[j] = intents[j]
  BY <1>1, <1>7 DEF SystemTyped
<1>8. ASSUME NEW j \in Keys PROVE RowStep(j)
  BY <1>1, <1>5, <1>6, <1>7 DEF RowStep, RowReported
<1> QED
  BY <1>1, <1>4, <1>5, <1>8 DEF Rows, SystemTyped

\* A row that ends at a time the reaper has read.
LEMMA EndedRow ==
    ASSUME NEW row \in D!DeliveryIntent, NEW state \in {"expired", "failed"}, NEW at \in Nat
    PROVE  /\ [row EXCEPT !.state = state, !.completedAt = at] \in D!DeliveryIntent
           /\ [row EXCEPT !.state = state, !.completedAt = at].state = state
BY DEF D!DeliveryIntent, D!IntentState, D!Time

LEMMA ReaperClock ==
    ASSUME HistoryInv, reaper.pc # "idle"
    PROVE  reaper.at \in Nat /\ reaper.at <= now
<1>1. reaper.at \in 0..now
  BY DEF HistoryInv
<1>2. now \in Nat
  BY DEF HistoryInv, SystemTyped
<1> QED
  BY <1>1, <1>2

LEMMA RowsOfExpireBefore ==
    ASSUME HistoryInv, D!ExpirePendingBefore
    PROVE  Rows
<1> DEFINE old(k) == intents[k].state = "pending" /\ intents[k].createdAt <= reaper.at - PendingTTL
<1>0. PICK at \in Nat : at = reaper.at /\ at <= now
  BY ReaperClock DEF D!ExpirePendingBefore
<1>1. /\ now \in Nat
      /\ reaper' = [reaper EXCEPT !.pc = "list"]
      /\ intents' = [k \in Keys |-> IF old(k) THEN [intents[k] EXCEPT !.state = "expired", !.completedAt = reaper.at]
                                    ELSE intents[k]]
      /\ UNCHANGED <<now, events, claims>>
  BY DEF D!ExpirePendingBefore, HistoryInv, SystemTyped
<1>2. reaper' \in D!Reaper
  BY <1>1 DEF HistoryInv, SystemTyped, D!Reaper
<1>3. ASSUME NEW k \in Keys
      PROVE  LET ended == [intents[k] EXCEPT !.state = "expired", !.completedAt = reaper.at]
             IN  ended \in D!DeliveryIntent /\ ended.state = "expired" /\ intents[k] \in D!DeliveryIntent
  <2>1. intents[k] \in D!DeliveryIntent
    BY DEF HistoryInv, SystemTyped
  <2> QED
    BY <1>0, <2>1, EndedRow
<1>4. ASSUME NEW k \in Keys, old(k) PROVE intents[k].createdAt + PendingTTL <= now
  <2>1. intents[k] \in D!DeliveryIntent
    BY DEF HistoryInv, SystemTyped
  <2>2. PICK m \in Int : m = intents[k].createdAt
    BY <2>1 DEF D!DeliveryIntent, D!Time, D!NoTime
  <2>3. m <= at - PendingTTL
    BY <1>0, <1>4, <2>2
  <2>4. now \in Nat /\ PendingTTL \in Nat
    BY <1>1, SystemAssumption
  <2> QED
    BY <1>0, <2>2, <2>3, <2>4
<1>5. intents' \in [Keys -> D!DeliveryIntent]
  BY <1>1, <1>3
<1>6. ASSUME NEW k \in Keys PROVE RowStep(k)
  BY <1>1, <1>3, <1>4 DEF RowStep, RowExpired
<1> QED
  BY <1>1, <1>2, <1>5, <1>6 DEF Rows, HistoryInv, SystemTyped

LEMMA RowsOfFail ==
    ASSUME HistoryInv, D!FailRunning
    PROVE  Rows
<1>0. PICK k \in Keys : k = reaper.failing
  BY DEF HistoryInv, D!FailRunning
<1>1. /\ reaper.pc = "fail" /\ reaper.at \in 0..now /\ now \in Nat
      /\ reaper' = [reaper EXCEPT !.pc = "check", !.failing = None]
      /\ intents' = [intents EXCEPT ![k] =
            IF @.state = "running" THEN [@ EXCEPT !.state = "failed", !.completedAt = reaper.at] ELSE @]
      /\ UNCHANGED <<now, events, claims>>
  BY <1>0 DEF D!FailRunning, HistoryInv, SystemTyped
<1>2. reaper' \in D!Reaper
  BY <1>1 DEF HistoryInv, SystemTyped, D!Reaper
<1>3. LET ended == [intents[k] EXCEPT !.state = "failed", !.completedAt = reaper.at]
      IN  ended \in D!DeliveryIntent /\ ended.state = "failed"
  <2>1. intents[k] \in D!DeliveryIntent
    BY DEF HistoryInv, SystemTyped
  <2>2. reaper.at \in Nat
    BY <1>1, ReaperClock
  <2> QED
    BY <2>1, <2>2, EndedRow
<1>4. intents' \in [Keys -> D!DeliveryIntent]
  BY <1>1, <1>3 DEF HistoryInv, SystemTyped
<1>5. ASSUME NEW j \in Keys PROVE RowStep(j)
  BY <1>0, <1>1, <1>3 DEF RowStep, RowFailed, HistoryInv, SystemTyped
<1> QED
  BY <1>1, <1>2, <1>4, <1>5 DEF Rows, HistoryInv, SystemTyped

\* Whatever step the system makes, each row makes one of the steps above.
LEMMA RowsStep == HistoryInv /\ SystemNext => Rows
<1> SUFFICES ASSUME HistoryInv, SystemNext PROVE Rows
  OBVIOUS
<1>0. SystemTyped /\ claims \in [Claimers -> D!Claim] /\ reaper \in D!Reaper /\ now \in Nat
  BY DEF HistoryInv, SystemTyped
<1>c. D!NoClaim \in D!Claim
  BY DEF D!NoClaim, D!Claim, D!Time, D!NoTime
<1>r. D!NoReap \in D!Reaper
  BY DEF D!NoReap, D!Reaper, D!Time, D!NoTime
<1>1. CASE RuntimeStep
  <2>1. now' = now
    BY <1>1 DEF RuntimeStep, R!RuntimeHandler, R!RegisterInstance, R!Heartbeat, R!CreateSubscription,
                R!Stream, R!Sweep, R!SweepBegin, R!MarkStale, R!MarkDead, R!SweepAbort
  <2> QED
    BY <1>0, <1>1, <2>1, RowsStay DEF RuntimeStep, deliveryVars
<1>2. CASE SystemTick
  BY <1>0, <1>2, RowsStay DEF SystemTick, R!Tick, deliveryVars
<1>3. ASSUME NEW c \in Claimers, ClaimAsks(c) PROVE Rows
  <2>1. PICK answer \in AnswersFor(claims[c].agent) : D!ClaimLiveness(c, answer)
    BY <1>3 DEF ClaimAsks
  <2>2. PICK r \in D!Claim : r = claims[c]
    BY <1>0
  <2>3. [r EXCEPT !.pc = "claim"] \in D!Claim /\ [r EXCEPT !.pc = "expire"] \in D!Claim
    BY DEF D!Claim
  <2>4. answer \in {"alive", "dead", "error"}
    BY DEF AnswersFor
  <2> QED
    BY <1>0, <1>c, <2>1, <2>2, <2>3, <2>4, RowsStay DEF D!ClaimLiveness
<1>4. ASSUME NEW k \in Keys, ReaperAsks(k, D!Answers) PROVE Rows
  BY <1>0, <1>r, <1>4, RowsStay DEF ReaperAsks, AnswersFor, D!ReapLiveness, D!Reaper
<1>5. CASE DeliveryStep
  <2>1. CASE D!Ingest
    BY <1>0, <2>1, RowsOfCreate DEF D!Ingest
  <2>2. CASE D!Lifecycle
    BY <1>0, <2>2, RowsOfReport DEF D!Lifecycle
  <2>3. CASE D!ClaimRequest
    <3>1. ASSUME NEW c \in Claimers, NEW k \in Keys, NEW a \in Agents, NEW t \in Tokens, NEW at \in D!Recent,
                 D!ClaimRead(c, k, a, t, at)
          PROVE  Rows
      <4>1. at \in D!Time
        BY DEF D!Recent, D!Time
      <4>2. \A pc \in {"expire", "liveness"} :
               [pc |-> pc, key |-> k, agent |-> a, token |-> t, at |-> at] \in D!Claim
        BY <4>1 DEF D!Claim
      <4>3. claims' \in [Claimers -> D!Claim]
        BY <1>0, <3>1, <4>2 DEF D!ClaimRead
      <4> QED
        BY <1>0, <3>1, <4>3, RowsStay DEF D!ClaimRead
    <3>2. ASSUME NEW c \in Claimers, D!ClaimAbort(c) PROVE Rows
      BY <1>0, <1>c, <3>2, RowsStay DEF D!ClaimAbort
    <3> QED
      BY <1>0, <2>3, <3>1, <3>2, RowsOfClaimExpire, RowsOfClaimPending DEF D!ClaimRequest
  <2>4. CASE D!Reap
    <3>1. CASE D!ReapBegin
      <4>1. reaper' \in D!Reaper
        BY <1>0, <3>1 DEF D!ReapBegin, D!Reaper, D!Time
      <4> QED
        BY <1>0, <3>1, <4>1, RowsStay DEF D!ReapBegin
    <3>2. CASE D!ListRunningBefore
      <4>1. reaper' \in D!Reaper
        BY <1>0, <3>2 DEF D!ListRunningBefore, D!Reaper
      <4> QED
        BY <1>0, <3>2, <4>1, RowsStay DEF D!ListRunningBefore
    <3>3. CASE D!ReapDone \/ D!ReapAbort
      BY <1>0, <1>r, <3>3, RowsStay DEF D!ReapDone, D!ReapAbort
    <3> QED
      BY <2>4, <3>1, <3>2, <3>3, RowsOfExpireBefore, RowsOfFail DEF D!Reap
  <2> QED
    BY <1>5, <2>1, <2>2, <2>3, <2>4 DEF DeliveryStep, D!DeliveryStep
<1> QED
  BY <1>1, <1>2, <1>3, <1>4, <1>5 DEF SystemNext

-----------------------------------------------------------------------------
(* The invariant                                                             *)

\* An overdue row stays overdue until it ends, and an ended row stays as it is.
LEMMA OverdueStays ==
    ASSUME HistoryInv, Rows, now' \in Nat, now <= now', NEW k \in Keys
    PROVE  /\ D!IsTerminal(intents[k].state) => intents'[k] = intents[k]
           /\ OverdueOrEnded(k) => OverdueOrEnded(k)'
<1>1. RowStep(k) /\ now \in Nat
  BY DEF Rows, HistoryInv, SystemTyped
<1>2. D!IsTerminal(intents[k].state) => intents'[k] = intents[k]
  BY <1>1 DEF RowStep, RowCreated, RowExpired, RowGranted, RowReported, RowFailed, D!IsTerminal
<1>3. intents[k].state = "running" /\ intents'[k] # intents[k] => D!IsTerminal(intents'[k].state)
  BY <1>1 DEF RowStep, RowCreated, RowExpired, RowGranted, RowReported, RowFailed, D!IsTerminal, D!EventType
<1>4. intents[k].claimedAt \in Int
  <2>1. intents[k] \in D!DeliveryIntent
    BY DEF HistoryInv, SystemTyped
  <2> QED
    BY <2>1 DEF D!DeliveryIntent, D!Time, D!NoTime
<1>5. PICK m \in Int : m = intents[k].claimedAt
  BY <1>4
<1>6. m + RunningTTL <= now => m + RunningTTL <= now'
  BY <1>1, SystemAssumption
<1> QED
  BY <1>2, <1>3, <1>5, <1>6 DEF OverdueOrEnded

\* What a step does to the reaper: its clock is read when a sweep begins, rows
\* are listed when they are overdue, and the row that is going to be failed
\* was listed and its holder is not alive.
ReaperStep ==
    \/ reaper' = reaper
    \/ reaper'.pc = "idle" /\ reaper'.listed = {}
    \/ reaper'.pc = "expire" /\ reaper'.at = now /\ reaper'.listed = reaper.listed
    \/ /\ reaper.pc # "idle" /\ reaper'.at = reaper.at
       /\ \/ reaper'.pc \in {"list", "check"} /\ reaper'.listed \subseteq reaper.listed
          \/ /\ reaper'.pc = "check"
             /\ \A k \in reaper'.listed :
                   /\ intents[k].state = "running" /\ intents[k].claimedAt # D!NoTime
                   /\ intents[k].claimedAt <= reaper.at - RunningTTL
             /\ intents' = intents
          \/ /\ reaper'.pc = "fail" /\ reaper'.listed \subseteq reaper.listed
             /\ reaper'.failing \in reaper.listed
             /\ UNCHANGED <<intents, instances>>
             /\ ~IsAlive(intents[reaper'.failing].claimedBy)

LEMMA ReaperSteps == HistoryInv /\ SystemNext => ReaperStep
<1> SUFFICES ASSUME HistoryInv, SystemNext PROVE ReaperStep
  OBVIOUS
<1>0. PICK p \in D!Reaper : p = reaper
  BY DEF HistoryInv, SystemTyped
<1>r. D!NoReap.pc = "idle" /\ D!NoReap.listed = {}
  BY DEF D!NoReap
<1>1. CASE RuntimeStep \/ SystemTick \/ \E c \in Claimers : ClaimAsks(c)
  BY <1>1 DEF RuntimeStep, SystemTick, ClaimAsks, D!ClaimLiveness, deliveryVars, ReaperStep
<1>2. ASSUME NEW k \in Keys, ReaperAsks(k, D!Answers) PROVE ReaperStep
  <2>1. PICK answer \in AnswersFor(intents[k].claimedBy) : D!ReapLiveness(k, answer)
    BY <1>2 DEF ReaperAsks
  <2>2. /\ p.pc = "check" /\ k \in p.listed /\ UNCHANGED <<intents, instances>>
        /\ answer = "alive" => reaper' = [p EXCEPT !.listed = @ \ {k}]
        /\ answer = "dead" => reaper' = [p EXCEPT !.pc = "fail", !.failing = k, !.listed = @ \ {k}]
        /\ answer = "error" => reaper' = D!NoReap
    BY <1>0, <1>2, <2>1 DEF ReaperAsks, D!ReapLiveness, runtimeVars
  <2>3. answer \in {"alive", "error"} \/ (answer = "dead" /\ ~IsAlive(intents[k].claimedBy))
    BY DEF AnswersFor
  <2>4. CASE answer = "alive"
    BY <1>0, <2>2, <2>4 DEF ReaperStep, D!Reaper
  <2>5. CASE answer = "dead"
    <3>1. /\ reaper'.pc = "fail" /\ reaper'.failing = k /\ reaper'.listed \subseteq p.listed
          /\ reaper'.at = p.at
      BY <2>2, <2>5 DEF D!Reaper
    <3>2. ~IsAlive(intents[k].claimedBy)
      BY <2>3, <2>5
    <3> QED
      BY <1>0, <2>2, <3>1, <3>2 DEF ReaperStep
  <2>6. CASE answer = "error"
    BY <1>r, <2>2, <2>6 DEF ReaperStep
  <2> QED
    BY <2>3, <2>4, <2>5, <2>6
<1>3. CASE DeliveryStep
  <2>1. CASE D!Ingest \/ D!Lifecycle \/ D!ClaimRequest
    BY <2>1 DEF D!Ingest, D!Create, D!Lifecycle, D!ReportEvent, D!ClaimRequest, D!ClaimRead, D!ClaimExpire,
                D!ClaimPending, D!ClaimAbort, ReaperStep
  <2>2. CASE D!ReapBegin
    BY <1>0, <2>2 DEF D!ReapBegin, D!Reaper, ReaperStep
  <2>3. CASE D!ExpirePendingBefore
    BY <1>0, <2>3 DEF D!ExpirePendingBefore, D!Reaper, ReaperStep
  <2>4. CASE D!ListRunningBefore
    <3> DEFINE L == {k \in Keys : /\ intents[k].state = "running"
                                  /\ intents[k].claimedAt # D!NoTime
                                  /\ intents[k].claimedAt <= reaper.at - RunningTTL}
    <3>1. p.pc = "list" /\ intents' = intents /\ reaper' = [p EXCEPT !.pc = "check", !.listed = L]
      BY <1>0, <2>4 DEF D!ListRunningBefore
    <3>2. \A k \in L : /\ intents[k].state = "running" /\ intents[k].claimedAt # D!NoTime
                        /\ intents[k].claimedAt <= reaper.at - RunningTTL
      OBVIOUS
    <3> HIDE DEF L
    <3>3. reaper'.pc = "check" /\ reaper'.listed = L /\ reaper'.at = p.at
      BY <3>1 DEF D!Reaper
    <3> QED
      BY <1>0, <3>1, <3>2, <3>3 DEF ReaperStep
  <2>5. CASE D!FailRunning
    BY <1>0, <2>5 DEF D!FailRunning, D!Reaper, ReaperStep
  <2>6. CASE D!ReapDone \/ D!ReapAbort
    BY <1>r, <2>6 DEF D!ReapDone, D!ReapAbort, ReaperStep
  <2> QED
    BY <1>3, <2>1, <2>2, <2>3, <2>4, <2>5, <2>6 DEF DeliveryStep, D!DeliveryStep, D!Reap
<1> QED
  BY <1>1, <1>2, <1>3 DEF SystemNext

\* A request comes past the liveness check only while its runtime is alive.
LEMMA ClaimSteps ==
    ASSUME HistoryInv, SystemNext, NEW c \in Claimers, claims'[c].pc = "claim"
    PROVE  \/ claims[c].pc = "claim"
           \/ IsAlive(claims[c].agent) /\ UNCHANGED instances /\ claims'[c].agent = claims[c].agent
<1>0. claims \in [Claimers -> D!Claim]
  BY DEF HistoryInv, SystemTyped
<1>1. ASSUME NEW d \in Claimers, ClaimAsks(d), claims[c].pc # "claim"
      PROVE  IsAlive(claims[c].agent) /\ UNCHANGED instances /\ claims'[c].agent = claims[c].agent
  <2>1. PICK answer \in AnswersFor(claims[d].agent) : D!ClaimLiveness(d, answer) /\ UNCHANGED instances
    BY <1>1 DEF ClaimAsks, runtimeVars
  <2>2. PICK r \in D!Claim : r = claims[d]
    BY <1>0
  <2>3. /\ [r EXCEPT !.pc = "expire"].pc = "expire" /\ D!NoClaim.pc = "idle"
        /\ [r EXCEPT !.pc = "claim"].agent = r.agent
    BY DEF D!Claim, D!NoClaim
  <2>4. c = d /\ answer = "alive"
    BY <1>0, <1>1, <2>1, <2>2, <2>3 DEF D!ClaimLiveness, AnswersFor
  <2>5. claims'[c].agent = claims[c].agent
    BY <1>0, <2>1, <2>2, <2>3, <2>4 DEF D!ClaimLiveness
  <2> QED
    BY <2>1, <2>4, <2>5 DEF AnswersFor
<1>2. CASE RuntimeStep \/ SystemTick \/ \E k \in Keys : ReaperAsks(k, D!Answers)
  BY <1>2 DEF RuntimeStep, SystemTick, ReaperAsks, D!ReapLiveness, deliveryVars
<1>3. CASE DeliveryStep
  <2>1. CASE D!Ingest \/ D!Lifecycle \/ D!Reap
    BY <2>1 DEF D!Ingest, D!Create, D!Lifecycle, D!ReportEvent, D!Reap, D!ReapBegin,
                D!ExpirePendingBefore, D!ListRunningBefore, D!FailRunning, D!ReapDone, D!ReapAbort
  <2>2. CASE D!ClaimRequest
    <3>1. D!NoClaim.pc = "idle"
      BY DEF D!NoClaim
    <3>2. ASSUME NEW d \in Claimers, D!ClaimExpire(d) \/ D!ClaimPending(d) \/ D!ClaimAbort(d)
          PROVE  claims[c].pc = "claim"
      BY <1>0, <3>1, <3>2 DEF D!ClaimExpire, D!ClaimPending, D!ClaimAbort
    <3>3. ASSUME NEW d \in Claimers, NEW k \in Keys, NEW a \in Agents, NEW t \in Tokens, NEW at \in D!Recent,
                 D!ClaimRead(d, k, a, t, at)
          PROVE  claims[c].pc = "claim"
      BY <1>0, <3>3 DEF D!ClaimRead
    <3> QED
      BY <2>2, <3>2, <3>3 DEF D!ClaimRequest
  <2> QED
    BY <1>3, <2>1, <2>2 DEF DeliveryStep, D!DeliveryStep
<1> QED
  BY <1>1, <1>2, <1>3 DEF SystemNext

LEMMA HistoryInitially == HistoryInit => HistoryInv
<1> SUFFICES ASSUME HistoryInit PROVE HistoryInv
  OBVIOUS
<1>1. /\ now = 0 /\ events = [k \in Keys |-> <<>>]
      /\ claims = [c \in Claimers |-> D!NoClaim] /\ reaper = D!NoReap
      /\ \A k \in Keys : intents[k] \in {D!NoIntent} \cup D!Imported(k)
      /\ intents \in [Keys -> {D!NoIntent} \cup UNION {D!Imported(k) : k \in Keys}]
  BY DEF HistoryInit, SystemInit, D!DeliveryInit
<1>2. D!NoIntent \in D!DeliveryIntent
  BY DEF D!NoIntent, D!DeliveryIntent, D!IntentState, D!Time, D!NoTime
<1>3. ASSUME NEW k \in Keys, NEW row \in D!Imported(k) PROVE row \in D!DeliveryIntent
  <2>1. PICK a \in TargetsOf[k], s \in {"display_only", "cancelled"} :
           row = [D!NewDeliveryIntent(a, 1, 0) EXCEPT !.state = s]
    BY DEF D!Imported
  <2>2. a \in Agents
    BY SystemAssumption
  <2>3. D!NewDeliveryIntent(a, 1, 0) \in D!DeliveryIntent
    BY <2>2 DEF D!NewDeliveryIntent, D!DeliveryIntent, D!IntentState, D!Time, D!NoTime
  <2>4. s \in D!IntentState
    BY DEF D!IntentState
  <2> HIDE DEF D!IntentState
  <2> QED
    BY <2>1, <2>3, <2>4 DEF D!DeliveryIntent
<1>4. intents \in [Keys -> D!DeliveryIntent]
  BY <1>1, <1>2, <1>3
<1>5. D!NoClaim \in D!Claim /\ D!NoClaim.pc = "idle"
  BY DEF D!NoClaim, D!Claim, D!Time, D!NoTime
<1>6. D!NoReap \in D!Reaper /\ D!NoReap.pc = "idle" /\ D!NoReap.listed = {}
  BY DEF D!NoReap, D!Reaper, D!Time, D!NoTime
<1> QED
  BY <1>1, <1>4, <1>5, <1>6 DEF HistoryInv, SystemTyped

LEMMA HistoryStepInv == HistoryInv /\ [HistoryNext]_<<systemVars, historyVars>> => HistoryInv'
<1> SUFFICES ASSUME HistoryInv, [HistoryNext]_<<systemVars, historyVars>> PROVE HistoryInv'
  OBVIOUS
<1>1. CASE UNCHANGED <<systemVars, historyVars>>
  BY <1>1 DEF systemVars, runtimeVars, deliveryVars, historyVars, HistoryInv, SystemTyped, OverdueOrEnded
<1>2. CASE HistoryNext
  <2>0. SystemNext /\ Observe /\ Rows /\ lapsed \subseteq lapsed'
    BY <1>2, RowsStep DEF HistoryNext, Observe
  <2>1. SystemTyped /\ SystemTyped' /\ now \in Nat /\ now' \in Nat
    BY <2>0 DEF Rows, HistoryInv, SystemTyped
  <2>2. now' = now \/ (now' = now + 1 /\ UNCHANGED <<intents, reaper>>)
    BY <2>0 DEF SystemNext, RuntimeStep, DeliveryStep, ClaimAsks, ReaperAsks, SystemTick, R!Tick, deliveryVars,
                R!RuntimeHandler, R!RegisterInstance, R!Heartbeat, R!CreateSubscription,
                R!Stream, R!Sweep, R!SweepBegin, R!MarkStale, R!MarkDead, R!SweepAbort,
                D!ClaimLiveness, D!ReapLiveness, D!DeliveryStep, D!Ingest, D!Create, D!Lifecycle, D!ReportEvent,
                D!ClaimRequest, D!ClaimRead, D!ClaimExpire, D!ClaimPending, D!ClaimAbort, D!Reap, D!ReapBegin,
                D!ExpirePendingBefore, D!ListRunningBefore, D!FailRunning, D!ReapDone, D!ReapAbort
  <2>3. now <= now'
    BY <2>1, <2>2
  <2>4. \A k \in Keys : OverdueOrEnded(k) => OverdueOrEnded(k)'
    BY <2>0, <2>1, <2>3, OverdueStays
  <2>5. \A k \in Keys : D!IsTerminal(intents[k].state) => intents'[k] = intents[k]
    BY <2>0, <2>1, <2>3, OverdueStays
  <2>6. ReaperStep
    BY <2>0, ReaperSteps
  <2>7. reaper'.pc # "idle" => reaper'.at \in 0..now'
    <3>1. reaper.pc # "idle" => reaper.at \in Nat /\ reaper.at <= now
      BY ReaperClock
    <3>2. reaper'.pc # "idle" => reaper'.at \in Nat /\ reaper'.at <= now
      BY <2>1, <2>6, <3>1 DEF ReaperStep
    <3> QED
      BY <2>1, <2>3, <3>2
  <2>8. \A k \in reaper'.listed : OverdueOrEnded(k)'
    <3>0. reaper.listed \subseteq Keys /\ reaper'.listed \subseteq Keys
      BY <2>1 DEF SystemTyped, D!Reaper
    <3>1. CASE reaper'.listed \subseteq reaper.listed
      BY <2>4, <3>0, <3>1 DEF HistoryInv
    <3>2. CASE /\ reaper.pc # "idle" /\ intents' = intents
               /\ \A k \in reaper'.listed :
                     /\ intents[k].state = "running" /\ intents[k].claimedAt # D!NoTime
                     /\ intents[k].claimedAt <= reaper.at - RunningTTL
      <4> SUFFICES ASSUME NEW k \in reaper'.listed PROVE OverdueOrEnded(k)
        BY <2>4, <3>0
      <4>1. intents[k] \in D!DeliveryIntent
        BY <2>1, <3>0 DEF SystemTyped
      <4>2. PICK m \in Int : m = intents[k].claimedAt
        BY <4>1 DEF D!DeliveryIntent, D!Time, D!NoTime
      <4>3. PICK n \in Nat : n = reaper.at /\ n <= now
        BY <3>2, ReaperClock
      <4>4. m <= n - RunningTTL
        BY <3>2, <4>2, <4>3
      <4>5. m + RunningTTL <= now
        BY <2>1, <4>3, <4>4, SystemAssumption
      <4> QED
        BY <3>2, <4>2, <4>5 DEF OverdueOrEnded
    <3>3. reaper'.listed = reaper.listed => reaper'.listed \subseteq reaper.listed
      OBVIOUS
    <3> QED
      BY <2>6, <3>1, <3>2, <3>3 DEF ReaperStep
  <2>9. (reaper.pc = "fail" =>
           /\ reaper.failing \in Keys
           /\ OverdueOrEnded(reaper.failing)
           /\ D!IsTerminal(intents[reaper.failing].state) \/ reaper.failing \in lapsed)'
    <3> SUFFICES ASSUME reaper'.pc = "fail", NEW k, k = reaper'.failing
                 PROVE  /\ k \in Keys
                        /\ OverdueOrEnded(k)'
                        /\ D!IsTerminal(intents'[k].state) \/ k \in lapsed'
      BY DEF OverdueOrEnded
    <3>1. CASE reaper' = reaper
      <4>1. k \in Keys /\ OverdueOrEnded(k) /\ (D!IsTerminal(intents[k].state) \/ k \in lapsed)
        BY <3>1 DEF HistoryInv
      <4> QED
        BY <2>0, <2>4, <2>5, <4>1
    <3>2. CASE /\ k \in reaper.listed
               /\ UNCHANGED <<intents, instances>>
               /\ ~IsAlive(intents[k].claimedBy)
      <4>1. k \in Keys /\ OverdueOrEnded(k)
        BY <2>1, <3>2 DEF HistoryInv, SystemTyped, D!Reaper
      <4>2. ~IsAlive(intents[k].claimedBy)'
        BY <3>2 DEF IsAlive
      <4>3. intents'[k].state \in {"claimed", "running"} => k \in lapsed'
        BY <2>0, <4>1, <4>2 DEF Observe
      <4>4. intents[k].state = "running" \/ D!IsTerminal(intents[k].state)
        BY <4>1 DEF OverdueOrEnded
      <4>5. OverdueOrEnded(k)'
        BY <2>4, <4>1
      <4> QED
        BY <3>2, <4>1, <4>3, <4>4, <4>5
    <3> QED
      BY <2>6, <3>1, <3>2 DEF ReaperStep
  <2>10. ASSUME NEW c \in Claimers, claims'[c].pc = "claim" PROVE c \in sawAlive'
    <3>1. \/ claims[c].pc = "claim"
          \/ IsAlive(claims[c].agent) /\ UNCHANGED instances /\ claims'[c].agent = claims[c].agent
      BY <2>0, <2>10, ClaimSteps
    <3>2. CASE claims[c].pc = "claim"
      BY <2>0, <2>10, <3>2 DEF HistoryInv, Observe
    <3>3. CASE IsAlive(claims[c].agent) /\ UNCHANGED instances /\ claims'[c].agent = claims[c].agent
      <4>1. IsAlive(claims[c].agent)'
        BY <3>3 DEF IsAlive
      <4> QED
        BY <2>0, <2>10, <4>1 DEF Observe
    <3> QED
      BY <3>1, <3>2, <3>3
  <2> QED
    BY <2>1, <2>7, <2>8, <2>9, <2>10 DEF HistoryInv
<1> QED
  BY <1>1, <1>2 DEF HistoryNext

-----------------------------------------------------------------------------
(* The guarantee                                                             *)

\* A claim is granted to a request that saw its runtime alive, work is taken
\* only from a holder that was seen not alive while it held the work, and
\* nothing is given up before it is overdue, however claims, reports, the reaper,
\* heartbeats and sweeps interleave, whatever fails or is restarted
\* (delivery/internal/service.go:82-90, 118-148).
THEOREM HoldersKeepWork == HistorySpec => AliveHolderKeepsWork
<1> DEFINE Kept(k) ==
        /\ intents[k].state = "pending" /\ intents'[k].state = "claimed" =>
              \E c \in sawAlive : claims[c].key = k /\ claims'[c].pc = "idle"
        /\ intents[k].state = "running" /\ intents'[k].state = "failed" =>
              \/ events'[k] # events[k]
              \/ k \in lapsed /\ intents[k].claimedAt + RunningTTL <= now
        /\ intents[k].state = "pending" /\ intents'[k].state = "expired" /\ claims' = claims =>
              intents[k].createdAt + PendingTTL <= now
<1>1. ASSUME HistoryInv, HistoryNext, NEW k \in Keys PROVE Kept(k)
  <2>1. RowStep(k)
    BY <1>1, RowsStep DEF HistoryNext, Rows
  <2>2. CASE intents'[k] = intents[k]
    BY <2>2
  <2>3. CASE RowCreated(k) \/ RowExpired(k) \/ RowReported(k)
    BY <2>3 DEF RowCreated, RowExpired, RowReported
  <2>4. CASE RowGranted(k)
    <3>1. PICK c \in Claimers : claims[c].pc = "claim" /\ claims[c].key = k /\ claims'[c].pc = "idle"
      BY <2>4 DEF RowGranted
    <3>2. c \in sawAlive
      BY <1>1, <3>1 DEF HistoryInv
    <3> QED
      BY <2>4, <3>1, <3>2 DEF RowGranted
  <2>5. CASE RowFailed(k)
    <3>1. /\ OverdueOrEnded(k) /\ ~D!IsTerminal(intents[k].state)
          /\ D!IsTerminal(intents[k].state) \/ k \in lapsed
      BY <1>1, <2>5 DEF RowFailed, HistoryInv, D!IsTerminal
    <3> QED
      BY <2>5, <3>1 DEF RowFailed, OverdueOrEnded
  <2> QED
    BY <2>1, <2>2, <2>3, <2>4, <2>5 DEF RowStep
<1>2. HistoryInv /\ [HistoryNext]_<<systemVars, historyVars>>
         => [\A k \in Keys : Kept(k)]_<<systemVars, historyVars>>
  BY <1>1
<1> QED
  BY <1>2, HistoryInitially, HistoryStepInv, PTL DEF HistorySpec, AliveHolderKeepsWork
=============================================================================
