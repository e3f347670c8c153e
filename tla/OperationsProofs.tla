-------------------------- MODULE OperationsProofs --------------------------
(***************************************************************************)
(* Proofs about what is recorded of the running system: the presence of    *)
(* its instances (Runtime), for every set of instances and channels, all   *)
(* thresholds in the order the configuration demands and every lag of a    *)
(* handler's clock; the ledger of its jobs (Ops), for any runs, period,    *)
(* grace and losses; the versions of its schemas (MigrationRunner), for    *)
(* any runners, any releases that append versions and any kills; the calls *)
(* of its tools (McpServer), for any clients, tools and restarts; and the  *)
(* reads composed from several services (ContextCompose), for any holdings *)
(* of the sources, limits and budgets.                                     *)
(***************************************************************************)
EXTENDS Runtime, Ops, MigrationRunner, McpServer, ContextCompose, FiniteSetTheorems,
        WellFoundedInduction, SequenceTheorems, TLAPS

-----------------------------------------------------------------------------
(* Sets of numbers                                                           *)

Below == {p \in Nat \X Nat : p[1] < p[2]}

LEMMA FirstNatural ==
    ASSUME NEW S \in SUBSET Nat, S # {}
    PROVE  \E x \in S : \A y \in S : x <= y
<1>1. IsWellFoundedOn(Below, Nat)
  BY NatLessThanWellFounded DEF OpToRel, Below
<1>2. PICK x \in S : \A y \in S : <<y, x>> \notin Below
  BY <1>1, WFMin
<1>3. \A y \in S : x <= y
  <2> SUFFICES ASSUME NEW y \in S PROVE x <= y
    OBVIOUS
  <2>1. <<y, x>> \in Nat \X Nat /\ <<y, x>>[1] = y /\ <<y, x>>[2] = x
    OBVIOUS
  <2>2. ~(<<y, x>>[1] < <<y, x>>[2])
    BY <1>2, <2>1 DEF Below
  <2> QED
    BY <2>1, <2>2
<1> QED
  BY <1>3

-----------------------------------------------------------------------------
(* Runtime: who is silent                                                    *)

allVars == <<now, runtimeVars>>

\* What makes SilenceIsReal inductive: the time the sweep has read is past.
RuntimeInv == SilenceIsReal /\ sweep.at <= now

\* One statement of the sweep, whatever ran since the sweep read its clock,
\* keeps the types and marks only rows that are old enough by that clock.
LEMMA MarkedRows ==
    ASSUME RuntimeTypeOK, NEW states, NEW threshold \in Nat, NEW state \in RuntimeState,
           Mark(states, threshold, state)
    PROVE  /\ instances' \in [Instances -> Instance]
           /\ \A i \in Instances :
                 /\ instances'[i].heartbeat = instances[i].heartbeat
                 /\ \/ instances'[i].state = instances[i].state
                    \/ /\ instances'[i].state = state
                       /\ instances[i].heartbeat # Null
                       /\ instances[i].heartbeat <= sweep.at - threshold
<1>1. \A i \in Instances :
         /\ instances[i] \in Instance
         /\ [instances[i] EXCEPT !.state = state] \in Instance
  BY DEF RuntimeTypeOK, Instance
<1>2. instances' \in [Instances -> Instance]
  BY <1>1 DEF Mark
<1>3. ASSUME NEW i \in Instances
      PROVE  /\ instances'[i].heartbeat = instances[i].heartbeat
             /\ \/ instances'[i].state = instances[i].state
                \/ /\ instances'[i].state = state
                   /\ instances[i].heartbeat # Null
                   /\ instances[i].heartbeat <= sweep.at - threshold
  BY <1>1 DEF Mark, Instance
<1> QED
  BY <1>2, <1>3

\* The tables the migration leaves satisfy the invariant.
LEMMA RuntimeInitInv == RuntimeInit => RuntimeInv
BY RuntimeAssumption DEF RuntimeInit, RuntimeInv, SilenceIsReal, RuntimeTypeOK, RuntimeState,
      Instance, Absent, NoSweep, Null

\* Every handler, every statement of the sweep and the clock keep it.
LEMMA RuntimeStepInv == RuntimeInv /\ [RuntimeNext]_allVars => RuntimeInv'
<1> SUFFICES ASSUME RuntimeInv, [RuntimeNext]_allVars PROVE RuntimeInv'
  OBVIOUS
<1> USE RuntimeAssumption
<1>1. ASSUME NEW i \in Instances, RegisterInstance(i) PROVE RuntimeInv'
  <2>1. [state |-> "starting", heartbeat |-> Null] \in Instance
    BY DEF Instance, RuntimeState
  <2> QED
    BY <1>1, <2>1 DEF RegisterInstance, RuntimeInv, SilenceIsReal, RuntimeTypeOK
<1>2. ASSUME NEW i \in Instances, NEW at \in Recent, Heartbeat(i, at) PROVE RuntimeInv'
  <2>1. /\ instances[i].state \in RuntimeState \ {"absent"}
        /\ at \in Nat
    BY <1>2 DEF Heartbeat, RuntimeInv, SilenceIsReal, RuntimeTypeOK, Instance, Recent
  <2>2. instances' = [instances EXCEPT ![i] = [state |-> "active", heartbeat |-> at]]
    BY <1>2, <2>1 DEF Heartbeat, RuntimeState, RuntimeInv, SilenceIsReal, RuntimeTypeOK
  <2>3. [state |-> "active", heartbeat |-> at] \in Instance
    BY <2>1 DEF Instance, RuntimeState
  <2> QED
    BY <1>2, <2>2, <2>3 DEF Heartbeat, RuntimeInv, SilenceIsReal, RuntimeTypeOK
<1>3. ASSUME NEW i \in Instances, NEW c \in Channels, CreateSubscription(i, c) PROVE RuntimeInv'
  BY <1>3 DEF CreateSubscription, RuntimeInv, SilenceIsReal, RuntimeTypeOK
<1>4. ASSUME NEW i \in Instances, NEW c \in Channels, NEW after \in 0..MaxCursor,
             Stream(i, c, after)
      PROVE  RuntimeInv'
  BY <1>4 DEF Stream, RuntimeInv, SilenceIsReal, RuntimeTypeOK
<1>5. CASE SweepBegin
  BY <1>5 DEF SweepBegin, RuntimeInv, SilenceIsReal, RuntimeTypeOK
<1>6. CASE MarkStale
  <2>1. /\ "stale" \in RuntimeState
        /\ RuntimeTypeOK
        /\ Mark({"starting", "active"}, StaleThreshold, "stale")
    BY <1>6 DEF MarkStale, RuntimeInv, SilenceIsReal, RuntimeState
  <2>2. /\ instances' \in [Instances -> Instance]
        /\ \A i \in Instances :
              /\ instances'[i].heartbeat = instances[i].heartbeat
              /\ \/ instances'[i].state = instances[i].state
                 \/ /\ instances'[i].state = "stale"
                    /\ instances[i].heartbeat # Null
                    /\ instances[i].heartbeat <= sweep.at - StaleThreshold
    BY <2>1, MarkedRows
  <2> QED
    BY <1>6, <2>2 DEF MarkStale, RuntimeInv, SilenceIsReal, RuntimeTypeOK, Instance, Null
<1>7. CASE MarkDead
  <2>1. /\ "dead" \in RuntimeState
        /\ RuntimeTypeOK
        /\ Mark({"starting", "active", "stale"}, DeadThreshold, "dead")
    BY <1>7 DEF MarkDead, RuntimeInv, SilenceIsReal, RuntimeState
  <2>2. /\ instances' \in [Instances -> Instance]
        /\ \A i \in Instances :
              /\ instances'[i].heartbeat = instances[i].heartbeat
              /\ \/ instances'[i].state = instances[i].state
                 \/ /\ instances'[i].state = "dead"
                    /\ instances[i].heartbeat # Null
                    /\ instances[i].heartbeat <= sweep.at - DeadThreshold
    BY <2>1, MarkedRows
  <2> QED
    BY <1>7, <2>2 DEF MarkDead, RuntimeInv, SilenceIsReal, RuntimeTypeOK, Instance, NoSweep, Null
<1>8. CASE SweepAbort
  BY <1>8 DEF SweepAbort, RuntimeInv, SilenceIsReal, RuntimeTypeOK, NoSweep
<1>9. CASE Tick
  BY <1>9 DEF Tick, RuntimeInv, SilenceIsReal, RuntimeTypeOK, runtimeVars, Instance, Null
<1>10. CASE UNCHANGED allVars
  BY <1>10 DEF allVars, runtimeVars, RuntimeInv, SilenceIsReal, RuntimeTypeOK
<1> QED
  BY <1>1, <1>2, <1>3, <1>4, <1>5, <1>6, <1>7, <1>8, <1>9, <1>10
     DEF RuntimeNext, RuntimeHandler, Sweep

\* An instance that is shown as stale or dead has been silent for the whole
\* threshold, however handlers and the statements of the sweep interleave
\* (runtime/internal/service.go:98-109, heartbeatSQL).
THEOREM SilenceCorrect == RuntimeSpec => []SilenceIsReal
<1>1. RuntimeInv => SilenceIsReal
  BY DEF RuntimeInv
<1> QED
  BY <1>1, RuntimeInitInv, RuntimeStepInv, PTL DEF RuntimeSpec, allVars

-----------------------------------------------------------------------------
(* Ops: the newest report                                                    *)

LEMMA LastNatural ==
    ASSUME NEW n \in Nat, NEW S \in SUBSET (-1..n), S # {}
    PROVE  Max(S) \in S /\ \A y \in S : Max(S) >= y
<1> DEFINE T == {n - x : x \in S}
<1>1. T \in SUBSET Nat /\ T # {}
  <2>1. ASSUME NEW x \in S PROVE n - x \in Nat
    <3>1. x \in -1..n /\ x \in Int /\ x <= n
      OBVIOUS
    <3> QED
      BY <3>1
  <2>2. T \in SUBSET Nat
    BY <2>1, Zenon
  <2>3. T # {}
    BY Zenon
  <2> QED
    BY <2>2, <2>3
<1>2. PICK t \in T : \A u \in T : t <= u
  BY <1>1, FirstNatural
<1>3. PICK m \in S : t = n - m
  OBVIOUS
<1>4. \A y \in S : m >= y
  <2> SUFFICES ASSUME NEW y \in S PROVE m >= y
    OBVIOUS
  <2>1. n - y \in T
    OBVIOUS
  <2>2. n - m <= n - y
    BY <1>2, <1>3, <2>1
  <2> QED
    BY <2>2
<1> QED
  BY <1>4 DEF Max

\* A finite set of numbers of runs has a greatest one.
LEMMA LastRun ==
    ASSUME NEW S \in SUBSET OpsRuns, S # {}
    PROVE  \E m \in S : \A y \in S : m >= y
<1>1. IsFiniteSet(S) /\ S \in SUBSET Nat
  BY OpsAssumption, FS_Subset
<1> DEFINE count(m) == Cardinality({y \in S : y > m})
           T == {count(m) : m \in S}
<1>2. \A m \in S : count(m) \in Nat
  BY <1>1, FS_Subset, FS_CardinalityType
<1>3. PICK t \in T : \A u \in T : t <= u
  <2>1. T \in SUBSET Nat /\ T # {}
    BY <1>2
  <2> QED
    BY <2>1, FirstNatural
<1>4. PICK m \in S : t = count(m)
  OBVIOUS
<1>5. ASSUME NEW y \in S, y > m PROVE FALSE
  <2> DEFINE A == {z \in S : z > y}
             B == {z \in S : z > m}
  <2>1. A \subseteq B /\ y \in B /\ y \notin A
    <3>1. m \in Nat /\ y \in Nat /\ ~(y > y)
      BY <1>1
    <3>2. ASSUME NEW z \in S, z > y PROVE z > m
      <4>1. z \in Nat
        BY <1>1
      <4> QED
        BY <3>1, <3>2, <4>1, <1>5
    <3> QED
      BY <1>5, <3>1, <3>2, Zenon
  <2>2. IsFiniteSet(B)
    BY <1>1, FS_Subset
  <2> HIDE DEF A, B
  <2>3. Cardinality(A) < Cardinality(B) /\ Cardinality(A) \in Nat /\ Cardinality(B) \in Nat
    BY <2>1, <2>2, FS_Subset, FS_CardinalityType
  <2>4. count(m) <= count(y)
    BY <1>3, <1>4
  <2> QED
    BY <2>3, <2>4 DEF A, B
<1> QED
  BY <1>1, <1>4, <1>5

-----------------------------------------------------------------------------
(* The inductive invariant                                                   *)

Times == 0..OpsMaxTime

TimelyReport ==
    [run : OpsRuns, state : {"running"} \cup Ended, started : Times, at : Times]

Runner ==
    [pc : {"idle", "running", "ended"}, started : Times, beats : Nat,
     ends : SUBSET Ended, at : Times]

LedgerTypes ==
    /\ opsNow \in Times
    /\ ledger \in [OpsRuns -> TimelyReport \cup {NoRun}]
    /\ runners \in [OpsRuns -> Runner]
    /\ opsWire \in SUBSET TimelyReport /\ opsSpool \in SUBSET TimelyReport
    /\ handled \in [OpsRuns \X BOOLEAN -> TimelyReport \cup {NoRun}]

\* What is stored and remembered of a run is a report of that run, and what is
\* remembered as its end is one.
Keyed ==
    \A r \in OpsRuns :
       /\ ledger[r] # NoRun => ledger[r].run = r
       /\ handled[<<r, TRUE>>] # NoRun =>
             handled[<<r, TRUE>>].run = r /\ IsTerminalRun(handled[<<r, TRUE>>])
       /\ handled[<<r, FALSE>>] # NoRun =>
             handled[<<r, FALSE>>].run = r /\ ~IsTerminalRun(handled[<<r, FALSE>>])

\* The ledger has the newest end of a run that was handled, or else its newest
\* heartbeat.
HoldsNewest ==
    \A r \in OpsRuns :
       ledger[r] = IF handled[<<r, TRUE>>] # NoRun THEN handled[<<r, TRUE>>]
                   ELSE handled[<<r, FALSE>>]

\* The end of a run is known, or on its way from the spool.
EndIsKept ==
    \A r \in OpsRuns : runners[r].pc = "ended" =>
       IsTerminalRun(ledger[r]) \/ \E rep \in opsSpool : rep.run = r /\ IsTerminalRun(rep)

OpsInv == LedgerTypes /\ Keyed /\ HoldsNewest /\ EndIsKept

-----------------------------------------------------------------------------
(* Handling a report                                                         *)

LEMMA NoRunIsNone == NoRun \notin TimelyReport /\ ~IsTerminalRun(NoRun)
BY OpsAssumption DEF NoRun, TimelyReport, IsTerminalRun, Ended

LEMMA Decisions ==
    ASSUME NEW x \in TimelyReport \cup {NoRun}, NEW rep \in TimelyReport
    PROVE  (DecideReport(x, rep) \in {"created", "updated"}) <=>
              \/ x = NoRun
              \/ ~IsTerminalRun(x) /\ IsTerminalRun(rep)
              \/ IsTerminalRun(x) = IsTerminalRun(rep) /\ x.at < rep.at
<1>1. rep.at \in Int /\ x.at \in Int
  BY DEF TimelyReport, NoRun, Times
<1>2. IsTerminalRun(x) \in BOOLEAN /\ IsTerminalRun(rep) \in BOOLEAN
  BY DEF IsTerminalRun
<1> QED
  BY <1>1, <1>2 DEF DecideReport

\* Handling a report keeps what the ledger and the history agree on, and an
\* end, once known, stays known.
LEMMA ReportSteps ==
    ASSUME LedgerTypes, Keyed, HoldsNewest, NEW rep \in TimelyReport, ReportRun(rep)
    PROVE  /\ ledger' \in [OpsRuns -> TimelyReport \cup {NoRun}]
           /\ handled' \in [OpsRuns \X BOOLEAN -> TimelyReport \cup {NoRun}]
           /\ Keyed' /\ HoldsNewest'
           /\ \A r \in OpsRuns : IsTerminalRun(ledger[r]) => IsTerminalRun(ledger'[r])
           /\ IsTerminalRun(rep) => IsTerminalRun(ledger'[rep.run])
<1> DEFINE k == rep.run
           t == IsTerminalRun(rep)
<1>1. k \in OpsRuns /\ t \in BOOLEAN /\ rep.run = k /\ rep.at \in Int /\ rep # NoRun
  BY NoRunIsNone DEF TimelyReport, IsTerminalRun, Times
<1>2. PICK x \in TimelyReport \cup {NoRun} : x = ledger[k]
  BY <1>1 DEF LedgerTypes
<1>3. PICK e \in TimelyReport \cup {NoRun} : e = handled[<<k, TRUE>>]
  BY <1>1 DEF LedgerTypes
<1>4. PICK b \in TimelyReport \cup {NoRun} : b = handled[<<k, FALSE>>]
  BY <1>1 DEF LedgerTypes
<1> DEFINE old == IF t THEN e ELSE b
           kept == IF old = NoRun \/ old.at < rep.at THEN rep ELSE old
           written == DecideReport(x, rep) \in {"created", "updated"}
<1>5. /\ x = IF e # NoRun THEN e ELSE b
      /\ e # NoRun => e.run = k /\ IsTerminalRun(e)
      /\ b # NoRun => b.run = k /\ ~IsTerminalRun(b)
  BY <1>1, <1>2, <1>3, <1>4 DEF Keyed, HoldsNewest
<1>6. e.at \in Int /\ b.at \in Int
  BY DEF TimelyReport, NoRun, Times
<1>7. written <=> \/ x = NoRun
                  \/ ~IsTerminalRun(x) /\ t
                  \/ IsTerminalRun(x) = t /\ x.at < rep.at
  BY Decisions
<1>8. IsTerminalRun(e) \in BOOLEAN /\ IsTerminalRun(b) \in BOOLEAN /\ ~IsTerminalRun(NoRun)
  BY NoRunIsNone DEF IsTerminalRun
<1> HIDE DEF k, t, written
<1>9. IF t THEN (IF written THEN rep ELSE x) = kept
      ELSE (IF written THEN rep ELSE x) = IF e # NoRun THEN e ELSE kept
  <2>1. CASE t
    BY <2>1, <1>1, <1>5, <1>6, <1>7, <1>8
  <2>2. CASE ~t
    BY <2>2, <1>1, <1>5, <1>6, <1>7, <1>8
  <2> QED
    BY <2>1, <2>2
<1>10. ledger' = [ledger EXCEPT ![k] = IF written THEN rep ELSE x]
  <2>1. ledger' = IF written THEN [ledger EXCEPT ![k] = rep] ELSE ledger
    BY <1>2 DEF ReportRun, saveRun, k, written
  <2>2. ledger = [ledger EXCEPT ![k] = x]
    BY <1>1, <1>2 DEF LedgerTypes
  <2> QED
    BY <2>1, <2>2
<1>11. handled' = [handled EXCEPT ![<<k, t>>] = kept]
  <2>1. handled[<<k, t>>] = old
    BY <1>1, <1>3, <1>4
  <2>2. handled' = [handled EXCEPT ![<<k, t>>] =
           IF handled[<<k, t>>] = NoRun \/ handled[<<k, t>>].at < rep.at THEN rep
           ELSE handled[<<k, t>>]]
    BY DEF ReportRun, k, t
  <2> QED
    BY <2>1, <2>2
<1> DEFINE y == IF written THEN rep ELSE x
<1>12. y \in TimelyReport \cup {NoRun} /\ (y # NoRun => y.run = k)
  BY <1>1, <1>5
<1>13. kept \in TimelyReport \cup {NoRun} /\ kept # NoRun /\ kept.run = k
       /\ IsTerminalRun(kept) = t
  BY <1>1, <1>5, <1>8 DEF t
<1>14. IsTerminalRun(x) => IsTerminalRun(y)
  BY <1>1, <1>5, <1>7, <1>8 DEF t
<1>15. t => IsTerminalRun(y)
  BY <1>9, <1>13
<1>15a. (t => y = kept) /\ (~t => y = IF e # NoRun THEN e ELSE kept)
  BY <1>9
<1> HIDE DEF y, kept, old
<1>16. ledger' = [ledger EXCEPT ![k] = y]
  BY <1>10 DEF y
<1>17. \A r \in OpsRuns : ledger'[r] = IF r = k THEN y ELSE ledger[r]
  BY <1>1, <1>16 DEF LedgerTypes
<1>18. \A r \in OpsRuns, c \in BOOLEAN :
          handled'[<<r, c>>] = IF r = k /\ c = t THEN kept ELSE handled[<<r, c>>]
  BY <1>1, <1>11 DEF LedgerTypes
<1>19. ledger' \in [OpsRuns -> TimelyReport \cup {NoRun}]
  BY <1>1, <1>12, <1>16 DEF LedgerTypes
<1>20. handled' \in [OpsRuns \X BOOLEAN -> TimelyReport \cup {NoRun}]
  BY <1>1, <1>11, <1>13 DEF LedgerTypes
<1>21. Keyed'
  <2> SUFFICES ASSUME NEW r \in OpsRuns
               PROVE  /\ ledger'[r] # NoRun => ledger'[r].run = r
                      /\ handled'[<<r, TRUE>>] # NoRun =>
                            handled'[<<r, TRUE>>].run = r /\ IsTerminalRun(handled'[<<r, TRUE>>])
                      /\ handled'[<<r, FALSE>>] # NoRun =>
                            handled'[<<r, FALSE>>].run = r /\ ~IsTerminalRun(handled'[<<r, FALSE>>])
    BY DEF Keyed, IsTerminalRun
  <2>1. ledger'[r] # NoRun => ledger'[r].run = r
    BY <1>12, <1>17 DEF Keyed
  <2>2. handled'[<<r, TRUE>>] # NoRun =>
           handled'[<<r, TRUE>>].run = r /\ IsTerminalRun(handled'[<<r, TRUE>>])
    BY <1>1, <1>13, <1>18 DEF Keyed
  <2>3. handled'[<<r, FALSE>>] # NoRun =>
           handled'[<<r, FALSE>>].run = r /\ ~IsTerminalRun(handled'[<<r, FALSE>>])
    BY <1>1, <1>13, <1>18 DEF Keyed
  <2> QED
    BY <2>1, <2>2, <2>3
<1>22. HoldsNewest'
  <2> SUFFICES ASSUME NEW r \in OpsRuns
               PROVE  ledger'[r] = IF handled'[<<r, TRUE>>] # NoRun THEN handled'[<<r, TRUE>>]
                                   ELSE handled'[<<r, FALSE>>]
    BY DEF HoldsNewest
  <2>1. CASE r # k
    BY <2>1, <1>17, <1>18 DEF HoldsNewest
  <2>2. CASE r = k /\ t
    <3>1. ledger'[r] = kept /\ handled'[<<r, TRUE>>] = kept
      BY <2>2, <1>1, <1>17, <1>18, <1>15a
    <3> QED
      BY <3>1, <1>13
  <2>3. CASE r = k /\ ~t
    <3>1. ledger'[r] = y /\ handled'[<<r, TRUE>>] = e /\ handled'[<<r, FALSE>>] = kept
      BY <2>3, <1>1, <1>3, <1>17, <1>18
    <3> QED
      BY <2>3, <3>1, <1>15a
  <2> QED
    BY <2>1, <2>2, <2>3, <1>1
<1>23. \A r \in OpsRuns : IsTerminalRun(ledger[r]) => IsTerminalRun(ledger'[r])
  BY <1>2, <1>14, <1>17
<1>24. t => IsTerminalRun(ledger'[k])
  BY <1>1, <1>15, <1>17
<1> QED
  BY <1>19, <1>20, <1>21, <1>22, <1>23, <1>24 DEF k, t

-----------------------------------------------------------------------------
(* The steps                                                                 *)

LEMMA OpsStarts == OpsInit => OpsInv
<1> SUFFICES ASSUME OpsInit PROVE OpsInv
  OBVIOUS
<1>1. LedgerTypes
  BY OpsAssumption DEF OpsInit, LedgerTypes, Times, Runner, NoRunner
<1>2. Keyed /\ HoldsNewest
  BY DEF OpsInit, Keyed, HoldsNewest
<1>3. EndIsKept
  BY DEF OpsInit, EndIsKept, NoRunner
<1> QED
  BY <1>1, <1>2, <1>3 DEF OpsInv

\* A request is answered or given up: the ledger keeps agreeing with the
\* history, and knows an end that was answered.
LEMMA RequestSteps ==
    ASSUME OpsInv, NEW rep \in TimelyReport, Answered(rep) \/ GivenUp(rep)
    PROVE  /\ ledger' \in [OpsRuns -> TimelyReport \cup {NoRun}]
           /\ handled' \in [OpsRuns \X BOOLEAN -> TimelyReport \cup {NoRun}]
           /\ opsWire' \in SUBSET TimelyReport
           /\ Keyed' /\ HoldsNewest'
           /\ \A r \in OpsRuns : IsTerminalRun(ledger[r]) => IsTerminalRun(ledger'[r])
           /\ Answered(rep) /\ IsTerminalRun(rep) => IsTerminalRun(ledger'[rep.run])
<1>1. CASE Answered(rep)
  BY <1>1, ReportSteps DEF Answered, OpsInv, LedgerTypes
<1>2. CASE GivenUp(rep) /\ ~Answered(rep)
  <2>1. UNCHANGED <<ledger, handled>>
    BY <1>2 DEF GivenUp, NotHandled
  <2>2. opsWire' \in SUBSET TimelyReport
    BY <1>2 DEF GivenUp, OpsInv, LedgerTypes
  <2>3. Keyed' /\ HoldsNewest'
    BY <2>1 DEF OpsInv, Keyed, HoldsNewest
  <2> QED
    BY <1>2, <2>1, <2>2, <2>3 DEF OpsInv, LedgerTypes
<1> QED
  BY <1>1, <1>2

LEMMA ReportIsTimely ==
    ASSUME OpsInv, NEW r \in OpsRuns, NEW state \in {"running"} \cup Ended
    PROVE  /\ ReportOf(r, state) \in TimelyReport
           /\ ReportOf(r, state).run = r /\ ReportOf(r, state).state = state
<1>1. runners[r].started \in Times /\ opsNow \in Times
  BY DEF OpsInv, LedgerTypes, Runner
<1> QED
  BY <1>1 DEF ReportOf, TimelyReport

LEMMA OpsSteps ==
    ASSUME OpsInv, [OpsNext]_opsVars
    PROVE  OpsInv'
<1> USE DEF OpsInv
<1>1. ASSUME NEW r \in OpsRuns, runOpsRun(r) PROVE OpsInv'
  <2>1. PICK rep \in TimelyReport : rep = ReportOf(r, "running")
    BY ReportIsTimely
  <2>2. (Answered(rep) \/ GivenUp(rep)) /\ UNCHANGED <<opsNow, opsSpool>>
    BY <1>1, <2>1 DEF runOpsRun, sendHeartbeat
  <2>3. PICK n \in Runner :
           n.pc = "running" /\ runners' = [runners EXCEPT ![r] = n]
    <3>1. 0 \in Times /\ opsNow \in Times
      BY OpsAssumption DEF LedgerTypes, Times
    <3>2. NoRunner \in Runner
      BY <3>1 DEF NoRunner, Runner
    <3>3. PICK none \in Runner : none = NoRunner
      BY <3>2
    <3> DEFINE n == [none EXCEPT !.pc = "running", !.started = opsNow]
    <3>4. n \in Runner /\ n.pc = "running"
      BY <3>1 DEF Runner
    <3>5. runners' = [runners EXCEPT ![r] = n]
      BY <1>1, <3>3 DEF runOpsRun
    <3> QED
      BY <3>4, <3>5
  <2>4. LedgerTypes' /\ Keyed' /\ HoldsNewest'
    BY <2>2, <2>3, RequestSteps DEF LedgerTypes
  <2>5. \A q \in OpsRuns : IsTerminalRun(ledger[q]) => IsTerminalRun(ledger'[q])
    BY <2>2, RequestSteps
  <2>6. \A q \in OpsRuns : runners'[q].pc = "ended" => runners[q].pc = "ended"
    BY <2>3 DEF LedgerTypes
  <2> QED
    BY <2>2, <2>4, <2>5, <2>6 DEF EndIsKept, IsTerminalRun
<1>2. ASSUME NEW r \in OpsRuns, runForwardingSignals(r) PROVE OpsInv'
  <2>1. PICK rep \in TimelyReport : rep = ReportOf(r, "running")
    BY ReportIsTimely
  <2>2. (Answered(rep) \/ GivenUp(rep)) /\ UNCHANGED <<opsNow, opsSpool>>
    BY <1>2, <2>1 DEF runForwardingSignals, sendHeartbeat
  <2>3. PICK old \in Runner : old = runners[r]
    BY DEF LedgerTypes
  <2>4. PICK n \in Runner :
           n.pc = old.pc /\ runners' = [runners EXCEPT ![r] = n]
    <3>1. [old EXCEPT !.beats = @ + 1] \in Runner
      BY DEF Runner
    <3>2. runners' = [runners EXCEPT ![r] = [old EXCEPT !.beats = @ + 1]]
      BY <1>2, <2>3 DEF runForwardingSignals
    <3> QED
      BY <3>1, <3>2 DEF Runner
  <2>5. LedgerTypes' /\ Keyed' /\ HoldsNewest'
    BY <2>2, <2>4, RequestSteps DEF LedgerTypes
  <2>6. \A q \in OpsRuns : IsTerminalRun(ledger[q]) => IsTerminalRun(ledger'[q])
    BY <2>2, RequestSteps
  <2>7. \A q \in OpsRuns : runners'[q].pc = "ended" => runners[q].pc = "ended"
    BY <2>3, <2>4 DEF LedgerTypes
  <2> QED
    BY <2>2, <2>5, <2>6, <2>7 DEF EndIsKept, IsTerminalRun
<1>3. ASSUME NEW r \in OpsRuns, NEW state \in Ended, NEW n \in Runner,
             deliverOrSpool(ReportOf(r, state)), UNCHANGED opsNow,
             runners' = [runners EXCEPT ![r] = n]
      PROVE  OpsInv'
  <2>1. PICK rep \in TimelyReport : rep = ReportOf(r, state)
    BY ReportIsTimely
  <2>2. rep.run = r /\ IsTerminalRun(rep)
    BY <2>1, ReportIsTimely DEF IsTerminalRun
  <2>3. \/ Answered(rep) /\ UNCHANGED opsSpool
        \/ GivenUp(rep) /\ opsSpool' = opsSpool \cup {rep}
    BY <1>3, <2>1 DEF deliverOrSpool
  <2>4. opsSpool \subseteq opsSpool' /\ opsSpool' \in SUBSET TimelyReport
    BY <2>3 DEF LedgerTypes
  <2>5. LedgerTypes' /\ Keyed' /\ HoldsNewest'
    BY <1>3, <2>3, <2>4, RequestSteps DEF LedgerTypes
  <2>6. \A q \in OpsRuns : IsTerminalRun(ledger[q]) => IsTerminalRun(ledger'[q])
    BY <2>3, RequestSteps
  <2>7. \A q \in OpsRuns : q # r => runners'[q] = runners[q]
    BY <1>3 DEF LedgerTypes
  <2>8. IsTerminalRun(ledger'[r]) \/ rep \in opsSpool'
    BY <2>2, <2>3, RequestSteps
  <2>9. EndIsKept'
    BY <2>2, <2>4, <2>6, <2>7, <2>8 DEF EndIsKept, IsTerminalRun
  <2> QED
    BY <2>5, <2>9
<1>4. ASSUME NEW r \in OpsRuns, NEW state \in Ended, EndRun(r, state) PROVE OpsInv'
  <2>1. PICK old \in Runner : old = runners[r]
    BY DEF LedgerTypes
  <2> DEFINE n == [old EXCEPT !.pc = "ended", !.ends = {state}, !.at = opsNow,
                      !.started = ReportOf(r, state).started]
  <2>2. n \in Runner
    BY ReportIsTimely DEF LedgerTypes, Runner, TimelyReport
  <2>3. runners' = [runners EXCEPT ![r] = n]
    BY <1>4, <2>1 DEF EndRun
  <2> HIDE DEF n
  <2> QED
    BY <1>3, <1>4, <2>2, <2>3 DEF EndRun
<1>5. ASSUME NEW r \in OpsRuns, NEW state \in Ended, ReviseRun(r, state) PROVE OpsInv'
  <2>1. PICK old \in Runner : old = runners[r]
    BY DEF LedgerTypes
  <2> DEFINE n == [old EXCEPT !.ends = @ \cup {state}, !.at = opsNow]
  <2>2. n \in Runner
    BY DEF LedgerTypes, Runner
  <2>3. runners' = [runners EXCEPT ![r] = n]
    <3> DEFINE mid == [runners EXCEPT ![r] = [old EXCEPT !.ends = @ \cup {state}]]
    <3>1. mid[r] = [old EXCEPT !.ends = @ \cup {state}]
      BY DEF LedgerTypes
    <3>2. runners' = [mid EXCEPT ![r] = [mid[r] EXCEPT !.at = opsNow]]
      BY <1>5, <2>1 DEF ReviseRun
    <3>3. [mid[r] EXCEPT !.at = opsNow] = n
      BY <3>1 DEF Runner
    <3>4. runners' = [mid EXCEPT ![r] = n]
      BY <3>2, <3>3
    <3>5. ASSUME NEW f \in [OpsRuns -> Runner], NEW a, NEW b
          PROVE  [[f EXCEPT ![r] = a] EXCEPT ![r] = b] = [f EXCEPT ![r] = b]
      OBVIOUS
    <3>6. runners \in [OpsRuns -> Runner]
      BY DEF LedgerTypes
    <3> HIDE DEF n
    <3>7. [mid EXCEPT ![r] = n] = [runners EXCEPT ![r] = n]
      BY <3>5, <3>6, Zenon
    <3> QED
      BY <3>4, <3>7, Zenon
  <2> HIDE DEF n
  <2> QED
    BY <1>3, <1>5, <2>2, <2>3 DEF ReviseRun
<1>6. ASSUME NEW rep \in TimelyReport, ReportRun(rep), UNCHANGED <<opsNow, runners>>,
             opsWire' \in SUBSET opsWire,
             \/ opsSpool' = opsSpool
             \/ opsSpool' = opsSpool \ {rep}
      PROVE  OpsInv'
  <2>1. LedgerTypes' /\ Keyed' /\ HoldsNewest'
    BY <1>6, ReportSteps DEF LedgerTypes
  <2>2. \A q \in OpsRuns : IsTerminalRun(ledger[q]) => IsTerminalRun(ledger'[q])
    BY <1>6, ReportSteps
  <2>3. IsTerminalRun(rep) => IsTerminalRun(ledger'[rep.run])
    BY <1>6, ReportSteps
  <2>4. EndIsKept'
    BY <1>6, <2>2, <2>3 DEF EndIsKept, IsTerminalRun
  <2> QED
    BY <2>1, <2>4
<1>7. CASE Replay \/ ReplayUnanswered
  BY <1>6, <1>7 DEF Replay, ReplayUnanswered, LedgerTypes
<1>8. CASE ArrivesLate
  BY <1>6, <1>8 DEF ArrivesLate, LedgerTypes
<1>9. CASE UNCHANGED <<ledger, runners, opsWire, opsSpool, handled>> /\ opsNow' \in Times
  BY <1>9 DEF LedgerTypes, Keyed, HoldsNewest, EndIsKept
<1>10. CASE OpsTick
  BY <1>9, <1>10, OpsAssumption DEF OpsTick, LedgerTypes, Times
<1>11. CASE (\E enabled \in BOOLEAN : RegisterJob(enabled)) \/ UNCHANGED opsVars
  BY <1>9, <1>11 DEF RegisterJob, opsVars, LedgerTypes
<1>12. "warning" \in Ended
  BY DEF Ended
<1> QED
  BY <1>1, <1>2, <1>4, <1>5, <1>7, <1>8, <1>10, <1>11, <1>12 DEF OpsNext

-----------------------------------------------------------------------------
(* What a reader sees                                                        *)

\* Stored runs have different numbers.
StoredRuns(S) ==
    /\ S \in SUBSET TimelyReport
    /\ \A x, y \in S : x.run = y.run => x = y

Later(x, y) == x.started > y.started \/ (x.started = y.started /\ x.run > y.run)

LEMMA NewestIsLast ==
    ASSUME NEW S, StoredRuns(S), S # {}
    PROVE  /\ LastOf(S) \in S
           /\ \A y \in S : y = LastOf(S) \/ Later(LastOf(S), y)
<1>1. \A x \in S : x.started \in Times /\ x.run \in OpsRuns /\ x.started \in Int /\ x.run \in Int
  <2>1. \A x \in S : x.started \in Times /\ x.run \in OpsRuns
    BY DEF StoredRuns, TimelyReport
  <2>2. OpsRuns \subseteq Int /\ Times \subseteq Int
    BY OpsAssumption DEF Times
  <2> QED
    BY <2>1, <2>2
<1> DEFINE starts == {x.started : x \in S}
<1>2. PICK s \in starts : \A y \in starts : s >= y
  <2>1. starts \in SUBSET (-1..OpsMaxTime) /\ starts # {} /\ OpsMaxTime \in Nat
    BY <1>1, OpsAssumption DEF Times
  <2> QED
    BY <2>1, LastNatural
<1> DEFINE last == {x \in S : x.started = s}
           runs == {x.run : x \in last}
<1>3. PICK r \in runs : \A y \in runs : r >= y
  <2>1. runs \in SUBSET OpsRuns /\ runs # {}
    BY <1>1, <1>2
  <2> QED
    BY <2>1, LastRun
<1>4. PICK x \in last : x.run = r
  BY <1>3
<1>5. \A y \in S : x.started > y.started \/ (x.started = y.started /\ x.run >= y.run)
  <2> SUFFICES ASSUME NEW y \in S, ~(x.started > y.started)
               PROVE  x.started = y.started /\ x.run >= y.run
    OBVIOUS
  <2>1. x.started >= y.started
    BY <1>2, <1>4
  <2>2. x.started = y.started
    BY <1>1, <1>4, <2>1
  <2>3. y \in last
    BY <1>4, <2>2
  <2> QED
    BY <1>3, <1>4, <2>2, <2>3
<1>6. \E z \in S : \A y \in S : z.started > y.started
                     \/ (z.started = y.started /\ z.run >= y.run)
  BY <1>4, <1>5
<1>7. /\ Newest(S) \in S
      /\ \A y \in S : Newest(S).started > y.started
                     \/ (Newest(S).started = y.started /\ Newest(S).run >= y.run)
  BY <1>6 DEF Newest
<1>8. PICK z \in S : z = Newest(S)
  BY <1>7
<1>9. \A y \in S : y = z \/ Later(z, y)
  <2> SUFFICES ASSUME NEW y \in S, ~Later(z, y) PROVE y = z
    OBVIOUS
  <2>1. z.started = y.started /\ z.run >= y.run /\ ~(z.run > y.run)
    BY <1>7, <1>8 DEF Later
  <2>2. z.run = y.run
    BY <1>1, <2>1
  <2> QED
    BY <2>2 DEF StoredRuns
<1> QED
  BY <1>8, <1>9 DEF LastOf

LEMMA Multiple ==
    ASSUME NEW e \in Nat, e % Period = 0
    PROVE  \E q \in Int : e = Period * q
<1>1. Period \in Nat \ {0}
  BY OpsAssumption
<1>2. e = Period * (e \div Period) + (e % Period) /\ e \div Period \in Int
  BY <1>1
<1> QED
  BY <1>1, <1>2

LEMMA SlotBefore ==
    ASSUME NEW e \in Nat, e % Period = 0, e >= Period
    PROVE  e - Period \in Nat /\ (e - Period) % Period = 0
<1>1. Period \in Nat \ {0}
  BY OpsAssumption
<1>2. PICK q \in Int : e = Period * q
  BY Multiple
<1>3. e - Period = Period * (q - 1)
  BY <1>1, <1>2
<1>4. (Period * (q - 1)) % Period = 0
  BY <1>1
<1> QED
  BY <1>1, <1>3, <1>4

LEMMA TheSmaller ==
    ASSUME NEW a \in Int, NEW b \in Int
    PROVE  Min({a, b}) = IF a <= b THEN a ELSE b
<1>1. Min({a, b}) \in {a, b} /\ Min({a, b}) <= a /\ Min({a, b}) <= b
  BY DEF Min
<1> QED
  BY <1>1

Slots(at) == {s \in 0..OpsMaxTime : s % Period = 0 /\ s <= at}

LEMMA SlotIsLast ==
    ASSUME NEW at \in Int
    PROVE  /\ PreviousSlot(at) \in {-1} \cup Slots(at)
           /\ \A s \in Slots(at) : PreviousSlot(at) >= s
<1> DEFINE S == {-1} \cup Slots(at)
<1>1. S \in SUBSET (-1..OpsMaxTime) /\ S # {} /\ OpsMaxTime \in Nat
  BY OpsAssumption DEF Slots
<1>2. Max(S) \in S /\ \A y \in S : Max(S) >= y
  BY <1>1, LastNatural
<1> QED
  BY <1>2 DEF PreviousSlot, Slots

\* A started run that covers the last slot that is due began in its window.
LEMMA CoveredSlot ==
    ASSUME NEW runs, NEW t \in Times, runs.started.started = t,
           NEW due \in SUBSET (0..OpsMaxTime), due # {}, opsNow \in Times,
           due = {s \in 0..OpsMaxTime : s % Period = 0 /\ s + RunGrace <= opsNow},
           coversSlot(PreviousSlot(opsNow - RunGrace), runs)
    PROVE  t >= Min({Max(due) - Period + RunGrace, Max(due)})
<1>1. Period \in Nat \ {0} /\ RunGrace \in Nat \ {0} /\ opsNow \in Int /\ t \in Nat
      /\ OpsMaxTime \in Nat
  BY OpsAssumption DEF Times
<1>2. due = Slots(opsNow - RunGrace)
  BY <1>1 DEF Slots
<1>3. Max(due) \in due /\ \A y \in due : Max(due) >= y
  <2>1. due \in SUBSET (-1..OpsMaxTime)
    BY <1>1
  <2> QED
    BY <1>1, <2>1, LastNatural
<1>4. PICK e \in Nat : e \in 0..OpsMaxTime /\ e = Max(due) /\ e % Period = 0
  <2>1. PICK m \in 0..OpsMaxTime : m = Max(due) /\ m \in due
    BY <1>3
  <2>2. m \in Nat /\ m % Period = 0
    BY <1>1, <2>1
  <2> QED
    BY <2>1, <2>2
<1>5. PreviousSlot(opsNow - RunGrace) = e
  <2>1. PICK p \in {-1} \cup due : p = PreviousSlot(opsNow - RunGrace) /\ \A s \in due : p >= s
    <3>1. opsNow - RunGrace \in Int
      BY <1>1
    <3>2. /\ PreviousSlot(opsNow - RunGrace) \in {-1} \cup Slots(opsNow - RunGrace)
          /\ \A s \in Slots(opsNow - RunGrace) : PreviousSlot(opsNow - RunGrace) >= s
      BY <3>1, SlotIsLast
    <3> QED
      BY <1>2, <3>2, Zenon
  <2>2. p >= e
    BY <1>3, <1>4, <2>1
  <2>3. p \in due
    BY <1>4, <2>1, <2>2
  <2>4. e >= p
    BY <1>3, <1>4, <2>3
  <2> QED
    BY <1>4, <2>1, <2>2, <2>3, <2>4
<1>6. PICK prior \in {-1} \cup Slots(e - 1) :
         prior = PreviousSlot(e - 1) /\ \A s \in Slots(e - 1) : prior >= s
  <2>1. e - 1 \in Int
    BY <1>4
  <2> QED
    BY <2>1, SlotIsLast
<1>7. prior \in Int
  BY DEF Slots
<1>8. e >= Period => prior >= e - Period /\ prior # -1
  <2> SUFFICES ASSUME e >= Period PROVE prior >= e - Period /\ prior # -1
    OBVIOUS
  <2>1. e - Period \in Nat /\ (e - Period) % Period = 0
    BY <1>4, SlotBefore, Zenon
  <2>2. e - Period \in 0..OpsMaxTime /\ e - Period <= e - 1
    BY <1>1, <1>4, <2>1
  <2>3. e - Period \in Slots(e - 1)
    BY <2>1, <2>2 DEF Slots
  <2>4. prior >= e - Period
    BY <1>6, <2>3
  <2> QED
    BY <1>1, <1>7, <2>1, <2>4
<1>9. e < Period => e = 0
  <2> SUFFICES ASSUME e < Period PROVE e = 0
    OBVIOUS
  <2>1. PICK q \in Int : e = Period * q
    BY <1>4, Multiple
  <2>2. q >= 1 => Period * q >= Period
    BY <1>1
  <2>3. q <= 0 => Period * q <= 0
    BY <1>1
  <2> QED
    BY <1>1, <2>1, <2>2, <2>3
<1>10. t >= IF prior = -1 THEN 0 ELSE Min({prior + RunGrace, e})
  BY <1>5, <1>6 DEF coversSlot
<1>11. Min({e - Period + RunGrace, e}) <= IF prior = -1 THEN 0 ELSE Min({prior + RunGrace, e})
  <2>1. Min({e - Period + RunGrace, e}) =
           IF e - Period + RunGrace <= e THEN e - Period + RunGrace ELSE e
    BY <1>1, <1>4, TheSmaller
  <2>2. Min({prior + RunGrace, e}) = IF prior + RunGrace <= e THEN prior + RunGrace ELSE e
    BY <1>1, <1>4, <1>7, TheSmaller
  <2>3. CASE e >= Period
    BY <2>3, <1>1, <1>7, <1>8, <2>1, <2>2
  <2>4. CASE e < Period
    <3>1. e = 0
      BY <2>4, <1>9
    <3>2. prior = -1
      BY <1>6, <3>1 DEF Slots
    <3> QED
      BY <1>1, <2>1, <2>4, <3>1, <3>2
  <2> QED
    BY <1>1, <2>3, <2>4
<1> QED
  <2>1. Min({e - Period + RunGrace, e}) \in Int /\ Min({prior + RunGrace, e}) \in Int
    BY <1>1, <1>4, <1>7, TheSmaller
  <2> QED
    BY <1>1, <1>4, <1>10, <1>11, <2>1

\* A job shows ok on the evidence of its stored runs.
LEMMA Evidence == OpsInv => StatusIsEvidenced
<1> SUFFICES ASSUME OpsInv, EvaluateJob = "ok" PROVE StatusIsEvidenced
  BY DEF StatusIsEvidenced
<1> DEFINE stored == {ledger[r] : r \in OpsRuns} \ {NoRun}
           due == {s \in 0..OpsMaxTime : s % Period = 0 /\ s + RunGrace <= opsNow}
           begun == {x \in stored : x.state # "skipped"}
           finished == {x \in stored : x.state \in Ended \ {"skipped"}}
<1>1. StoredRuns(stored)
  <2>1. \A x \in stored : x \in TimelyReport /\ \E r \in OpsRuns : x = ledger[r] /\ x.run = r
    <3>1. \A r \in OpsRuns : ledger[r] \in TimelyReport \cup {NoRun}
      BY DEF OpsInv, LedgerTypes
    <3>2. \A r \in OpsRuns : ledger[r] # NoRun => ledger[r].run = r
      BY DEF OpsInv, Keyed
    <3> QED
      BY <3>1, <3>2
  <2> QED
    BY <2>1 DEF StoredRuns
<1> HIDE DEF stored
<1>2. StoredRuns(begun) /\ StoredRuns(finished)
  BY <1>1 DEF StoredRuns
<1>3. PICK runs : runs = LoadJobRuns
  OBVIOUS
<1>4. /\ runs.attempt = LastOf(stored)
      /\ runs.started = LastOf(begun)
      /\ runs.finished = LastOf(finished)
  BY <1>3 DEF LoadJobRuns, stored
<1>5. /\ job.enabled
      /\ runs.attempt # NoRun
      /\ runs.finished.state # "failed"
      /\ ~Overdue(runs)
      /\ runs.finished.state # "warning"
      /\ runs.attempt.state # "running"
      /\ runs.finished # NoRun
  BY <1>3 DEF EvaluateJob
<1>6. PICK a \in stored : a = runs.attempt /\ \A y \in stored : y = a \/ Later(a, y)
  <2>1. stored # {}
    BY <1>4, <1>5 DEF LastOf
  <2> QED
    BY <1>1, <1>4, <2>1, NewestIsLast
<1>7. PICK x \in finished : x = runs.finished /\ \A y \in finished : y = x \/ Later(x, y)
  <2>1. finished # {}
    BY <1>4, <1>5 DEF LastOf
  <2> QED
    BY <1>2, <1>4, <2>1, NewestIsLast
<1>8. x.state = "success"
  BY <1>5, <1>7 DEF Ended
<1>9. \A y \in stored : /\ y.state \in {"running"} \cup Ended
                        /\ y.started \in Int /\ y.run \in Int
  <2>1. \A y \in stored : /\ y.state \in {"running"} \cup Ended
                          /\ y.started \in Times /\ y.run \in OpsRuns
    BY <1>1 DEF StoredRuns, TimelyReport
  <2>2. OpsRuns \subseteq Int /\ Times \subseteq Int
    BY OpsAssumption DEF Times
  <2> QED
    BY <2>1, <2>2
<1>10. ASSUME NEW y \in stored, Later(y, x), y.state # "skipped" PROVE y.state = "running"
  <2>1. y \in finished => y = x \/ Later(x, y)
    BY <1>7
  <2>2. ~Later(x, y) /\ ~Later(x, x)
    BY <1>9, <1>10 DEF Later
  <2>3. y \notin finished
    BY <1>10, <2>1, <2>2
  <2> QED
    BY <1>9, <1>10, <2>3
<1>11. ASSUME NEW y \in stored, Later(y, x), y.state = "running"
       PROVE  \E z \in stored : Later(z, y) /\ z.state = "skipped"
  <2>1. Later(a, y)
    BY <1>5, <1>6, <1>11
  <2>2. Later(a, x)
    BY <1>9, <1>11, <2>1 DEF Later
  <2>3. a.state = "skipped"
    BY <1>5, <1>6, <1>10, <2>2
  <2> QED
    BY <2>1, <2>3
<1>12. ASSUME job.registered, due # {}
       PROVE  \E z \in begun : z.started >= Min({Max(due) - Period + RunGrace, Max(due)})
  <2>1. opsNow \in Times /\ RunGrace \in Nat \ {0} /\ OpsMaxTime \in Nat
    BY OpsAssumption DEF OpsInv, LedgerTypes
  <2>2. PreviousSlot(opsNow - RunGrace) # -1
    <3>1. PICK s \in due : TRUE
      BY <1>12
    <3>2. s \in Slots(opsNow - RunGrace) /\ s \in Nat /\ opsNow - RunGrace \in Int
      BY <2>1 DEF Slots, Times
    <3>3. PreviousSlot(opsNow - RunGrace) >= s
      BY <3>2, SlotIsLast
    <3> QED
      BY <3>2, <3>3
  <2>3. coversSlot(PreviousSlot(opsNow - RunGrace), runs)
    BY <1>5, <1>12, <2>2 DEF Overdue
  <2>4. runs.started # NoRun
    BY <2>3 DEF coversSlot
  <2>5. begun # {}
    BY <1>4, <2>4 DEF LastOf
  <2>6. LastOf(begun) \in begun
    BY <1>2, <2>5, NewestIsLast
  <2>7. PICK z \in begun : z = runs.started
    BY <1>4, <2>6
  <2>8. z.started \in Times
    BY <1>2 DEF StoredRuns, TimelyReport
  <2>9. z.started >= Min({Max(due) - Period + RunGrace, Max(due)})
    BY <1>12, <2>1, <2>3, <2>7, <2>8, CoveredSlot
  <2> QED
    BY <2>9
<1>13. /\ job.enabled
       /\ \E w \in stored :
             /\ w.state = "success"
             /\ \A y \in stored : Later(y, w) =>
                   \/ y.state = "skipped"
                   \/ y.state = "running" /\ \E z \in stored : Later(z, y) /\ z.state = "skipped"
       /\ job.registered /\ due # {} =>
             \E z \in begun : z.started >= Min({Max(due) - Period + RunGrace, Max(due)})
  BY <1>5, <1>7, <1>8, <1>10, <1>11, <1>12
<1> QED
  BY <1>13 DEF StatusIsEvidenced, stored, Later

-----------------------------------------------------------------------------

LEMMA NewestIsKept == OpsInv => LedgerIsNewest
<1> SUFFICES ASSUME OpsInv PROVE LedgerIsNewest
  OBVIOUS
<1>1. TimelyReport \subseteq OpsReport /\ Times = 0..OpsMaxTime
  <2>1. Times \subseteq Nat
    BY OpsAssumption DEF Times
  <2> QED
    BY <2>1 DEF TimelyReport, OpsReport, Times
<1>2. OpsTypeOK
  BY <1>1 DEF OpsInv, LedgerTypes, OpsTypeOK, Runner
<1> QED
  BY <1>2 DEF OpsInv, HoldsNewest, EndIsKept, LedgerIsNewest

\* In whatever order, late or twice the reports of a run arrive, the ledger
\* holds the newest of them, and a job shows ok only on the evidence of its
\* stored runs (UpsertRun, EvaluateJob, ops/internal/state.go:157-276).
THEOREM LedgerCorrect == OpsSpec => []LedgerIsEvidence
<1>1. OpsInv /\ [OpsNext]_opsVars => OpsInv'
  BY OpsSteps
<1>2. OpsInv => LedgerIsEvidence
  BY Evidence, NewestIsKept DEF LedgerIsEvidence
<1> QED
  BY <1>1, <1>2, OpsStarts, PTL DEF OpsSpec

-----------------------------------------------------------------------------
(* MigrationRunner: versions in order                                        *)

\* A non-empty set of naturals has a smallest element, so the next version of
\* a runner is well defined.
LEMMA MinOfNaturals ==
    ASSUME NEW S \in SUBSET Nat, S # {}
    PROVE  Min(S) \in S /\ \A y \in S : Min(S) <= y
<1>1. \E x \in S : \A y \in S : x <= y
  BY FirstNatural
<1> QED
  BY <1>1 DEF Min

Ordered(log) == \A j, k \in DOMAIN log : j < k => log[j] < log[k]
Logged(log) == { log[k] : k \in DOMAIN log }

\* The highest recorded version is one that was recorded, or none.
LEMMA MaxOfLog ==
    ASSUME NEW log \in Seq(Nat), Ordered(log)
    PROVE  Max(Logged(log) \cup {0}) \in Logged(log) \cup {0}
<1> DEFINE S == Logged(log) \cup {0}
<1>1. CASE log = << >>
  BY <1>1 DEF Max, Logged
<1>2. CASE log # << >>
  <2> DEFINE n == Len(log)
  <2>1. n \in Nat \ {0} /\ DOMAIN log = 1..n /\ \A k \in 1..n : log[k] \in Nat
    BY <1>2
  <2>2. \A k \in 1..n : log[n] >= log[k]
    BY <2>1 DEF Ordered
  <2>3. log[n] \in S /\ \A y \in S : log[n] >= y
    BY <2>1, <2>2 DEF Logged
  <2> QED
    BY <2>3 DEF Max
<1> QED
  BY <1>1, <1>2

\* A larger version at the end keeps a log in order.
LEMMA AppendOrdered ==
    ASSUME NEW log \in Seq(Nat), NEW v \in Nat, Ordered(log), \A u \in Logged(log) : u < v
    PROVE  /\ Append(log, v) \in Seq(Nat)
           /\ Ordered(Append(log, v))
           /\ Logged(Append(log, v)) = Logged(log) \cup {v}
<1> DEFINE n == Len(log)
           longer == Append(log, v)
<1>1. /\ n \in Nat /\ DOMAIN log = 1..n /\ longer \in Seq(Nat) /\ DOMAIN longer = 1..(n + 1)
      /\ longer[n + 1] = v /\ \A k \in 1..n : longer[k] = log[k] /\ log[k] \in Nat
  OBVIOUS
<1>2. \A k \in 1..n : log[k] < v
  BY <1>1 DEF Logged
<1>3. Ordered(longer)
  BY <1>1, <1>2 DEF Ordered
<1>4. Logged(longer) = Logged(log) \cup {v}
  <2>1. \A k \in 1..(n + 1) : k \in 1..n \/ k = n + 1
    BY <1>1
  <2>2. \A k \in 1..n : k \in 1..(n + 1)
    BY <1>1
  <2>3. n + 1 \in 1..(n + 1)
    BY <1>1
  <2> QED
    BY <1>1, <2>1, <2>2, <2>3 DEF Logged
<1> QED
  BY <1>1, <1>3, <1>4

-----------------------------------------------------------------------------
(* The inductive invariant *)

\* Every version any build has below v is recorded.
LowerRecorded(s, v) ==
    \A r \in Runners : \A w \in Versions[r][s] : w < v => w \in recorded[s]

\* The log of a schema is in order, tells what is recorded, and has no gaps.
SchemaFits(s) ==
    /\ Ordered(effects[s])
    /\ recorded[s] = Logged(effects[s])
    /\ \A v \in recorded[s] : LowerRecorded(s, v)

\* A runner has left nothing out in the schemas behind it, has seen a recorded
\* version where it is, and holds the key of the one version that is next.
RunnerFits(r) ==
    /\ migrator[r].pc \in {"version", "up", "commit"} => migrator[r].at <= Len(Schemas)
    /\ RunnerAt(r, "done") => migrator[r].at > Len(Schemas)
    /\ \A k \in DOMAIN Schemas :
          k < migrator[r].at => Versions[r][Schemas[k]] \subseteq recorded[Schemas[k]]
    /\ RunnerAt(r, "up") => migrator[r].current \in recorded[Here(r)] \cup {0}
    /\ migrator[r].tx # 0 <=> RunnerAt(r, "commit")
    /\ RunnerAt(r, "commit") =>
          /\ migrator[r].tx \in Versions[r][Here(r)]
          /\ migrator[r].tx \notin recorded[Here(r)]
          /\ LowerRecorded(Here(r), migrator[r].tx)

\* No two runners have a version of one schema in flight.
OneInFlight ==
    \A r, other \in Runners :
        r # other /\ RunnerAt(r, "commit") /\ RunnerAt(other, "commit")
            => migrator[r].at # migrator[other].at

MigrationInv ==
    /\ MigrationTypeOK
    /\ \A s \in SchemaSet : SchemaFits(s)
    /\ \A r \in Runners : RunnerFits(r)
    /\ OneInFlight

-----------------------------------------------------------------------------
(* One step of one runner *)

\* What the types say of one runner.
LEMMA RunnerType ==
    ASSUME MigrationTypeOK, NEW r \in Runners
    PROVE  /\ migrator[r] \in Invocation
           /\ Len(Schemas) \in Nat /\ DOMAIN Schemas = 1..Len(Schemas)
           /\ migrator[r].at <= Len(Schemas) => Here(r) \in SchemaSet
<1>1. Len(Schemas) \in Nat /\ DOMAIN Schemas = 1..Len(Schemas)
  BY RunnerAssumption
<1>2. migrator[r] \in Invocation
  BY DEF MigrationTypeOK
<1> QED
  BY <1>1, <1>2 DEF Invocation, Here, SchemaSet

\* A runner that moves without committing disturbs no other: it is enough that
\* it still fits and that nobody else has a version of its schema in flight.
LEMMA RunnerMoves ==
    ASSUME MigrationInv, NEW r \in Runners,
           recorded' = recorded, effects' = effects, kills' \in 0..MaxKills,
           NEW m \in Invocation,
           migrator' = [migrator EXCEPT ![r] = m],
           RunnerFits(r)',
           \A other \in Runners \ {r} :
               m.pc = "commit" /\ RunnerAt(other, "commit") => migrator[other].at # m.at
    PROVE  MigrationInv'
<1>1. migrator'[r] = m /\ \A other \in Runners \ {r} : migrator'[other] = migrator[other]
  BY DEF MigrationInv, MigrationTypeOK
<1>2. MigrationTypeOK'
  BY DEF MigrationInv, MigrationTypeOK
<1>3. \A s \in SchemaSet : SchemaFits(s)'
  BY DEF MigrationInv, SchemaFits, LowerRecorded
<1>4. \A other \in Runners : RunnerFits(other)'
  <2> SUFFICES ASSUME NEW other \in Runners \ {r} PROVE RunnerFits(other)'
    OBVIOUS
  <2> QED
    BY <1>1 DEF MigrationInv, RunnerFits, RunnerAt, Here, LowerRecorded
<1>5. OneInFlight'
  BY <1>1 DEF MigrationInv, OneInFlight, RunnerAt
<1> QED
  BY <1>2, <1>3, <1>4, <1>5 DEF MigrationInv

\* The first statements of a schema, and the end of the command.
LEMMA EnsureStep ==
    ASSUME MigrationInv, NEW r \in Runners, ensureSchema(r)
    PROVE  MigrationInv'
<1> DEFINE m == [migrator[r] EXCEPT !.pc = IF migrator[r].at > Len(Schemas) THEN "done" ELSE "version"]
<1>1. migrator[r] \in Invocation
      /\ Len(Schemas) \in Nat
  BY RunnerType DEF MigrationInv
<1>2. m \in Invocation
  BY <1>1 DEF Invocation
<1>3. migrator' = [migrator EXCEPT ![r] = m]
  BY DEF ensureSchema, Move, MigrationInv, MigrationTypeOK
<1>4. RunnerFits(r)'
  BY <1>1, <1>3 DEF Invocation, ensureSchema, MigrationInv, MigrationTypeOK, RunnerFits, RunnerAt, Here, LowerRecorded
<1>5. m.pc # "commit" /\ kills' \in 0..MaxKills /\ recorded' = recorded /\ effects' = effects
  BY <1>1 DEF ensureSchema, MigrationInv, MigrationTypeOK
<1> QED
  BY <1>2, <1>3, <1>4, <1>5, RunnerMoves

\* The highest recorded version is read outside any transaction.
LEMMA VersionStep ==
    ASSUME MigrationInv, NEW r \in Runners, currentVersion(r)
    PROVE  MigrationInv'
<1> DEFINE top == Max(recorded[Here(r)] \cup {0})
           m == [migrator[r] EXCEPT !.pc = "up", !.current = top]
<1>1. migrator[r] \in Invocation
      /\ Len(Schemas) \in Nat
      /\ migrator[r].at <= Len(Schemas) /\ Here(r) \in SchemaSet
  BY RunnerType DEF MigrationInv, currentVersion, RunnerAt, RunnerFits
<1>2. top \in recorded[Here(r)] \cup {0} /\ top \in Nat
  <2>1. SchemaFits(Here(r)) /\ effects[Here(r)] \in Seq(Nat) /\ recorded[Here(r)] \in SUBSET Nat
    BY <1>1 DEF MigrationInv, MigrationTypeOK
  <2> QED
    BY <2>1, MaxOfLog DEF SchemaFits
<1>3. m \in Invocation
  BY <1>1, <1>2 DEF Invocation
<1>4. migrator' = [migrator EXCEPT ![r] = m]
  BY DEF currentVersion, MigrationInv, MigrationTypeOK
<1>5. RunnerFits(r)'
  BY <1>1, <1>2, <1>4
     DEF Invocation, currentVersion, MigrationInv, MigrationTypeOK, RunnerFits, RunnerAt, Here, LowerRecorded
<1>6. m.pc # "commit" /\ kills' \in 0..MaxKills /\ recorded' = recorded /\ effects' = effects
  BY <1>1 DEF currentVersion, MigrationInv, MigrationTypeOK
<1> QED
  BY <1>3, <1>4, <1>5, <1>6, RunnerMoves

\* The next version runs in a transaction, unless its key is taken.
LEMMA ApplyStep ==
    ASSUME MigrationInv, NEW r \in Runners, applyMigration(r)
    PROVE  MigrationInv'
<1> DEFINE v == Min(Pending(r))
           s == Here(r)
<1>1. migrator[r] \in Invocation /\ Len(Schemas) \in Nat
      /\ migrator[r].at <= Len(Schemas) /\ s \in SchemaSet
  BY RunnerType DEF MigrationInv, applyMigration, RunnerAt, RunnerFits
<1>2. v \in Pending(r) /\ \A w \in Pending(r) : v <= w
  <2>1. Pending(r) \in SUBSET Nat /\ Pending(r) # {}
    BY <1>1, RunnerAssumption DEF Pending, applyMigration
  <2> QED
    BY <2>1, MinOfNaturals
<1>3. v \in Versions[r][s] /\ v \in Nat \ {0} /\ v > migrator[r].current
  BY <1>1, <1>2, RunnerAssumption DEF Pending
<1>4. kills' \in 0..MaxKills /\ recorded' = recorded /\ effects' = effects
  BY DEF applyMigration, MigrationInv, MigrationTypeOK
<1>5. CASE v \in recorded[s]
  <2> DEFINE m == [migrator[r] EXCEPT !.pc = "failed"]
  <2>1. m \in Invocation /\ m.pc # "commit"
    BY <1>1 DEF Invocation
  <2>2. migrator' = [migrator EXCEPT ![r] = m]
    BY <1>5 DEF applyMigration, Move, MigrationInv, MigrationTypeOK
  <2>3. RunnerFits(r)'
    BY <1>1, <1>4, <2>2
       DEF Invocation, applyMigration, MigrationInv, MigrationTypeOK, RunnerFits, RunnerAt, Here, LowerRecorded
  <2> QED
    BY <1>4, <2>1, <2>2, <2>3, RunnerMoves
<1>6. CASE v \notin recorded[s]
  <2> DEFINE m == [migrator[r] EXCEPT !.pc = "commit", !.tx = v]
  <2>1. m \in Invocation /\ m.pc = "commit" /\ m.tx = v /\ m.at = migrator[r].at
    BY <1>1, <1>3 DEF Invocation
  <2>2. migrator' = [migrator EXCEPT ![r] = m]
    BY <1>6 DEF applyMigration, MigrationInv, MigrationTypeOK
  <2>3. SchemaFits(s) /\ recorded[s] \in SUBSET Nat
        /\ migrator[r].current \in recorded[s] \cup {0} /\ migrator[r].current \in Nat
    BY <1>1 DEF MigrationInv, MigrationTypeOK, applyMigration, RunnerFits, RunnerAt, Invocation
  \* What the runner does not have left, it or another has recorded.
  <2>4. ASSUME NEW w \in Versions[r][s], w <= migrator[r].current PROVE w \in recorded[s]
    BY <1>1, <2>3, <2>4, RunnerAssumption DEF SchemaFits, LowerRecorded
  <2>5. LowerRecorded(s, v)
    <3> SUFFICES ASSUME NEW other \in Runners, NEW w \in Versions[other][s], w < v
                 PROVE  w \in recorded[s]
      BY DEF LowerRecorded
    <3>1. w \in Versions[r][s] /\ w \in Nat
      BY <1>1, <1>3, ReleaseAssumption, RunnerAssumption
    <3>2. w \notin Pending(r)
      BY <1>2, <1>3, <3>1 DEF Pending
    <3> QED
      BY <2>3, <2>4, <3>1, <3>2 DEF Pending
  <2>6. RunnerFits(r)'
    BY <1>1, <1>3, <1>4, <1>6, <2>1, <2>2, <2>5
       DEF MigrationInv, MigrationTypeOK, RunnerFits, RunnerAt, Here, LowerRecorded
  <2>7. ASSUME NEW other \in Runners \ {r}, RunnerAt(other, "commit"),
               migrator[other].at = migrator[r].at
        PROVE  FALSE
    <3> DEFINE u == migrator[other].tx
    <3>1. /\ u \in Versions[other][s] /\ u \notin recorded[s] /\ LowerRecorded(s, u)
          /\ u \in Nat \ {0}
      BY <1>1, <2>7, RunnerAssumption DEF MigrationInv, RunnerFits, Here
    <3>2. u # v
      BY <1>6, <2>7 DEF applyMigration, Blocked
    <3>3. CASE v < u
      BY <1>3, <1>6, <3>1, <3>3 DEF LowerRecorded
    <3>4. CASE u < v
      BY <2>5, <3>1, <3>4 DEF LowerRecorded
    <3> QED
      BY <1>3, <3>1, <3>2, <3>3, <3>4
  <2> QED
    BY <1>4, <2>1, <2>2, <2>6, <2>7, RunnerMoves
<1> QED
  BY <1>5, <1>6

\* A commit records the version every build has next, and nothing below it.
LEMMA CommitStep ==
    ASSUME MigrationInv, NEW r \in Runners, commitMigration(r)
    PROVE  MigrationInv'
<1> DEFINE v == migrator[r].tx
           s == Here(r)
           m == [migrator[r] EXCEPT !.pc = "up", !.current = v, !.tx = 0]
<1>1. /\ migrator[r] \in Invocation /\ Len(Schemas) \in Nat /\ DOMAIN Schemas = 1..Len(Schemas)
      /\ migrator[r].at <= Len(Schemas) /\ s \in SchemaSet
  BY RunnerType DEF MigrationInv, commitMigration, RunnerAt, RunnerFits
<1>2. /\ v \in Versions[r][s] /\ v \in Nat \ {0}
      /\ v \notin recorded[s] /\ LowerRecorded(s, v)
  BY <1>1, RunnerAssumption DEF MigrationInv, RunnerFits, commitMigration, RunnerAt
<1>3. /\ effects \in [SchemaSet -> Seq(Nat)] /\ recorded \in [SchemaSet -> SUBSET Nat]
      /\ migrator \in [Runners -> Invocation] /\ SchemaFits(s)
  BY <1>1 DEF MigrationInv, MigrationTypeOK
<1>4. \A u \in recorded[s] : u < v
  <2> SUFFICES ASSUME NEW u \in recorded[s] PROVE u < v
    OBVIOUS
  <2>1. u \in Nat /\ LowerRecorded(s, u)
    BY <1>1, <1>3 DEF SchemaFits
  <2>2. ~(v < u)
    BY <1>2, <2>1 DEF LowerRecorded
  <2> QED
    BY <1>2, <2>1, <2>2
<1>5. /\ Append(effects[s], v) \in Seq(Nat)
      /\ Ordered(Append(effects[s], v))
      /\ Logged(Append(effects[s], v)) = recorded[s] \cup {v}
  BY <1>1, <1>2, <1>3, <1>4, AppendOrdered DEF SchemaFits
<1>6. /\ m \in Invocation /\ m.at = migrator[r].at /\ m.pc = "up" /\ m.current = v /\ m.tx = 0
      /\ migrator' = [migrator EXCEPT ![r] = m]
  BY <1>1, <1>2, <1>3 DEF commitMigration, Invocation
<1>7. /\ recorded'[s] = recorded[s] \cup {v} /\ effects'[s] = Append(effects[s], v)
      /\ \A t \in SchemaSet \ {s} : recorded'[t] = recorded[t] /\ effects'[t] = effects[t]
  BY <1>1, <1>3 DEF commitMigration
<1>8. MigrationTypeOK'
  <2>1. effects' \in [SchemaSet -> Seq(Nat)] /\ recorded' \in [SchemaSet -> SUBSET Nat]
    BY <1>1, <1>2, <1>3, <1>5 DEF commitMigration
  <2> QED
    BY <1>3, <1>6, <2>1 DEF MigrationInv, MigrationTypeOK, commitMigration
<1>9. \A t \in SchemaSet : SchemaFits(t)'
  <2> SUFFICES ASSUME NEW t \in SchemaSet PROVE SchemaFits(t)'
    OBVIOUS
  <2>1. CASE t = s
    BY <1>2, <1>3, <1>5, <1>7, <2>1 DEF SchemaFits, LowerRecorded
  <2>2. CASE t # s
    BY <1>7, <2>2 DEF MigrationInv, SchemaFits, LowerRecorded
  <2> QED
    BY <2>1, <2>2
<1>10. \A t \in SchemaSet : recorded[t] \subseteq recorded'[t]
  BY <1>7
<1>11. \A other \in Runners : RunnerFits(other)'
  <2> SUFFICES ASSUME NEW other \in Runners PROVE RunnerFits(other)'
    OBVIOUS
  <2>1. RunnerFits(other)
    BY DEF MigrationInv
  <2>2. \A k \in DOMAIN Schemas : k < migrator[other].at =>
            Versions[other][Schemas[k]] \subseteq recorded'[Schemas[k]]
    BY <1>10, <2>1 DEF RunnerFits, SchemaSet
  <2>3. CASE other = r
    <3>1. migrator'[r] = m /\ migrator[r].at \in Nat
      BY <1>1, <1>3, <1>6 DEF Invocation
    <3>2. Here(r)' = s /\ v \in recorded'[s]
      BY <1>6, <1>7, <3>1 DEF Here
    <3> QED
      BY <1>1, <1>2, <1>6, <2>2, <2>3, <3>1, <3>2 DEF RunnerFits, RunnerAt
  <2>4. CASE other # r
    <3>1. migrator'[other] = migrator[other]
      BY <1>3, <1>6, <2>4
    <3>2. migrator[other] \in Invocation
      BY <1>3
    <3>3. CASE RunnerAt(other, "commit")
      \* It is at another schema, where nothing has changed.
      <4>1. migrator[other].at <= Len(Schemas) /\ Here(other) \in SchemaSet
        BY <2>1, <3>3, RunnerType DEF MigrationInv, RunnerFits, RunnerAt
      <4>2. migrator[other].at # migrator[r].at
        BY <2>4, <3>3 DEF MigrationInv, OneInFlight, commitMigration
      <4>3. Here(other) # s
        BY <1>1, <3>2, <4>1, <4>2, RunnerAssumption DEF Here, Invocation
      <4>4. recorded'[Here(other)] = recorded[Here(other)]
        BY <1>7, <4>1, <4>3
      <4> QED
        BY <2>1, <2>2, <3>1, <3>3, <4>4, <1>10, <4>1
           DEF RunnerFits, RunnerAt, Here, LowerRecorded
    <3>4. CASE ~RunnerAt(other, "commit")
      <4>1. RunnerAt(other, "up") => Here(other) \in SchemaSet
        BY <2>1, RunnerType DEF MigrationInv, RunnerFits, RunnerAt
      <4> QED
        BY <1>10, <2>1, <2>2, <3>1, <3>4, <4>1 DEF RunnerFits, RunnerAt, Here
    <3> QED
      BY <3>3, <3>4
  <2> QED
    BY <2>3, <2>4
<1>12. OneInFlight'
  BY <1>3, <1>6 DEF MigrationInv, OneInFlight, RunnerAt
<1> QED
  BY <1>8, <1>9, <1>11, <1>12 DEF MigrationInv

\* A schema is left when nothing in it is above what was read.
LEMMA NextSchemaStep ==
    ASSUME MigrationInv, NEW r \in Runners, nextSchema(r)
    PROVE  MigrationInv'
<1> DEFINE s == Here(r)
           m == [migrator[r] EXCEPT !.pc = "start", !.at = @ + 1]
<1>1. /\ migrator[r] \in Invocation /\ Len(Schemas) \in Nat /\ DOMAIN Schemas = 1..Len(Schemas)
      /\ migrator[r].at <= Len(Schemas) /\ s \in SchemaSet
  BY RunnerType DEF MigrationInv, nextSchema, RunnerAt, RunnerFits
<1>2. Versions[r][s] \subseteq recorded[s]
  <2>1. SchemaFits(s) /\ recorded[s] \in SUBSET Nat
        /\ migrator[r].current \in recorded[s] \cup {0} /\ migrator[r].current \in Nat
    BY <1>1 DEF MigrationInv, MigrationTypeOK, nextSchema, RunnerFits, RunnerAt, Invocation
  <2> SUFFICES ASSUME NEW w \in Versions[r][s] PROVE w \in recorded[s]
    OBVIOUS
  <2>2. w \in Nat \ {0} /\ ~(w > migrator[r].current)
    BY <1>1, RunnerAssumption DEF nextSchema, Pending
  <2> QED
    BY <2>1, <2>2 DEF SchemaFits, LowerRecorded
<1>3. /\ m \in Invocation /\ m.pc = "start" /\ m.at = migrator[r].at + 1 /\ m.tx = migrator[r].tx
      /\ migrator' = [migrator EXCEPT ![r] = m]
  <2>1. migrator[r].at + 1 \in 1..(Len(Schemas) + 1)
    BY <1>1 DEF Invocation
  <2>2. m \in Invocation /\ m.pc = "start" /\ m.at = migrator[r].at + 1 /\ m.tx = migrator[r].tx
    BY <1>1, <2>1 DEF Invocation
  <2>3. migrator' = [migrator EXCEPT ![r] = m]
    BY DEF nextSchema, MigrationInv, MigrationTypeOK
  <2> QED
    BY <2>2, <2>3
<1>4. kills' \in 0..MaxKills /\ recorded' = recorded /\ effects' = effects
  BY DEF nextSchema, MigrationInv, MigrationTypeOK
<1>5. \A k \in DOMAIN Schemas : k < m.at => Versions[r][Schemas[k]] \subseteq recorded[Schemas[k]]
  <2> SUFFICES ASSUME NEW k \in DOMAIN Schemas, k < m.at
               PROVE  Versions[r][Schemas[k]] \subseteq recorded[Schemas[k]]
    OBVIOUS
  <2>1. CASE k = migrator[r].at
    BY <1>2, <2>1 DEF Here
  <2>2. CASE k < migrator[r].at
    BY <2>2 DEF MigrationInv, RunnerFits
  <2> QED
    BY <1>1, <1>3, <2>1, <2>2 DEF Invocation
<1>6. RunnerFits(r)'
  BY <1>3, <1>4, <1>5 DEF nextSchema, MigrationInv, MigrationTypeOK, RunnerFits, RunnerAt, Here
<1> QED
  BY <1>3, <1>4, <1>6, RunnerMoves

\* What a killed runner had not committed is gone.
LEMMA DieStep ==
    ASSUME MigrationInv, NEW r \in Runners, die(r)
    PROVE  MigrationInv'
<1> DEFINE m == [migrator[r] EXCEPT !.pc = "failed", !.tx = 0]
<1>1. migrator[r] \in Invocation
  BY RunnerType DEF MigrationInv
<1>2. /\ m \in Invocation /\ m.pc = "failed" /\ m.at = migrator[r].at /\ m.tx = 0
      /\ migrator' = [migrator EXCEPT ![r] = m]
  BY <1>1 DEF die, Invocation, MigrationInv, MigrationTypeOK
<1>3. kills' \in 0..MaxKills /\ recorded' = recorded /\ effects' = effects
  BY RunnerAssumption DEF die, MigrationInv, MigrationTypeOK
<1>4. RunnerFits(r)'
  BY <1>2, <1>3 DEF MigrationInv, MigrationTypeOK, RunnerFits, RunnerAt, Here
<1> QED
  BY <1>2, <1>3, <1>4, RunnerMoves

\* A command that is run again starts at the first schema.
LEMMA RerunStep ==
    ASSUME MigrationInv, NEW r \in Runners, rerun(r)
    PROVE  MigrationInv'
<1>1. Len(Schemas) \in Nat /\ DOMAIN Schemas = 1..Len(Schemas)
  BY RunnerType DEF MigrationInv
<1>2. /\ FreshRunner \in Invocation /\ FreshRunner.pc = "start"
      /\ FreshRunner.at = 1 /\ FreshRunner.tx = 0
  BY <1>1 DEF FreshRunner, Invocation
<1>3. kills' \in 0..MaxKills /\ recorded' = recorded /\ effects' = effects
      /\ migrator' = [migrator EXCEPT ![r] = FreshRunner]
  BY DEF rerun, MigrationInv, MigrationTypeOK
<1>4. RunnerFits(r)'
  BY <1>1, <1>2, <1>3 DEF MigrationInv, MigrationTypeOK, RunnerFits, RunnerAt, Here
<1> QED
  BY <1>2, <1>3, <1>4, RunnerMoves

-----------------------------------------------------------------------------
\* An empty database satisfies the invariant.
LEMMA MigrationInitInv == MigrationInit => MigrationInv
<1> SUFFICES ASSUME MigrationInit PROVE MigrationInv
  OBVIOUS
<1>1. Len(Schemas) \in Nat /\ DOMAIN Schemas = 1..Len(Schemas)
  BY RunnerAssumption
<1>2. /\ FreshRunner \in Invocation /\ FreshRunner.pc = "start"
      /\ FreshRunner.at = 1 /\ FreshRunner.tx = 0
  BY <1>1 DEF FreshRunner, Invocation
<1>3. MigrationTypeOK
  BY <1>2, RunnerAssumption DEF MigrationInit, MigrationTypeOK
<1>4. \A s \in SchemaSet : SchemaFits(s)
  BY DEF MigrationInit, SchemaFits, Ordered, Logged
<1>5. \A r \in Runners : migrator[r] = FreshRunner
  BY DEF MigrationInit
<1>6. \A r \in Runners : RunnerFits(r)
  BY <1>1, <1>2, <1>5 DEF RunnerFits, RunnerAt
<1>7. OneInFlight
  BY <1>2, <1>5 DEF OneInFlight, RunnerAt
<1> QED
  BY <1>3, <1>4, <1>6, <1>7 DEF MigrationInv

\* Every statement of every runner keeps it.
LEMMA MigrationStepInv == MigrationInv /\ [MigrationNext]_migrationVars => MigrationInv'
<1> SUFFICES ASSUME MigrationInv, [MigrationNext]_migrationVars PROVE MigrationInv'
  OBVIOUS
<1>1. ASSUME NEW r \in Runners,
             \/ ensureSchema(r) \/ currentVersion(r) \/ applyMigration(r) \/ commitMigration(r)
             \/ nextSchema(r) \/ die(r) \/ rerun(r)
      PROVE  MigrationInv'
  BY <1>1, EnsureStep, VersionStep, ApplyStep, CommitStep, NextSchemaStep, DieStep, RerunStep
<1>2. CASE UNCHANGED migrationVars
  BY <1>2 DEF migrationVars, MigrationInv, MigrationTypeOK, SchemaFits, LowerRecorded,
              RunnerFits, RunnerAt, Here, OneInFlight
<1> QED
  BY <1>1, <1>2 DEF MigrationNext

\* Any number of runners of any releases, killed anywhere and run again, apply
\* every version once and in order, record exactly what they applied, and leave
\* nothing out when they report success (Runner.Up and Runner.apply in
\* migration/runner.go).
THEOREM MigrationsCorrect == MigrationSpec => []AppliedInOrder
<1>1. MigrationInv => AppliedInOrder
  <2> SUFFICES ASSUME MigrationInv PROVE AppliedInOrder
    OBVIOUS
  <2>1. ASSUME NEW r \in Runners, RunnerAt(r, "done"), NEW s \in SchemaSet
        PROVE  Versions[r][s] \subseteq recorded[s]
    <3>1. PICK k \in DOMAIN Schemas : s = Schemas[k]
      BY DEF SchemaSet
    <3>2. k < migrator[r].at
      BY <2>1, <3>1, RunnerType DEF MigrationInv, RunnerFits, Invocation
    <3> QED
      BY <3>1, <3>2 DEF MigrationInv, RunnerFits
  <2> QED
    BY <2>1 DEF MigrationInv, SchemaFits, Ordered, Logged, AppliedInOrder
<1> QED
  BY <1>1, MigrationInitInv, MigrationStepInv, PTL DEF MigrationSpec

-----------------------------------------------------------------------------
(* The facade.  The inductive invariant says of each client where its         *)
(* payload stands, and what was run for the requests before, at and behind    *)
(* the current one.                                                           *)

CallFields == {"phase", "todo", "sent", "of", "op", "args", "held", "again",
               "answers", "detail"}

Underway == {"scope", "build", "sent", "ran", "initialize"}
Phases == {"idle", "next"} \union Underway

Outcomes == {"none", "success", "unread", "refused", "retired", "failed", "unavailable"}
NotRun == {"refused", "retired", "failed"}

Answers == [to : Nat, is : Outcomes]

\* The number of the request the call is at; one past the last at the end.
At(k) == Len(k.of) - Len(k.todo) + 1

\* An answer to an earlier request, true to what was run for it.
AnswerTrue(a, k, r) ==
    /\ a.to \in 1..(At(k) - 1)
    /\ a.is \in {"success", "unread"} => r[a.to] = 1
    /\ a.is \in NotRun => r[a.to] = 0
    /\ a.is = "unread" => k.of[a.to].tool \in ReadOperations

AnswersTrue(k, r) == \A n \in 1..Len(k.answers) : AnswerTrue(k.answers[n], k, r)

CallTyped(c, k, r) ==
    /\ DOMAIN k = CallFields
    /\ k.phase \in Phases
    /\ k.of \in Seq(ClientRequests(c)) /\ k.todo \in Seq(ClientRequests(c))
    /\ k.answers \in Seq(Answers)
    /\ Len(k.todo) <= Len(k.of) /\ Len(k.answers) <= Len(k.of) - Len(k.todo)
    /\ r \in [1..Len(k.of) -> {0, 1}]

\* Nothing was run for a notification, for the requests that wait, and for the
\* current one until the backend carries it out.
RunsFit(k, r) ==
    \A i \in 1..Len(k.of) :
        /\ ~k.of[i].id => r[i] = 0
        /\ i > At(k) => r[i] = 0
        /\ i = At(k) => r[i] = IF k.phase = "ran" THEN 1 ELSE 0

\* The call underway has an id, and is of its tool or follows a reference.
OperationFits(k) ==
    /\ k.phase \in Underway =>
          /\ k.todo # << >>
          /\ k.of[At(k)].id
          /\ ~k.detail => k.op = k.of[At(k)].tool
    /\ k.detail => k.phase \in Underway /\ k.op \in DetailTools

CallFits(c, k, r) ==
    CallTyped(c, k, r) /\ RunsFit(k, r) /\ OperationFits(k) /\ AnswersTrue(k, r)

CallsFit ==
    /\ DOMAIN caller = Callers /\ DOMAIN ran = Callers
    /\ \A c \in Callers : CallFits(c, caller[c], ran[c])

SessionsFit ==
    /\ opened \in Nat /\ live \subseteq 1..opened /\ session \in 0..opened
    /\ boot \in Nat /\ restarts \in Nat /\ boot <= restarts /\ restarts <= MaxRestarts
    /\ clock \in 0..MaxClock

McpInv == CallsFit /\ SessionsFit

-----------------------------------------------------------------------------
\* The tools with a detail reference only read.
LEMMA DetailsAreReads ==
    DetailTools \subseteq ReadOperations /\ DOMAIN DetailArgumentAllowed = DetailTools
<1>1. DetailTools \subseteq ReadOperations
  BY DEF DetailTools, ReadOperations, SummaryReads
<1>2. DOMAIN DetailArgumentAllowed = DetailTools
  BY DEF DetailArgumentAllowed
<1> QED
  BY <1>1, <1>2

\* The record after an answer.
AnswerFields(k, what, m) ==
    /\ DOMAIN m = CallFields
    /\ m.phase = "next" /\ m.todo = Tail(k.todo) /\ m.of = k.of /\ m.detail = FALSE
    /\ m.answers = IF k.of[At(k)].id
                   THEN Append(k.answers, [to |-> At(k), is |-> what]) ELSE k.answers

LEMMA AnswerIs ==
    ASSUME NEW k, NEW what, DOMAIN k = CallFields
    PROVE  AnswerFields(k, what, AnswerGiven(k, At(k), what))
  BY DEF CallFields, AnswerGiven, AnswerFields

\* A call gives its answer and goes on to the next request.
LEMMA AnswerFits ==
    ASSUME NEW c, NEW k, NEW r, NEW m, NEW what \in Outcomes,
           CallFits(c, k, r), k.phase # "idle", k.todo # << >>,
           AnswerFields(k, what, m),
           what \in {"success", "unread"} => k.phase = "ran",
           what \in NotRun => k.phase # "ran",
           what = "unread" => k.of[At(k)].tool \in ReadOperations
    PROVE  CallFits(c, m, r)
<1> DEFINE Q == ClientRequests(c)
<1> HIDE DEF Q
<1>0. /\ k.of \in Seq(Q) /\ k.todo \in Seq(Q) /\ k.answers \in Seq(Answers)
      /\ Len(k.todo) <= Len(k.of) /\ Len(k.answers) <= Len(k.of) - Len(k.todo)
      /\ r \in [1..Len(k.of) -> {0, 1}]
  BY DEF CallFits, CallTyped, Q
<1>1. /\ m.todo \in Seq(Q) /\ Len(m.todo) = Len(k.todo) - 1 /\ m.of = k.of
      /\ Len(k.todo) \in Nat /\ Len(k.of) \in Nat /\ Len(k.todo) # 0 /\ Len(k.answers) \in Nat
  BY <1>0 DEF AnswerFields
<1>2. At(m) = At(k) + 1 /\ At(k) \in 1..Len(k.of)
  <2>1. PICK x \in Nat : x = Len(k.todo)
    BY <1>1
  <2>2. PICK y \in Nat : y = Len(k.of)
    BY <1>1
  <2>3. x # 0 /\ x <= y /\ Len(m.todo) = x - 1 /\ Len(m.of) = y
    BY <1>0, <1>1, <2>1, <2>2
  <2>4. At(m) = y - (x - 1) + 1 /\ At(k) = y - x + 1
    BY <2>1, <2>2, <2>3 DEF At
  <2> QED
    BY <2>2, <2>3, <2>4
<1>3. [to |-> At(k), is |-> what] \in Answers
  BY <1>2, <1>1 DEF Answers
<1>4. /\ m.answers \in Seq(Answers) /\ Len(m.answers) <= Len(k.answers) + 1
      /\ \A n \in 1..Len(m.answers) :
            \/ n \in 1..Len(k.answers) /\ m.answers[n] = k.answers[n]
            \/ m.answers[n] = [to |-> At(k), is |-> what]
  <2>1. CASE m.answers = k.answers
    BY <2>1, <1>0, <1>1
  <2>2. CASE m.answers = Append(k.answers, [to |-> At(k), is |-> what])
    <3> DEFINE a == [to |-> At(k), is |-> what]
    <3>1. a \in Answers /\ m.answers = Append(k.answers, a)
      BY <1>3, <2>2
    <3> HIDE DEF a
    <3>2. /\ m.answers \in Seq(Answers) /\ Len(m.answers) = Len(k.answers) + 1
          /\ \A n \in 1..Len(m.answers) :
                \/ n \in 1..Len(k.answers) /\ m.answers[n] = k.answers[n]
                \/ m.answers[n] = a
      BY <3>1, <1>0, <1>1
    <3> QED
      BY <3>2, <1>1 DEF a
  <2> QED
    BY <2>1, <2>2 DEF AnswerFields
<1>5. CallTyped(c, m, r)
  <2>1. DOMAIN m = CallFields /\ m.phase \in Phases
    BY DEF AnswerFields, Phases
  <2>2. Len(m.todo) <= Len(m.of) /\ Len(m.answers) <= Len(m.of) - Len(m.todo)
    <3>1. \A x, y, z, u, v \in Nat :
                (x # 0 /\ x <= y /\ z = x - 1 /\ u <= y - x /\ v <= u + 1)
                    => z <= y /\ v <= y - z
      OBVIOUS
    <3>2. Len(m.of) = Len(k.of) /\ Len(m.todo) \in Nat /\ Len(m.answers) \in Nat
      BY <1>1, <1>4
    <3>3. /\ Len(k.todo) # 0 /\ Len(k.todo) <= Len(k.of) /\ Len(m.todo) = Len(k.todo) - 1
          /\ Len(k.answers) <= Len(k.of) - Len(k.todo) /\ Len(m.answers) <= Len(k.answers) + 1
          /\ Len(k.todo) \in Nat /\ Len(k.of) \in Nat /\ Len(k.answers) \in Nat
      BY <1>0, <1>1, <1>4
    <3> QED
      BY <3>1, <3>2, <3>3
  <2> QED
    BY <2>1, <2>2, <1>0, <1>1, <1>4 DEF CallTyped, Q
<1>6. RunsFit(m, r)
  <2> SUFFICES ASSUME NEW i \in 1..Len(k.of)
               PROVE  /\ ~k.of[i].id => r[i] = 0
                      /\ i > At(m) => r[i] = 0
                      /\ i = At(m) => r[i] = IF m.phase = "ran" THEN 1 ELSE 0
    BY <1>1 DEF RunsFit
  <2>1. (~k.of[i].id => r[i] = 0) /\ (i > At(k) => r[i] = 0)
    BY DEF CallFits, RunsFit
  <2>2. m.phase # "ran"
    BY DEF AnswerFields
  <2>3. i >= At(m) => i > At(k)
    BY <1>2
  <2> QED
    BY <2>1, <2>2, <2>3, <1>2
<1>7. OperationFits(m)
  BY DEF AnswerFields, OperationFits, Underway
<1>8. AnswersTrue(m, r)
  <2> SUFFICES ASSUME NEW n \in 1..Len(m.answers) PROVE AnswerTrue(m.answers[n], m, r)
    BY DEF AnswersTrue
  <2>1. CASE n \in 1..Len(k.answers) /\ m.answers[n] = k.answers[n]
    <3>1. AnswerTrue(k.answers[n], k, r)
      BY <2>1 DEF CallFits, AnswersTrue
    <3> QED
      BY <2>1, <3>1, <1>1, <1>2 DEF AnswerTrue
  <2>2. CASE m.answers[n] = [to |-> At(k), is |-> what]
    <3> DEFINE a == m.answers[n]
    <3>1. a.to = At(k) /\ a.is = what
      BY <2>2
    <3> HIDE DEF a
    <3>2. r[At(k)] = IF k.phase = "ran" THEN 1 ELSE 0
      BY <1>2 DEF CallFits, RunsFit
    <3>3. a.to \in 1..(At(m) - 1)
      BY <3>1, <1>2
    <3>4. AnswerTrue(a, m, r)
      BY <3>1, <3>2, <3>3, <1>1 DEF AnswerTrue
    <3> QED
      BY <3>4 DEF a
  <2> QED
    BY <2>1, <2>2, <1>4
<1> QED
  BY <1>5, <1>6, <1>7, <1>8 DEF CallFits

\* The call goes on: the record changes in where it stands, and perhaps in its
\* operation; nothing is run.
Moves(k, m) ==
    /\ DOMAIN m = CallFields
    /\ m.of = k.of /\ m.todo = k.todo /\ m.answers = k.answers

LEMMA MoveFits ==
    ASSUME NEW c, NEW k, NEW r, NEW m, CallFits(c, k, r), Moves(k, m),
           k.phase # "ran", m.phase \in Phases \ {"ran"}, OperationFits(m)
    PROVE  CallFits(c, m, r)
<1>1. At(m) = At(k)
  BY DEF Moves, At
<1>2. CallTyped(c, m, r)
  BY DEF CallFits, CallTyped, Moves
<1>3. RunsFit(m, r)
  BY <1>1 DEF CallFits, RunsFit, Moves
<1>4. AnswersTrue(m, r)
  <2> SUFFICES ASSUME NEW n \in 1..Len(k.answers) PROVE AnswerTrue(k.answers[n], m, r)
    BY DEF AnswersTrue, Moves
  <2>1. AnswerTrue(k.answers[n], k, r)
    BY DEF CallFits, AnswersTrue
  <2> QED
    BY <2>1, <1>1 DEF AnswerTrue, Moves
<1> QED
  BY <1>2, <1>3, <1>4 DEF CallFits

\* The backend carries the current request out, which has not been yet.
LEMMA RunFits ==
    ASSUME NEW c, NEW k, NEW r, NEW m, CallFits(c, k, r), Moves(k, m),
           k.phase = "sent", m.phase = "ran", m.op = k.op, m.detail = k.detail
    PROVE  CallFits(c, m, [r EXCEPT ![At(k)] = @ + 1])
<1> DEFINE p == [r EXCEPT ![At(k)] = @ + 1]
<1>1. At(m) = At(k)
  BY DEF Moves, At
<1>2. k.todo # << >> /\ k.of[At(k)].id /\ r \in [1..Len(k.of) -> {0, 1}]
  BY DEF CallFits, OperationFits, Underway, CallTyped
<1>3. At(k) \in 1..Len(k.of)
  <2>0. Len(k.todo) \in Nat /\ Len(k.todo) # 0 /\ Len(k.of) \in Nat /\ Len(k.todo) <= Len(k.of)
    BY <1>2 DEF CallFits, CallTyped
  <2>1. PICK x \in Nat : x = Len(k.todo)
    BY <2>0
  <2>2. PICK y \in Nat : y = Len(k.of)
    BY <2>0
  <2>3. At(k) = y - x + 1 /\ x # 0 /\ x <= y
    BY <2>0, <2>1, <2>2 DEF At
  <2> QED
    BY <2>2, <2>3
<1>4. r[At(k)] = 0
  BY <1>3 DEF CallFits, RunsFit
<1>5. /\ p \in [1..Len(k.of) -> {0, 1}] /\ p[At(k)] = 1
      /\ \A i \in 1..Len(k.of) : i # At(k) => p[i] = r[i]
  BY <1>2, <1>3, <1>4
<1> HIDE DEF p
<1>6. CallTyped(c, m, p)
  BY <1>5 DEF CallFits, CallTyped, Moves, Phases, Underway
<1>7. RunsFit(m, p)
  <2> SUFFICES ASSUME NEW i \in 1..Len(k.of)
               PROVE  /\ ~k.of[i].id => p[i] = 0
                      /\ i > At(k) => p[i] = 0
                      /\ i = At(k) => p[i] = 1
    BY <1>1 DEF RunsFit, Moves
  <2>1. (~k.of[i].id => r[i] = 0) /\ (i > At(k) => r[i] = 0)
    BY DEF CallFits, RunsFit
  <2>2. i = At(k) => ~(i > At(k))
    BY <1>3
  <2> QED
    BY <2>1, <2>2, <1>2, <1>5
<1>8. OperationFits(m)
  BY <1>1 DEF CallFits, OperationFits, Moves, Underway
<1>9. AnswersTrue(m, p)
  <2> SUFFICES ASSUME NEW n \in 1..Len(k.answers) PROVE AnswerTrue(k.answers[n], m, p)
    BY DEF AnswersTrue, Moves
  <2> DEFINE a == k.answers[n]
  <2> HIDE DEF a
  <2>1. AnswerTrue(a, k, r)
    BY DEF CallFits, AnswersTrue, a
  <2>2. a.to \in 1..Len(k.of) /\ a.to # At(k) /\ a.to \in 1..(At(k) - 1)
    BY <2>1, <1>3 DEF AnswerTrue
  <2>3. p[a.to] = r[a.to]
    BY <2>2, <1>5
  <2>4. AnswerTrue(a, m, p)
    BY <2>1, <2>2, <2>3, <1>1 DEF AnswerTrue, Moves
  <2> QED
    BY <2>4 DEF a
<1> QED
  BY <1>6, <1>7, <1>8, <1>9 DEF CallFits, p

\* A payload arrives at a client without one, or the facade starts.
PayloadFields(m, payload) ==
    /\ DOMAIN m = CallFields
    /\ m.phase \in {"idle", "next"} /\ m.todo = payload /\ m.of = payload
    /\ m.answers = << >> /\ m.detail = FALSE

LEMMA PayloadFits ==
    ASSUME NEW c, NEW m, NEW payload \in Seq(ClientRequests(c)), PayloadFields(m, payload)
    PROVE  CallFits(c, m, [i \in 1..Len(payload) |-> 0])
<1> DEFINE r == [i \in 1..Len(payload) |-> 0]
<1>1. Len(payload) \in Nat /\ At(m) = 1 /\ Len(m.answers) = 0 /\ m.answers \in Seq(Answers)
  BY DEF PayloadFields, At
<1>2. CallTyped(c, m, r)
  BY <1>1 DEF CallTyped, PayloadFields, Phases
<1>3. RunsFit(m, r)
  BY DEF RunsFit, PayloadFields
<1>4. OperationFits(m)
  BY DEF OperationFits, PayloadFields, Underway
<1>5. AnswersTrue(m, r)
  BY <1>1 DEF AnswersTrue
<1> QED
  BY <1>2, <1>3, <1>4, <1>5 DEF CallFits

-----------------------------------------------------------------------------
(* The steps                                                                  *)

\* Only the handler of client c moves; its record is then m.
Turns(c, m) ==
    /\ DOMAIN caller' = Callers /\ caller'[c] = m
    /\ \A d \in Callers \ {c} : caller'[d] = caller[d]

LEMMA TurnKeeps ==
    ASSUME CallsFit, NEW c \in Callers, NEW m, NEW r, Turns(c, m),
           DOMAIN ran' = Callers, ran'[c] = r, \A d \in Callers \ {c} : ran'[d] = ran[d],
           CallFits(c, m, r)
    PROVE  CallsFit'
<1>1. DOMAIN caller' = Callers
  BY DEF Turns
<1>2. ASSUME NEW d \in Callers PROVE CallFits(d, caller'[d], ran'[d])
  <2>1. CASE d = c
    BY <2>1 DEF Turns
  <2>2. CASE d # c
    <3>1. caller'[d] = caller[d] /\ ran'[d] = ran[d]
      BY <2>2 DEF Turns
    <3>2. CallFits(d, caller[d], ran[d])
      BY DEF CallsFit
    <3> QED
      BY <3>1, <3>2
  <2> QED
    BY <2>1, <2>2
<1> QED
  BY <1>1, <1>2 DEF CallsFit

LEMMA AnswerKeeps ==
    ASSUME CallsFit, NEW c \in Callers, NEW what \in Outcomes,
           answered(c, what), ran' = ran,
           caller[c].phase # "idle", caller[c].todo # << >>,
           what \in {"success", "unread"} => caller[c].phase = "ran",
           what \in NotRun => caller[c].phase # "ran",
           what = "unread" => Current(c).tool \in ReadOperations
    PROVE  CallsFit'
<1>1. PICK k : k = caller[c]
  OBVIOUS
<1>2. PICK r : r = ran[c]
  OBVIOUS
<1>3. CallFits(c, k, r) /\ DOMAIN k = CallFields /\ DOMAIN caller = Callers /\ DOMAIN ran = Callers
  BY <1>1, <1>2 DEF CallsFit, CallFits, CallTyped
<1>4. CallAt(c) = At(k) /\ Current(c) = k.of[At(k)]
  BY <1>1 DEF CallAt, Current, At
<1>5. caller' = [caller EXCEPT ![c] = AnswerGiven(k, At(k), what)]
  BY <1>1, <1>4 DEF answered
<1> DEFINE m == AnswerGiven(k, At(k), what)
<1>6. AnswerFields(k, what, m)
  BY <1>3, AnswerIs
<1>7. caller' = [caller EXCEPT ![c] = m]
  BY <1>5
<1> HIDE DEF m
<1>8. CallFits(c, m, r)
  BY <1>1, <1>3, <1>4, <1>6, AnswerFits
<1>9. Turns(c, m)
  BY <1>3, <1>7 DEF Turns
<1> QED
  BY <1>2, <1>3, <1>8, <1>9, TurnKeeps

LEMMA MoveKeeps ==
    ASSUME CallsFit, NEW c \in Callers, NEW m, Turns(c, m), Moves(caller[c], m), ran' = ran,
           caller[c].phase # "ran", m.phase \in Phases \ {"ran"}, OperationFits(m)
    PROVE  CallsFit'
<1>1. PICK k : k = caller[c]
  OBVIOUS
<1>2. PICK r : r = ran[c]
  OBVIOUS
<1>3. CallFits(c, k, r) /\ DOMAIN ran = Callers
  BY <1>1, <1>2 DEF CallsFit
<1>4. CallFits(c, m, r)
  BY <1>1, <1>3, MoveFits
<1> QED
  BY <1>2, <1>3, <1>4, TurnKeeps

\* What is known of the record of a client.
LEMMA CallIs ==
    ASSUME CallsFit, NEW c \in Callers
    PROVE  /\ DOMAIN caller = Callers /\ DOMAIN ran = Callers
           /\ DOMAIN caller[c] = CallFields /\ OperationFits(caller[c])
           /\ CallAt(c) = At(caller[c]) /\ Current(c) = caller[c].of[At(caller[c])]
           /\ caller[c].phase \in Underway => caller[c].todo # << >>
  BY DEF CallsFit, CallFits, CallTyped, OperationFits, CallAt, Current, At

LEMMA PayloadKeeps ==
    ASSUME CallsFit, NEW c \in Callers, handlePayload(c)
    PROVE  CallsFit'
<1>1. PICK n \in 1..MaxBatch[c] : \E payload \in [1..n -> ClientRequests(c)] :
          /\ caller' = [caller EXCEPT
                ![c] = [Idle EXCEPT !.phase = "next", !.todo = payload, !.of = payload,
                                    !.sent = caller[c].sent + 1]]
          /\ ran' = [ran EXCEPT ![c] = [i \in 1..n |-> 0]]
  BY DEF handlePayload
<1>2. PICK payload \in [1..n -> ClientRequests(c)] :
          /\ caller' = [caller EXCEPT
                ![c] = [Idle EXCEPT !.phase = "next", !.todo = payload, !.of = payload,
                                    !.sent = caller[c].sent + 1]]
          /\ ran' = [ran EXCEPT ![c] = [i \in 1..n |-> 0]]
  BY <1>1
<1>3. n \in Nat /\ payload \in Seq(ClientRequests(c)) /\ Len(payload) = n
  <2>1. n \in Nat
    BY McpAssumption
  <2> QED
    BY <2>1
<1>4. PICK s : s = caller[c].sent + 1
  OBVIOUS
<1> DEFINE m == [Idle EXCEPT !.phase = "next", !.todo = payload, !.of = payload, !.sent = s]
           r == [i \in 1..Len(payload) |-> 0]
<1>5. PayloadFields(m, payload)
  BY DEF PayloadFields, Idle, CallFields
<1>6. caller' = [caller EXCEPT ![c] = m] /\ ran' = [ran EXCEPT ![c] = r]
  BY <1>2, <1>3, <1>4
<1>7. CallFits(c, m, r)
  BY <1>3, <1>5, PayloadFits
<1> HIDE DEF m, r
<1>8. DOMAIN caller = Callers /\ DOMAIN ran = Callers
  BY DEF CallsFit
<1> QED
  BY <1>6, <1>7, <1>8, TurnKeeps DEF Turns

LEMMA DetailsKeep ==
    ASSUME CallsFit, NEW c \in Callers, NEW ref \in refs, getDetails(c, ref)
    PROVE  CallsFit'
<1>0. ran' = ran /\ caller[c].phase = "next" /\ caller[c].todo # << >> /\ Current(c).id
  BY DEF getDetails
<1>1. CASE answered(c, "refused")
  BY <1>0, <1>1, AnswerKeeps DEF Outcomes, NotRun
<1>2. CASE /\ caller' = [caller EXCEPT ![c].phase = "scope", ![c].op = ref.tool,
                                       ![c].args = ref.args, ![c].detail = TRUE]
           /\ ref.tool \in DOMAIN DetailArgumentAllowed
  <2>1. PICK k : k = caller[c]
    OBVIOUS
  <2> DEFINE m == [k EXCEPT !.phase = "scope", !.op = ref.tool, !.args = ref.args,
                            !.detail = TRUE]
  <2>2. DOMAIN caller = Callers /\ DOMAIN k = CallFields /\ Current(c) = k.of[At(k)]
    BY <2>1, CallIs
  <2>3. caller' = [caller EXCEPT ![c] = m]
    BY <1>2, <2>1, <2>2 DEF CallFields
  <2>4. /\ Moves(k, m) /\ m.phase = "scope" /\ m.op = ref.tool /\ m.detail = TRUE
    BY <2>2 DEF Moves, CallFields
  <2> HIDE DEF m
  <2>5. OperationFits(m)
    BY <1>0, <1>2, <2>1, <2>2, <2>4, DetailsAreReads DEF OperationFits, Moves, At, Underway
  <2>6. Turns(c, m)
    BY <2>2, <2>3 DEF Turns
  <2> QED
    BY <1>0, <2>1, <2>4, <2>5, <2>6, MoveKeeps DEF Phases, Underway
<1> QED
  BY <1>1, <1>2 DEF getDetails, resolveDetailReference

LEMMA ToolsCallKeeps ==
    ASSUME CallsFit, NEW c \in Callers, toolsCall(c)
    PROVE  CallsFit'
<1>0. ran' = ran /\ caller[c].phase = "next" /\ caller[c].todo # << >>
  BY DEF toolsCall
<1>1. ASSUME NEW what \in {"none", "refused", "retired"}, answered(c, what) PROVE CallsFit'
  BY <1>0, <1>1, AnswerKeeps DEF Outcomes, NotRun
<1>2. CASE /\ caller' = [caller EXCEPT ![c].phase = "scope", ![c].op = Current(c).tool,
                                       ![c].args = Current(c).args]
           /\ Current(c).id
  <2>1. PICK k : k = caller[c]
    OBVIOUS
  <2>0. PICK q : q = Current(c)
    OBVIOUS
  <2> DEFINE m == [k EXCEPT !.phase = "scope", !.op = q.tool, !.args = q.args]
  <2>2. /\ DOMAIN caller = Callers /\ DOMAIN k = CallFields /\ q = k.of[At(k)]
        /\ OperationFits(k)
    BY <2>0, <2>1, CallIs
  <2>3. caller' = [caller EXCEPT ![c] = m]
    BY <1>2, <2>0, <2>1, <2>2 DEF CallFields
  <2>4. Moves(k, m) /\ m.phase = "scope" /\ m.op = q.tool /\ m.detail = k.detail
    BY <2>2 DEF Moves, CallFields
  <2> HIDE DEF m
  <2>5. OperationFits(m)
    BY <1>0, <1>2, <2>0, <2>1, <2>2, <2>4 DEF OperationFits, Moves, At, Underway
  <2>6. Turns(c, m)
    BY <2>2, <2>3 DEF Turns
  <2> QED
    BY <1>0, <2>1, <2>4, <2>5, <2>6, MoveKeeps DEF Phases, Underway
<1> QED
  BY <1>1, <1>2 DEF toolsCall

\* The call keeps its operation and goes to another place.
LEMMA StepKeeps ==
    ASSUME CallsFit, NEW c \in Callers, NEW to \in Underway \ {"ran"}, NEW m,
           caller[c].phase \in Underway \ {"ran"}, ran' = ran,
           caller' = [caller EXCEPT ![c] = m],
           Moves(caller[c], m), m.phase = to, m.op = caller[c].op, m.detail = caller[c].detail
    PROVE  CallsFit'
<1>1. PICK k : k = caller[c]
  OBVIOUS
<1>2. DOMAIN caller = Callers /\ DOMAIN k = CallFields /\ OperationFits(k)
  BY <1>1, CallIs
<1>3. OperationFits(m)
  BY <1>1, <1>2 DEF OperationFits, Moves, At
<1>4. Turns(c, m)
  BY <1>2 DEF Turns
<1> QED
  BY <1>3, <1>4, MoveKeeps DEF Phases, Underway

LEMMA ScopeKeeps ==
    ASSUME CallsFit, NEW c \in Callers, NEW o \in {"found", "failed", "unavailable"},
           withTaskProject(c, o)
    PROVE  CallsFit'
<1>0. /\ ran' = ran /\ caller[c].phase = "scope" /\ caller[c].todo # << >>
      /\ DOMAIN caller = Callers /\ DOMAIN caller[c] = CallFields
  BY CallIs DEF withTaskProject, Underway
<1>1. ASSUME NEW what \in {"refused", "failed", "unavailable"}, answered(c, what)
      PROVE  CallsFit'
  BY <1>0, <1>1, AnswerKeeps DEF Outcomes, NotRun
<1>2. ASSUME NEW given, caller' = [caller EXCEPT ![c].phase = "build", ![c].args = given]
      PROVE  CallsFit'
  <2> DEFINE m == [caller[c] EXCEPT !.phase = "build", !.args = given]
  <2>1. caller' = [caller EXCEPT ![c] = m]
    BY <1>0, <1>2 DEF CallFields
  <2>2. /\ Moves(caller[c], m) /\ m.phase = "build"
        /\ m.op = caller[c].op /\ m.detail = caller[c].detail
    BY <1>0 DEF Moves, CallFields
  <2> HIDE DEF m
  <2> QED
    BY <1>0, <2>1, <2>2, StepKeeps DEF Underway
<1>3. CASE caller' = [caller EXCEPT ![c].phase = "build"]
  <2> DEFINE m == [caller[c] EXCEPT !.phase = "build"]
  <2>1. caller' = [caller EXCEPT ![c] = m]
    BY <1>0, <1>3 DEF CallFields
  <2>2. /\ Moves(caller[c], m) /\ m.phase = "build"
        /\ m.op = caller[c].op /\ m.detail = caller[c].detail
    BY <1>0 DEF Moves, CallFields
  <2> HIDE DEF m
  <2> QED
    BY <1>0, <2>1, <2>2, StepKeeps DEF Underway
<1>4. \/ \E what \in {"refused", "failed", "unavailable"} : answered(c, what)
      \/ caller' = [caller EXCEPT ![c].phase = "build"]
      \/ caller' = [caller EXCEPT ![c].phase = "build", ![c].args = @ \union {"project_id"}]
  BY DEF withTaskProject
<1> QED
  BY <1>1, <1>2, <1>3, <1>4

LEMMA BuildKeeps ==
    ASSUME CallsFit, NEW c \in Callers, buildRequest(c)
    PROVE  CallsFit'
<1>0. /\ ran' = ran /\ caller[c].phase = "build" /\ caller[c].todo # << >>
      /\ DOMAIN caller = Callers /\ DOMAIN caller[c] = CallFields
  BY CallIs DEF buildRequest, Underway
<1>1. CASE answered(c, "refused")
  BY <1>0, <1>1, AnswerKeeps DEF Outcomes, NotRun
<1>2. ASSUME NEW h, caller' = [caller EXCEPT ![c].phase = "sent", ![c].held = h]
      PROVE  CallsFit'
  <2> DEFINE m == [caller[c] EXCEPT !.phase = "sent", !.held = h]
  <2>1. caller' = [caller EXCEPT ![c] = m]
    BY <1>0, <1>2 DEF CallFields
  <2>2. /\ Moves(caller[c], m) /\ m.phase = "sent"
        /\ m.op = caller[c].op /\ m.detail = caller[c].detail
    BY <1>0 DEF Moves, CallFields
  <2> HIDE DEF m
  <2> QED
    BY <1>0, <2>1, <2>2, StepKeeps DEF Underway
<1> QED
  BY <1>1, <1>2 DEF buildRequest

LEMMA BackendKeeps ==
    ASSUME CallsFit, NEW c \in Callers, BackendRuns(c)
    PROVE  CallsFit'
<1>1. PICK k : k = caller[c]
  OBVIOUS
<1>2. PICK r : r = ran[c]
  OBVIOUS
<1>3. /\ CallFits(c, k, r) /\ DOMAIN k = CallFields /\ CallAt(c) = At(k)
      /\ DOMAIN caller = Callers /\ DOMAIN ran = Callers
  BY <1>1, <1>2, CallIs DEF CallsFit
<1> DEFINE m == [k EXCEPT !.phase = "ran"]
           p == [r EXCEPT ![At(k)] = @ + 1]
<1>4. caller' = [caller EXCEPT ![c] = m]
  BY <1>1, <1>3 DEF BackendRuns, CallFields
<1>5. ran' = [ran EXCEPT ![c] = p]
  BY <1>2, <1>3 DEF BackendRuns
<1>6. k.phase = "sent" /\ Moves(k, m) /\ m.phase = "ran" /\ m.op = k.op /\ m.detail = k.detail
  BY <1>1, <1>3 DEF BackendRuns, Moves, CallFields
<1> HIDE DEF m
<1>7. CallFits(c, m, p)
  BY <1>3, <1>6, RunFits
<1> HIDE DEF p
<1> QED
  BY <1>3, <1>4, <1>5, <1>7, TurnKeeps DEF Turns

LEMMA SuccessKeeps ==
    ASSUME CallsFit, NEW c \in Callers, Succeeds(c)
    PROVE  CallsFit'
<1>0. /\ ran' = ran /\ caller[c].phase = "ran" /\ caller[c].todo # << >>
      /\ OperationFits(caller[c]) /\ Current(c) = caller[c].of[At(caller[c])]
  BY CallIs DEF Succeeds, Underway
<1>1. CASE answered(c, "success")
  BY <1>0, <1>1, AnswerKeeps DEF Outcomes, NotRun
<1>2. CASE answered(c, "unread") /\ ~attachDetailReference(c)
  <2>1. caller[c].op \in DetailTools /\ ~caller[c].detail
    BY <1>2, DetailsAreReads DEF attachDetailReference
  <2>2. Current(c).tool \in ReadOperations
    BY <1>0, <2>1, DetailsAreReads DEF OperationFits, Underway
  <2> QED
    BY <1>0, <1>2, <2>2, AnswerKeeps DEF Outcomes, NotRun
<1> QED
  BY <1>1, <1>2 DEF Succeeds

\* A call to a backend that ends without a success.
LEMMA FailureKeeps ==
    ASSUME CallsFit, NEW c \in Callers,
           TurnedDown(c) \/ Unavailable(c) \/ initializeFails(c)
    PROVE  CallsFit'
<1>1. /\ ran' = ran /\ caller[c].phase \in Underway
      /\ \/ answered(c, "failed") /\ caller[c].phase = "sent"
         \/ answered(c, "unavailable")
  BY DEF TurnedDown, Unavailable, initializeFails, Underway
<1>2. caller[c].todo # << >> /\ caller[c].phase # "idle"
  BY <1>1, CallIs DEF Underway
<1> QED
  BY <1>1, <1>2, AnswerKeeps DEF Outcomes, NotRun

\* The second attempt of a call den-core did not let in.
LEMMA SessionKeeps ==
    ASSUME CallsFit, NEW c \in Callers, callMCPTool(c) \/ initializeSession(c)
    PROVE  CallsFit'
<1>0. /\ ran' = ran /\ caller[c].phase \in {"sent", "initialize"}
      /\ DOMAIN caller = Callers /\ DOMAIN caller[c] = CallFields
  BY CallIs DEF callMCPTool, sessionRequiredFailure, initializeSession
<1>1. caller[c].todo # << >>
  BY <1>0, CallIs DEF Underway
<1>2. CASE answered(c, "failed") /\ caller[c].phase = "sent"
  BY <1>0, <1>1, <1>2, AnswerKeeps DEF Outcomes, NotRun
<1>3. CASE caller' = [caller EXCEPT ![c].phase = "initialize"]
  <2> DEFINE m == [caller[c] EXCEPT !.phase = "initialize"]
  <2>1. caller' = [caller EXCEPT ![c] = m]
    BY <1>0, <1>3 DEF CallFields
  <2>2. /\ Moves(caller[c], m) /\ m.phase = "initialize"
        /\ m.op = caller[c].op /\ m.detail = caller[c].detail
    BY <1>0 DEF Moves, CallFields
  <2> HIDE DEF m
  <2> QED
    BY <1>0, <2>1, <2>2, StepKeeps DEF Underway
<1>4. ASSUME NEW h, NEW b,
             caller' = [caller EXCEPT ![c].phase = "sent", ![c].held = h, ![c].again = b]
      PROVE  CallsFit'
  <2> DEFINE m == [caller[c] EXCEPT !.phase = "sent", !.held = h, !.again = b]
  <2>1. caller' = [caller EXCEPT ![c] = m]
    BY <1>0, <1>4 DEF CallFields
  <2>2. /\ Moves(caller[c], m) /\ m.phase = "sent"
        /\ m.op = caller[c].op /\ m.detail = caller[c].detail
    BY <1>0 DEF Moves, CallFields
  <2> HIDE DEF m
  <2> QED
    BY <1>0, <2>1, <2>2, StepKeeps DEF Underway
<1>5. \/ answered(c, "failed") /\ caller[c].phase = "sent"
      \/ caller' = [caller EXCEPT ![c].phase = "initialize"]
      \/ caller' = [caller EXCEPT ![c].phase = "sent", ![c].held = opened', ![c].again = TRUE]
  BY DEF callMCPTool, sessionRequiredFailure, initializeSession
<1> QED
  BY <1>2, <1>3, <1>4, <1>5

LEMMA ReplyKeeps ==
    ASSUME CallsFit, NEW c \in Callers, writeRPCPayload(c)
    PROVE  CallsFit'
<1>0. /\ ran' = ran /\ caller[c].phase = "next" /\ DOMAIN caller = Callers
      /\ DOMAIN caller[c] = CallFields /\ OperationFits(caller[c])
  BY CallIs DEF writeRPCPayload
<1> DEFINE m == [caller[c] EXCEPT !.phase = "idle"]
<1>1. caller' = [caller EXCEPT ![c] = m]
  BY <1>0 DEF writeRPCPayload, CallFields
<1>2. Moves(caller[c], m) /\ m.phase = "idle" /\ m.detail = caller[c].detail
  BY <1>0 DEF Moves, CallFields
<1> HIDE DEF m
<1>3. OperationFits(m)
  BY <1>0, <1>2 DEF OperationFits, Underway
<1>4. Turns(c, m)
  BY <1>0, <1>1 DEF Turns
<1> QED
  BY <1>0, <1>2, <1>3, <1>4, MoveKeeps DEF Phases, Underway

\* A started facade knows of no call.
LEMMA StartFits ==
    ASSUME NEW c, NEW m, DOMAIN m = CallFields, m.phase = "idle",
           m.todo = << >>, m.of = << >>, m.answers = << >>, m.detail = FALSE
    PROVE  CallFits(c, m, << >>)
<1>1. PICK p : p = << >>
  OBVIOUS
<1>2. p \in Seq(ClientRequests(c)) /\ PayloadFields(m, p) /\ Len(p) = 0
  BY <1>1 DEF PayloadFields
<1> DEFINE r == [i \in 1..Len(p) |-> 0]
<1>3. CallFits(c, m, r)
  BY <1>2, PayloadFits
<1>4. r = << >>
  BY <1>2
<1> HIDE DEF r
<1> QED
  BY <1>3, <1>4

LEMMA RestartKeeps ==
    ASSUME NewMCPHandler
    PROVE  CallsFit'
<1>1. /\ DOMAIN caller' = Callers /\ DOMAIN ran' = Callers
      /\ \A c \in Callers : caller'[c] = [Idle EXCEPT !.sent = caller[c].sent] /\ ran'[c] = << >>
  BY DEF NewMCPHandler
<1>2. ASSUME NEW c \in Callers PROVE CallFits(c, caller'[c], ran'[c])
  <2> DEFINE m == [Idle EXCEPT !.sent = caller[c].sent]
  <2>1. /\ DOMAIN m = CallFields /\ m.phase = "idle" /\ m.todo = << >> /\ m.of = << >>
        /\ m.answers = << >> /\ m.detail = FALSE
    BY DEF Idle, CallFields
  <2>2. caller'[c] = m /\ ran'[c] = << >>
    BY <1>1
  <2> HIDE DEF m
  <2> QED
    BY <2>1, <2>2, StartFits
<1> QED
  BY <1>1, <1>2 DEF CallsFit

LEMMA CallsKeep ==
    ASSUME CallsFit, [McpNext]_mcpVars
    PROVE  CallsFit'
<1>1. ASSUME NEW c \in Callers, ServeHTTP(c) PROVE CallsFit'
  <2>1. CASE \E ref \in refs : getDetails(c, ref)
    BY <2>1, DetailsKeep
  <2>2. CASE \E o \in {"found", "failed", "unavailable"} : withTaskProject(c, o)
    BY <2>2, ScopeKeeps
  <2>3. CASE TurnedDown(c) \/ Unavailable(c) \/ initializeFails(c)
    BY <2>3, FailureKeeps
  <2>4. CASE callMCPTool(c) \/ initializeSession(c)
    BY <2>4, SessionKeeps
  <2> QED
    BY <1>1, <2>1, <2>2, <2>3, <2>4, PayloadKeeps, ToolsCallKeeps, BuildKeeps,
       BackendKeeps, SuccessKeeps, ReplyKeeps DEF ServeHTTP
<1>2. ASSUME caller' = caller, ran' = ran PROVE CallsFit'
  BY <1>2 DEF CallsFit
<1>3. CASE CoreRestarts \/ McpTick \/ UNCHANGED mcpVars
  BY <1>2, <1>3 DEF CoreRestarts, McpTick, mcpVars
<1> QED
  BY <1>1, <1>3, RestartKeeps DEF McpNext

LEMMA SessionsKeep ==
    ASSUME SessionsFit, [McpNext]_mcpVars
    PROVE  SessionsFit'
<1> USE McpAssumption DEF SessionsFit
<1>1. ASSUME NEW c \in Callers, ServeHTTP(c) PROVE SessionsFit'
  <2>1. ASSUME NEW d \in Callers, initializeSession(d) PROVE SessionsFit'
    BY <2>1 DEF initializeSession
  <2>2. ASSUME UNCHANGED <<session, live, opened, boot, restarts, clock>> PROVE SessionsFit'
    BY <2>2
  <2>3. CASE \/ handlePayload(c) \/ (\E ref \in refs : getDetails(c, ref)) \/ toolsCall(c)
             \/ buildRequest(c) \/ writeRPCPayload(c)
             \/ \E o \in {"found", "failed", "unavailable"} : withTaskProject(c, o)
    BY <2>2, <2>3 DEF handlePayload, getDetails, toolsCall, buildRequest, writeRPCPayload,
                      withTaskProject
  <2>4. CASE BackendRuns(c) \/ Succeeds(c) \/ TurnedDown(c) \/ Unavailable(c)
             \/ callMCPTool(c) \/ initializeFails(c)
    BY <2>2, <2>4 DEF BackendRuns, Succeeds, TurnedDown, Unavailable, callMCPTool, initializeFails
  <2> QED
    BY <1>1, <2>1, <2>3, <2>4 DEF ServeHTTP
<1>2. CASE CoreRestarts
  BY <1>2 DEF CoreRestarts
<1>3. CASE NewMCPHandler
  BY <1>3 DEF NewMCPHandler
<1>4. CASE McpTick
  BY <1>4 DEF McpTick
<1>5. CASE UNCHANGED mcpVars
  BY <1>5 DEF mcpVars
<1> QED
  BY <1>1, <1>2, <1>3, <1>4, <1>5 DEF McpNext

\* However calls, restarts, lost answers and renewed sessions interleave, a
\* request is carried out at most once, its answer says what was carried out,
\* and a reference leads to reads only (toolsCall, mcp/internal/server/mcp.go;
\* callMCPTool, mcp/internal/backend/client.go).
THEOREM CallsRunOnce == McpSpec => []ToolCallsRunOnce
<1>1. McpInit => McpInv
  <2> SUFFICES ASSUME McpInit PROVE McpInv
    OBVIOUS
  <2>1. ASSUME NEW c \in Callers PROVE CallFits(c, caller[c], ran[c])
    <3>1. /\ DOMAIN Idle = CallFields /\ Idle.phase = "idle" /\ Idle.todo = << >>
          /\ Idle.of = << >> /\ Idle.answers = << >> /\ Idle.detail = FALSE
      BY DEF Idle, CallFields
    <3>2. caller[c] = Idle /\ ran[c] = << >>
      BY DEF McpInit
    <3> QED
      BY <3>1, <3>2, StartFits
  <2>2. DOMAIN caller = Callers /\ DOMAIN ran = Callers
    BY DEF McpInit
  <2>3. SessionsFit
    BY McpAssumption DEF McpInit, SessionsFit
  <2> QED
    BY <2>1, <2>2, <2>3 DEF McpInv, CallsFit
<1>2. McpInv /\ [McpNext]_mcpVars => McpInv'
  BY CallsKeep, SessionsKeep DEF McpInv
<1>3. McpInv => ToolCallsRunOnce
  <2> SUFFICES ASSUME McpInv PROVE ToolCallsRunOnce
    OBVIOUS
  <2>1. ASSUME NEW c \in Callers
        PROVE  /\ caller[c].phase \in Phases /\ Len(caller[c].answers) <= Len(caller[c].of)
               /\ \A i \in DOMAIN ran[c] :
                     ran[c][i] <= 1 /\ (~caller[c].of[i].id => ran[c][i] = 0)
               /\ \A n \in DOMAIN caller[c].answers :
                     LET a == caller[c].answers[n]
                     IN  /\ a.is \in {"success", "unread"} => ran[c][a.to] = 1
                         /\ a.is \in {"refused", "retired", "failed"} => ran[c][a.to] = 0
                         /\ a.is = "unread" => caller[c].of[a.to].tool \in ReadOperations
               /\ caller[c].detail => caller[c].op \in ReadOperations
    <3>1. PICK k : k = caller[c]
      OBVIOUS
    <3>2. PICK r : r = ran[c]
      OBVIOUS
    <3>3. CallFits(c, k, r)
      BY <3>1, <3>2 DEF McpInv, CallsFit
    <3>4. /\ k.phase \in Phases /\ k.answers \in Seq(Answers) /\ r \in [1..Len(k.of) -> {0, 1}]
          /\ Len(k.of) \in Nat /\ Len(k.todo) \in Nat /\ Len(k.answers) \in Nat
          /\ Len(k.answers) <= Len(k.of) - Len(k.todo)
      <4>1. /\ k.phase \in Phases /\ k.answers \in Seq(Answers) /\ r \in [1..Len(k.of) -> {0, 1}]
            /\ k.of \in Seq(ClientRequests(c)) /\ k.todo \in Seq(ClientRequests(c))
            /\ Len(k.answers) <= Len(k.of) - Len(k.todo)
        BY <3>3 DEF CallFits, CallTyped
      <4>2. Len(k.of) \in Nat
        BY <4>1
      <4>3. Len(k.todo) \in Nat
        BY <4>1
      <4>4. Len(k.answers) \in Nat
        BY <4>1
      <4> QED
        BY <4>1, <4>2, <4>3, <4>4
    <3>5. Len(k.answers) <= Len(k.of)
      <4>1. PICK x \in Nat : x = Len(k.of)
        BY <3>4
      <4>2. PICK y \in Nat : y = Len(k.todo)
        BY <3>4
      <4>3. PICK z \in Nat : z = Len(k.answers)
        BY <3>4
      <4>4. z <= x - y
        BY <3>4, <4>1, <4>2, <4>3
      <4>5. z <= x
        BY <4>4
      <4> QED
        BY <4>1, <4>3, <4>5
    <3>6. ASSUME NEW i \in DOMAIN r PROVE r[i] <= 1 /\ (~k.of[i].id => r[i] = 0)
      <4>1. i \in 1..Len(k.of) /\ r[i] \in {0, 1}
        BY <3>4
      <4> QED
        BY <3>3, <4>1 DEF CallFits, RunsFit
    <3>7. ASSUME NEW n \in DOMAIN k.answers
          PROVE  /\ k.answers[n].is \in {"success", "unread"} => r[k.answers[n].to] = 1
                 /\ k.answers[n].is \in {"refused", "retired", "failed"} => r[k.answers[n].to] = 0
                 /\ k.answers[n].is = "unread" => k.of[k.answers[n].to].tool \in ReadOperations
      <4>1. n \in 1..Len(k.answers)
        BY <3>4
      <4>2. AnswerTrue(k.answers[n], k, r)
        BY <3>3, <4>1 DEF CallFits, AnswersTrue
      <4> QED
        BY <4>2 DEF AnswerTrue, NotRun
    <3>8. k.detail => k.op \in ReadOperations
      BY <3>3, DetailsAreReads DEF CallFits, OperationFits
    <3> QED
      BY <3>1, <3>2, <3>4, <3>5, <3>6, <3>7, <3>8
  <2>2. McpTypeOK
    BY <2>1, McpAssumption DEF McpTypeOK, McpInv, SessionsFit, Phases, Underway
  <2> QED
    BY <2>1, <2>2 DEF ToolCallsRunOnce
<1> QED
  BY <1>1, <1>2, <1>3, PTL DEF McpSpec

-----------------------------------------------------------------------------
(* Composed contexts                                                         *)

Summaries == {"get_project", "get_task_workflow_summary", "get_task_context", "get_review_context"}

\* How far a source is: those of earlier stages are done, those of later ones
\* are still to be asked.
Earlier(s) == \E i \in 1..(compose.stage - 1) : s \in Stages(compose.op)[i]
Phase(s) == IF s \in DOMAIN compose.busy THEN compose.busy[s]
            ELSE IF Earlier(s) THEN "done" ELSE "ask"

AskedFor(s) == Backend(s) \in compose.configured /\ Wanted(compose, s)

Whole(s) == compose.op # "get_task_context" /\ s # "review"
Shown(s) ==
    /\ reply.section[s] = IF Whole(s) THEN Composed(s) ELSE AtMost(Composed(s), ItemLimit)
    /\ s \in reply.cut <=> ~Whole(s) /\ Truncated(Composed(s))
NotShown(s) == reply.section[s] = 0 /\ s \notin reply.cut

Told(s) == IF s = "review_findings" THEN <<>>
           ELSE IF s = "guidance" /\ holds.incomplete THEN <<"partial">> ELSE <<"ok">>
NotFound(s) == s = "review_findings" /\ compose.outcome[s] = "notfound"

\* What a source that is done has left: nothing was asked of it, it answered,
\* or it failed and the call could go on.
DoneFits(s) ==
    \/ /\ ~AskedFor(s) /\ compose.outcome[s] = "unasked" /\ NotShown(s)
       /\ reply.status[s] = IF Wanted(compose, s) /\ s # "project" THEN <<"unavailable">> ELSE <<>>
    \/ AskedFor(s) /\ compose.outcome[s] = "answer" /\ Shown(s) /\ reply.status[s] = Told(s)
    \/ /\ AskedFor(s) /\ s \notin Required(compose.op) /\ NotShown(s)
       /\ compose.outcome[s] \in RequestOutcomes(compose.op) \ {"answer"}
       /\ IF NotFound(s) THEN reply.status[s] = <<>> /\ holds.entries[s] = 0
          ELSE reply.status[s] = <<taskContextStatus(compose.outcome[s])>>

SourceFits(s) ==
    /\ Phase(s) = "ask" => /\ NotShown(s) /\ reply.status[s] = <<>>
                           /\ compose.outcome[s] = "unasked"
    /\ Phase(s) = "read" => /\ AskedFor(s) /\ NotShown(s) /\ reply.status[s] = <<>>
                            /\ compose.outcome[s] \in RequestOutcomes(compose.op)
                            /\ NotFound(s) => holds.entries[s] = 0
    /\ Phase(s) = "stored" => /\ AskedFor(s) /\ Shown(s) /\ reply.status[s] = <<>>
                              /\ compose.outcome[s] = "answer"
    /\ Phase(s) = "done" => DoneFits(s)

\* The packet headers are shown or warned of, the expanded packets shown or
\* told to be partial.
HeadersFit ==
    LET shown == holds.packets \subseteq reply.headers \union reply.warned IN
    /\ "packets" \in Asked(compose.op) => Phase("packets") \in {"ask", "done"}
    /\ "messages" \in compose.configured =>
          /\ "packets" \in Asked(compose.op) /\ Phase("packets") = "done" => shown
          /\ "workflow" \in Asked(compose.op) /\ Phase("workflow") \in {"stored", "done"}
                /\ compose.outcome["workflow"] = "answer" => shown
ExpandedFit ==
    "expanded_packets" \in Asked(compose.op) =>
        /\ Phase("expanded_packets") \in {"ask", "done"}
        /\ Phase("expanded_packets") = "ask" => reply.status["expanded_packets"] = <<>>
        /\ Phase("expanded_packets") = "done" /\ Wanted(compose, "expanded_packets")
              /\ reply.status["expanded_packets"] = <<>>
              => reply.expanded = holds.packets

\* The records of the call and of its answer, as far as the proof needs them.
ReadTyped ==
    /\ compose.op \in Summaries
    /\ DOMAIN compose = {"op", "verbose", "section", "agent", "configured", "stage", "busy",
                         "outcome"}
    /\ compose.stage \in 1..Len(Stages(compose.op))
    /\ compose.busy \in [Stages(compose.op)[compose.stage] -> {"ask", "read", "stored", "done"}]
    /\ DOMAIN compose.outcome = Asked(compose.op)
    /\ holds.entries \in [Asked(compose.op) -> Nat]
ReplyTyped ==
    /\ DOMAIN reply = DOMAIN NoReply
    /\ reply.is \in {"composing", "ok", "error", "unavailable", "no_current_round", "too_large"}
    /\ reply.section \in [Asked(compose.op) -> Nat]
    /\ DOMAIN reply.status = Asked(compose.op)
    /\ \A s \in Asked(compose.op) : reply.section[s] <= holds.entries[s]

\* While an answer is composed, every source has left what it should.
ComposingFits ==
    /\ RequiredBackends(compose.op) \subseteq compose.configured
    /\ reply.bounded = FALSE
    /\ \A s \in Asked(compose.op) : ~Packets(s) => SourceFits(s)
    /\ HeadersFit /\ ExpandedFit

ComposeInv ==
    \/ compose.op = "none" /\ reply = NoReply /\ compose.busy = <<>>
    \/ /\ ReadTyped /\ ReplyTyped
       /\ reply.is = "composing" => ComposingFits
       /\ reply.is = "ok" => ContextIsHonest

-----------------------------------------------------------------------------
(* The tables of sources                                                     *)

LEMMA StagesOf ==
  /\ Stages("get_project") = <<{"projects"}, {"tasks"}, {"unread"}>>
  /\ Stages("get_task_workflow_summary") = <<{"task"}, {"review"}, {"packets"}>>
  /\ Stages("get_task_context") =
        <<{"task"}, {"workflow", "task_thread", "guidance", "librarian"}>>
  /\ Stages("get_review_context") =
        <<{"task"}, {"review"}, {"project"}, {"packets"}, {"guidance"},
          {"review_findings"}, {"expanded_packets"}>>
  BY DEF Stages

\* A source is asked in one stage of an operation.
LEMMA StagesAreApart ==
  ASSUME NEW op \in Summaries
  PROVE  /\ Len(Stages(op)) \in Nat /\ Len(Stages(op)) > 0
         /\ DOMAIN Stages(op) = 1..Len(Stages(op))
         /\ \A i, j \in 1..Len(Stages(op)) : i # j => Stages(op)[i] \cap Stages(op)[j] = {}
<1>1. CASE op = "get_project"
  <2>1. Stages(op) = <<{"projects"}, {"tasks"}, {"unread"}>>
    BY <1>1, StagesOf
  <2>2. Len(Stages(op)) = 3 /\ DOMAIN Stages(op) = 1..3
    BY <2>1
  <2>3. ASSUME NEW i \in 1..3, NEW j \in 1..3, i # j
        PROVE  Stages(op)[i] \cap Stages(op)[j] = {}
    BY <2>1, <2>3
  <2> QED
    BY <2>2, <2>3
<1>2. CASE op = "get_task_workflow_summary"
  <2>1. Stages(op) = <<{"task"}, {"review"}, {"packets"}>>
    BY <1>2, StagesOf
  <2>2. Len(Stages(op)) = 3 /\ DOMAIN Stages(op) = 1..3
    BY <2>1
  <2>3. ASSUME NEW i \in 1..3, NEW j \in 1..3, i # j
        PROVE  Stages(op)[i] \cap Stages(op)[j] = {}
    BY <2>1, <2>3
  <2> QED
    BY <2>2, <2>3
<1>3. CASE op = "get_task_context"
  <2>1. Stages(op) = <<{"task"}, {"workflow", "task_thread", "guidance", "librarian"}>>
    BY <1>3, StagesOf
  <2>2. Len(Stages(op)) = 2 /\ DOMAIN Stages(op) = 1..2
    BY <2>1
  <2>3. ASSUME NEW i \in 1..2, NEW j \in 1..2, i # j
        PROVE  Stages(op)[i] \cap Stages(op)[j] = {}
    BY <2>1, <2>3
  <2> QED
    BY <2>2, <2>3
<1>4. CASE op = "get_review_context"
  <2>1. Stages(op) = <<{"task"}, {"review"}, {"project"}, {"packets"}, {"guidance"},
                  {"review_findings"}, {"expanded_packets"}>>
    BY <1>4, StagesOf
  <2>2. Len(Stages(op)) = 7 /\ DOMAIN Stages(op) = 1..7
    BY <2>1
  <2>3. ASSUME NEW i \in 1..7, NEW j \in 1..7, i # j
        PROVE  Stages(op)[i] \cap Stages(op)[j] = {}
    BY <2>1, <2>3
  <2> QED
    BY <2>2, <2>3
<1> QED
  BY <1>1, <1>2, <1>3, <1>4 DEF Summaries

LEMMA AskedIs ==
  /\ Asked("get_project") = {"projects", "tasks", "unread"}
  /\ Asked("get_task_workflow_summary") = {"task", "review", "packets"}
  /\ Asked("get_task_context") = {"task", "workflow", "task_thread", "guidance", "librarian"}
  /\ Asked("get_review_context") =
        {"task", "review", "project", "packets", "guidance", "review_findings", "expanded_packets"}
<1>1. Asked("get_project") = {"projects", "tasks", "unread"}
  BY StagesOf DEF Asked
<1>2. Asked("get_task_workflow_summary") = {"task", "review", "packets"}
  BY StagesOf DEF Asked
<1>3. Asked("get_task_context") = {"task", "workflow", "task_thread", "guidance", "librarian"}
  BY StagesOf DEF Asked
<1>4. Asked("get_review_context") =
        {"task", "review", "project", "packets", "guidance", "review_findings", "expanded_packets"}
  <2>1. DOMAIN Stages("get_review_context") = {1, 2, 3, 4, 5, 6, 7}
    BY StagesOf
  <2> QED
    BY <2>1, StagesOf DEF Asked
<1> QED
  BY <1>1, <1>2, <1>3, <1>4

\* A required source has a required backend and is no packet.
LEMMA RequiredAsked ==
  ASSUME NEW op \in Summaries, NEW s \in Required(op)
  PROVE  s \in Asked(op) /\ ~Packets(s) /\ Backend(s) \in RequiredBackends(op)
         /\ s # "project" /\ s # "review_findings" /\ s # "guidance"
<1>1. CASE op = "get_project"
  BY <1>1, AskedIs DEF Required, Packets, Backend, RequiredBackends
<1>2. CASE op = "get_task_context"
  BY <1>2, AskedIs DEF Required, Packets, Backend, RequiredBackends
<1>3. CASE op \in {"get_task_workflow_summary", "get_review_context"}
  BY <1>3, AskedIs DEF Required, Packets, Backend, RequiredBackends
<1> QED
  BY <1>1, <1>2, <1>3 DEF Summaries

LEMMA StageAsked ==
  ASSUME NEW op \in Summaries, NEW i \in 1..Len(Stages(op))
  PROVE  Stages(op)[i] \subseteq Asked(op)
  BY StagesAreApart DEF Asked

-----------------------------------------------------------------------------
(* One source moves, the others stay                                         *)

SameCall ==
    /\ holds' = holds /\ DOMAIN compose' = DOMAIN compose
    /\ compose'.op = compose.op /\ compose'.verbose = compose.verbose
    /\ compose'.section = compose.section /\ compose'.agent = compose.agent
    /\ compose'.configured = compose.configured

LEMMA SourceMoves ==
  ASSUME ReadTyped, NEW s \in DOMAIN compose.busy, NEW p \in {"ask", "read", "stored", "done"},
         SameCall, compose'.stage = compose.stage,
         compose'.busy = [compose.busy EXCEPT ![s] = p],
         DOMAIN compose'.outcome = DOMAIN compose.outcome
  PROVE  /\ ReadTyped'
         /\ s \in Asked(compose.op) /\ Phase(s) = compose.busy[s] /\ Phase(s)' = p
         /\ \A q : q # s => Phase(q)' = Phase(q)
<1>1. s \in Asked(compose.op)
  BY StageAsked DEF ReadTyped
<1>2. ReadTyped'
  BY DEF ReadTyped, SameCall
<1>3. \A q : Earlier(q)' <=> Earlier(q)
  BY DEF Earlier, SameCall
<1>4. DOMAIN compose'.busy = DOMAIN compose.busy /\ compose'.busy[s] = p
      /\ \A q \in DOMAIN compose.busy : q # s => compose'.busy[q] = compose.busy[q]
  BY DEF ReadTyped
<1> QED
  BY <1>1, <1>2, <1>3, <1>4 DEF Phase

LEMMA AskedForStays ==
  ASSUME SameCall
  PROVE  \A q : /\ AskedFor(q)' <=> AskedFor(q)
                /\ Wanted(compose, q)' <=> Wanted(compose, q)
                /\ Composed(q)' = Composed(q)
<1>1. ASSUME NEW q
      PROVE  Wanted(compose, q)' <=> Wanted(compose, q)
  BY DEF SameCall, Wanted, expands
<1> QED
  BY <1>1 DEF SameCall, AskedFor, Composed

LEMMA OthersStay ==
  ASSUME SameCall, NEW q, SourceFits(q), Phase(q)' = Phase(q),
         compose'.outcome[q] = compose.outcome[q],
         reply'.section[q] = reply.section[q], reply'.status[q] = reply.status[q],
         q \in reply'.cut <=> q \in reply.cut
  PROVE  SourceFits(q)'
<1>1. AskedFor(q)' <=> AskedFor(q)
  BY AskedForStays
<1>2. Wanted(compose, q)' <=> Wanted(compose, q)
  BY AskedForStays
<1>3. Composed(q)' = Composed(q)
  BY AskedForStays
<1>4. NotShown(q)' <=> NotShown(q)
  BY DEF NotShown
<1>5. Shown(q)' <=> Shown(q)
  BY <1>3 DEF Shown, Whole, SameCall
<1>6. Told(q)' = Told(q) /\ (NotFound(q)' <=> NotFound(q))
  BY DEF Told, NotFound, SameCall
<1>7. compose'.op = compose.op /\ holds' = holds
  BY DEF SameCall
<1>8. DoneFits(q)' <=> DoneFits(q)
  BY <1>1, <1>2, <1>4, <1>5, <1>6, <1>7 DEF DoneFits
<1> QED
  BY <1>1, <1>4, <1>5, <1>6, <1>7, <1>8 DEF SourceFits

-----------------------------------------------------------------------------
(* Each step preserves the invariant                                         *)

\* While an answer is composed there is a call, and its sources fit.
LEMMA Composing ==
  ASSUME ComposeInv, reply.is = "composing"
  PROVE  ReadTyped /\ ReplyTyped /\ ComposingFits
  BY DEF ComposeInv, NoReply

\* The packets' facts are about the answer and how far the three sources are.
LEMMA PacketsStay ==
  ASSUME SameCall, HeadersFit, ExpandedFit,
         reply'.headers = reply.headers, reply'.warned = reply.warned,
         reply'.expanded = reply.expanded,
         \A q \in {"packets", "workflow", "expanded_packets"} \cap Asked(compose.op) :
            /\ Phase(q)' = Phase(q) /\ compose'.outcome[q] = compose.outcome[q]
            /\ reply'.status[q] = reply.status[q]
  PROVE  HeadersFit' /\ ExpandedFit'
<1>1. Wanted(compose, "expanded_packets")' <=> Wanted(compose, "expanded_packets")
  BY AskedForStays
<1>2. compose'.op = compose.op /\ holds' = holds /\ compose'.configured = compose.configured
  BY DEF SameCall
<1>3. HeadersFit'
  BY <1>2 DEF HeadersFit
<1>4. ExpandedFit'
  BY <1>1, <1>2 DEF ExpandedFit
<1> QED
  BY <1>3, <1>4

\* A request comes to something.
LEMMA TaskContextDoInv ==
  ASSUME ComposeInv, NEW s \in DOMAIN compose.busy, NEW o \in RequestOutcomes(compose.op),
         taskContextDo(s, o)
  PROVE  ComposeInv'
<1>1. ReadTyped /\ ReplyTyped /\ ComposingFits /\ reply' = reply
  BY Composing DEF taskContextDo
<1>2. /\ SameCall /\ compose'.stage = compose.stage
      /\ compose'.busy = [compose.busy EXCEPT ![s] = "read"]
      /\ compose'.outcome = [compose.outcome EXCEPT ![s] = o]
  BY <1>1 DEF taskContextDo, ReadTyped, SameCall
<1>3. /\ ReadTyped' /\ s \in Asked(compose.op) /\ Phase(s) = "ask" /\ Phase(s)' = "read"
      /\ \A q : q # s => Phase(q)' = Phase(q)
  BY <1>1, <1>2, SourceMoves DEF taskContextDo
<1>4. compose'.outcome[s] = o /\ \A q \in Asked(compose.op) : q # s =>
         compose'.outcome[q] = compose.outcome[q]
  BY <1>1, <1>2, <1>3 DEF ReadTyped
<1>5. compose'.op = compose.op /\ holds' = holds /\ compose'.configured = compose.configured
  BY <1>2 DEF SameCall
<1>6. ReplyTyped'
  BY <1>1, <1>5 DEF ReplyTyped
<1>7. AskedFor(s)' /\ ~Packets(s)
  BY <1>2, AskedForStays DEF taskContextDo, AskedFor
<1>8. SourceFits(s)'
  <2>1. NotShown(s)' /\ reply'.status[s] = <<>>
    BY <1>1, <1>3, <1>7 DEF ComposingFits, SourceFits, NotShown
  <2>2. NotFound(s)' => holds'.entries[s] = 0
    BY <1>4, <1>5 DEF NotFound, taskContextDo
  <2> QED
    BY <1>3, <1>4, <1>5, <1>7, <2>1, <2>2 DEF SourceFits
<1>9. ASSUME NEW q \in Asked(compose.op), ~Packets(q)
      PROVE  SourceFits(q)'
  <2>1. CASE q = s
    BY <1>8, <2>1
  <2>2. CASE q # s
    BY <1>1, <1>2, <1>3, <1>4, <1>9, <2>2, OthersStay DEF ComposingFits
  <2> QED
    BY <2>1, <2>2
<1>10. HeadersFit' /\ ExpandedFit'
  <2>1. ExpandedFit'
    <3>1. Wanted(compose, "expanded_packets")' <=> Wanted(compose, "expanded_packets")
      BY <1>2, AskedForStays
    <3>2. s # "expanded_packets"
      BY <1>7 DEF Packets
    <3> QED
      BY <1>1, <1>3, <1>5, <3>1, <3>2 DEF ComposingFits, ExpandedFit
  <2>2. HeadersFit'
    <3>1. s # "packets"
      BY <1>7 DEF Packets
    <3> QED
      BY <1>1, <1>3, <1>4, <1>5, <3>1 DEF ComposingFits, HeadersFit
  <2> QED
    BY <2>1, <2>2
<1>11. ComposingFits'
  BY <1>1, <1>5, <1>9, <1>10 DEF ComposingFits
<1> QED
  BY <1>1, <1>3, <1>6, <1>11 DEF ComposeInv, taskContextDo

\* The headers are read one by one.
LEMMA LatestPacketsInv ==
  ASSUME ComposeInv, NEW s \in DOMAIN compose.busy, NEW lost \in SUBSET PacketKeys,
         taskWorkflowLatestPackets(s, lost)
  PROVE  ComposeInv'
<1>1. ReadTyped /\ ReplyTyped /\ ComposingFits /\ Packets(s)
  BY Composing DEF taskWorkflowLatestPackets
<1>2. /\ SameCall /\ compose'.stage = compose.stage
      /\ compose'.busy = [compose.busy EXCEPT ![s] = "done"]
      /\ compose'.outcome = [compose.outcome EXCEPT
                                ![s] = IF lost = {} THEN "answer" ELSE "refused"]
  BY <1>1 DEF taskWorkflowLatestPackets, ReadTyped, SameCall
<1>3. /\ ReadTyped' /\ s \in Asked(compose.op) /\ Phase(s) = "ask" /\ Phase(s)' = "done"
      /\ \A q : q # s => Phase(q)' = Phase(q)
  BY <1>1, <1>2, SourceMoves DEF taskWorkflowLatestPackets
<1>4. \A q \in Asked(compose.op) : q # s => compose'.outcome[q] = compose.outcome[q]
  BY <1>1, <1>2, <1>3 DEF ReadTyped
<1>5. compose'.op = compose.op /\ holds' = holds /\ compose'.configured = compose.configured
  BY <1>2 DEF SameCall
<1>6. s \in {"packets", "expanded_packets"}
  BY <1>1 DEF Packets
<1>7. /\ DOMAIN reply' = DOMAIN NoReply /\ reply'.is = "composing" /\ reply'.bounded = reply.bounded
      /\ reply'.section = reply.section /\ reply'.cut = reply.cut
      /\ DOMAIN reply'.status = DOMAIN reply.status
      /\ \A q \in Asked(compose.op) : q # "expanded_packets" => reply'.status[q] = reply.status[q]
  BY <1>1 DEF taskWorkflowLatestPackets, ReplyTyped, NoReply
<1>8. ReplyTyped'
  BY <1>1, <1>5, <1>7 DEF ReplyTyped
<1>9. ASSUME NEW q \in Asked(compose.op), ~Packets(q)
      PROVE  SourceFits(q)'
  <2>1. q # s /\ q # "expanded_packets"
    BY <1>1, <1>9 DEF Packets
  <2> QED
    BY <1>1, <1>2, <1>3, <1>4, <1>7, <1>9, <2>1, OthersStay DEF ComposingFits
<1>10. HeadersFit'
  <2>1. CASE s = "packets"
    <3>1. reply'.headers = holds.packets \ lost /\ reply'.warned = lost
      BY <1>1, <2>1 DEF taskWorkflowLatestPackets, ReplyTyped, NoReply
    <3> QED
      BY <1>3, <1>5, <2>1, <3>1 DEF HeadersFit
  <2>2. CASE s = "expanded_packets"
    <3>1. reply'.headers = reply.headers /\ reply'.warned = reply.warned
      BY <1>1, <2>2 DEF taskWorkflowLatestPackets, ReplyTyped, NoReply
    <3> QED
      BY <1>1, <1>3, <1>4, <1>5, <2>2, <3>1 DEF ComposingFits, HeadersFit
  <2> QED
    BY <1>6, <2>1, <2>2
<1>11. ExpandedFit'
  <2>1. Wanted(compose, "expanded_packets")' <=> Wanted(compose, "expanded_packets")
    BY <1>2, AskedForStays
  <2>2. CASE s = "packets"
    <3>1. reply'.expanded = reply.expanded /\ reply'.status = reply.status
      BY <1>1, <2>2 DEF taskWorkflowLatestPackets, ReplyTyped, NoReply
    <3> QED
      BY <1>1, <1>3, <1>5, <2>1, <2>2, <3>1 DEF ComposingFits, ExpandedFit
  <2>3. CASE s = "expanded_packets"
    <3> DEFINE told == [i \in 1..Cardinality(lost) |-> "partial"]
    <3>1. /\ reply'.expanded = holds.packets \ lost
          /\ reply'.status["expanded_packets"] = reply.status["expanded_packets"] \o told
      BY <1>1, <1>3, <2>3 DEF taskWorkflowLatestPackets, ReplyTyped, NoReply
    <3>2. reply.status["expanded_packets"] = <<>>
      BY <1>1, <1>3, <2>3 DEF ComposingFits, ExpandedFit
    <3>3. IsFiniteSet(lost) /\ Cardinality(lost) \in Nat
      BY ComposeAssumption, FS_Subset, FS_CardinalityType
    <3>4. told \in Seq({"partial"}) /\ Len(told) = Cardinality(lost)
      BY <3>3
    <3>5. <<>> \o told = told
      BY <3>4
    <3>6. told = <<>> => lost = {}
      BY <3>3, <3>4, FS_EmptySet
    <3>7. reply'.status["expanded_packets"] = <<>> => reply'.expanded = holds.packets
      BY <3>1, <3>2, <3>5, <3>6
    <3> QED
      BY <1>3, <1>5, <2>3, <3>7 DEF ExpandedFit
  <2> QED
    BY <1>6, <2>2, <2>3
<1>12. ComposingFits'
  BY <1>1, <1>5, <1>7, <1>9, <1>10, <1>11 DEF ComposingFits
<1> QED
  BY <1>3, <1>7, <1>8, <1>12 DEF ComposeInv

\* A source that is not asked is told of, if it was wanted.
LEMMA UnconfiguredInv ==
  ASSUME ComposeInv, NEW s \in DOMAIN compose.busy, unconfigured(s)
  PROVE  ComposeInv'
<1>1. ReadTyped /\ ReplyTyped /\ ComposingFits /\ ~AskedFor(s)
  BY Composing DEF unconfigured, AskedFor
<1>2. /\ SameCall /\ compose'.stage = compose.stage
      /\ compose'.busy = [compose.busy EXCEPT ![s] = "done"]
      /\ compose'.outcome = compose.outcome
  BY <1>1 DEF unconfigured, ReadTyped, SameCall
<1>3. /\ ReadTyped' /\ s \in Asked(compose.op) /\ Phase(s) = "ask" /\ Phase(s)' = "done"
      /\ \A q : q # s => Phase(q)' = Phase(q)
  BY <1>1, <1>2, SourceMoves DEF unconfigured
<1>4. compose'.op = compose.op /\ holds' = holds /\ compose'.configured = compose.configured
  BY <1>2 DEF SameCall
<1>5. /\ DOMAIN reply' = DOMAIN NoReply /\ reply'.is = "composing" /\ reply'.bounded = reply.bounded
      /\ reply'.section = reply.section /\ reply'.cut = reply.cut
      /\ reply'.headers = reply.headers /\ reply'.warned = reply.warned
      /\ reply'.expanded = reply.expanded
      /\ DOMAIN reply'.status = DOMAIN reply.status
      /\ \A q \in Asked(compose.op) : q # s => reply'.status[q] = reply.status[q]
      /\ reply'.status[s] = IF Wanted(compose, s) /\ s # "project"
                            THEN Append(reply.status[s], "unavailable") ELSE reply.status[s]
  BY <1>1, <1>3 DEF unconfigured, ReplyTyped, NoReply
<1>6. ReplyTyped'
  BY <1>1, <1>4, <1>5 DEF ReplyTyped
<1>7. /\ AskedFor(s)' <=> AskedFor(s)
      /\ \A q : Wanted(compose, q)' <=> Wanted(compose, q)
  BY <1>2, AskedForStays
<1>8. ASSUME ~Packets(s)
      PROVE  SourceFits(s)'
  <2>1. NotShown(s) /\ reply.status[s] = <<>> /\ compose.outcome[s] = "unasked"
    BY <1>1, <1>3, <1>8 DEF ComposingFits, SourceFits
  <2>2. NotShown(s)' /\ compose'.outcome[s] = "unasked"
    BY <1>2, <1>5, <2>1 DEF NotShown
  <2>3. Append(<<>>, "unavailable") = <<"unavailable">>
    OBVIOUS
  <2>4. DoneFits(s)'
    BY <1>1, <1>5, <1>7, <2>1, <2>2, <2>3 DEF DoneFits
  <2> QED
    BY <1>3, <2>4 DEF SourceFits
<1>9. ASSUME NEW q \in Asked(compose.op), ~Packets(q)
      PROVE  SourceFits(q)'
  <2>1. CASE q = s
    BY <1>8, <1>9, <2>1
  <2>2. CASE q # s
    BY <1>1, <1>2, <1>3, <1>5, <1>9, <2>2, OthersStay DEF ComposingFits
  <2> QED
    BY <2>1, <2>2
<1>10. HeadersFit'
  <2>1. s = "packets" => "messages" \notin compose.configured
    BY <1>1 DEF AskedFor, Wanted, Backend
  <2>2. s = "workflow" => compose.outcome["workflow"] = "unasked"
    BY <1>1, <1>3 DEF ComposingFits, SourceFits, Packets
  <2> QED
    BY <1>1, <1>2, <1>3, <1>4, <1>5, <2>1, <2>2 DEF ComposingFits, HeadersFit
<1>11. ExpandedFit'
  <2>1. CASE s = "expanded_packets"
    <3>1. reply.status[s] = <<>>
      BY <1>1, <1>3, <2>1 DEF ComposingFits, ExpandedFit
    <3>2. Wanted(compose, s)' => reply'.status[s] = <<"unavailable">>
      BY <1>5, <1>7, <2>1, <3>1
    <3>3. Wanted(compose, s)' => reply'.status[s] # <<>>
      BY <3>2
    <3> QED
      BY <1>3, <2>1, <3>3 DEF ExpandedFit
  <2>2. CASE s # "expanded_packets"
    BY <1>1, <1>3, <1>4, <1>5, <1>7, <2>2 DEF ComposingFits, ExpandedFit
  <2> QED
    BY <2>1, <2>2
<1>12. ComposingFits'
  BY <1>1, <1>4, <1>5, <1>9, <1>10, <1>11 DEF ComposingFits
<1> QED
  BY <1>3, <1>5, <1>6, <1>12 DEF ComposeInv

\* A call that ends early has no answer that could mislead.
LEMMA FailClosedInv ==
  ASSUME ComposeInv, NEW s \in DOMAIN compose.busy, failClosed(s)
  PROVE  ComposeInv'
<1>1. ReadTyped /\ ReplyTyped
  BY Composing DEF failClosed
<1>2. /\ DOMAIN reply' = DOMAIN NoReply /\ reply'.is \in {"unavailable", "error"}
      /\ reply'.section = reply.section /\ reply'.status = reply.status
  BY <1>1 DEF failClosed, ReplyTyped, NoReply
<1>3. compose' = compose /\ holds' = holds
  BY DEF failClosed
<1>4. ReadTyped'
  BY <1>1, <1>3 DEF ReadTyped
<1>5. ReplyTyped'
  BY <1>1, <1>2, <1>3 DEF ReplyTyped
<1> QED
  BY <1>2, <1>4, <1>5 DEF ComposeInv

LEMMA ComposedIs ==
  ASSUME ReadTyped, NEW s \in Asked(compose.op)
  PROVE  Composed(s) \in Nat /\ Composed(s) <= holds.entries[s]
         /\ AtMost(Composed(s), ItemLimit) \in Nat
         /\ AtMost(Composed(s), ItemLimit) <= holds.entries[s]
<1>1. holds.entries[s] \in Nat /\ ItemLimit \in Nat
  BY ComposeAssumption DEF ReadTyped
<1> QED
  BY <1>1 DEF Composed, AtMost

\* A section is stored whole or cut, and the workflow brings its packets.
LEMMA StoreSectionInv ==
  ASSUME ComposeInv, NEW s \in DOMAIN compose.busy, NEW lost \in SUBSET PacketKeys,
         storeSection(s, lost)
  PROVE  ComposeInv'
<1>1. ReadTyped /\ ReplyTyped /\ ComposingFits
  BY Composing DEF storeSection
<1>2. /\ SameCall /\ compose'.stage = compose.stage
      /\ compose'.busy = [compose.busy EXCEPT ![s] = "stored"]
      /\ compose'.outcome = compose.outcome
  BY <1>1 DEF storeSection, ReadTyped, SameCall
<1>3. /\ ReadTyped' /\ s \in Asked(compose.op) /\ Phase(s) = "read" /\ Phase(s)' = "stored"
      /\ \A q : q # s => Phase(q)' = Phase(q)
  BY <1>1, <1>2, SourceMoves DEF storeSection
<1>4. compose'.op = compose.op /\ holds' = holds /\ compose'.configured = compose.configured
  BY <1>2 DEF SameCall
<1> DEFINE n == Composed(s)
<1>5. /\ DOMAIN reply' = DOMAIN NoReply /\ reply'.bounded = reply.bounded
      /\ reply'.is = IF s = "review" /\ ~holds.round THEN "no_current_round" ELSE reply.is
      /\ reply'.section = [reply.section EXCEPT ![s] = IF Whole(s) THEN n ELSE AtMost(n, ItemLimit)]
      /\ reply'.cut = IF ~Whole(s) /\ Truncated(n) THEN reply.cut \union {s} ELSE reply.cut
      /\ reply'.status = reply.status /\ reply'.expanded = reply.expanded
      /\ reply'.headers = IF s = "workflow" /\ "messages" \in compose.configured
                          THEN holds.packets \ lost ELSE reply.headers
      /\ reply'.warned = IF s = "workflow" THEN lost ELSE reply.warned
  BY <1>1 DEF storeSection, ReplyTyped, NoReply, Whole
<1>6. /\ reply'.section[s] = IF Whole(s) THEN n ELSE AtMost(n, ItemLimit)
      /\ \A q \in Asked(compose.op) : q # s => reply'.section[q] = reply.section[q]
  BY <1>1, <1>3, <1>5 DEF ReplyTyped
<1>7. ReplyTyped'
  <2>1. reply'.section[s] \in Nat /\ reply'.section[s] <= holds.entries[s]
    BY <1>1, <1>3, <1>6, ComposedIs
  <2>2. reply'.section \in [Asked(compose.op) -> Nat]
    BY <1>1, <1>3, <1>5, <2>1, <1>6 DEF ReplyTyped
  <2>3. reply'.is \in {"composing", "ok", "error", "unavailable", "no_current_round", "too_large"}
    BY <1>1, <1>5 DEF ReplyTyped
  <2>4. \A q \in Asked(compose.op) : reply'.section[q] <= holds.entries[q]
    BY <1>1, <1>6, <2>1 DEF ReplyTyped
  <2> QED
    BY <1>1, <1>4, <1>5, <2>2, <2>3, <2>4 DEF ReplyTyped
<1>8. reply.is = "composing" /\ compose.busy[s] = "read" /\ compose.outcome[s] = "answer"
  BY DEF storeSection
<1>9. reply'.is # "ok"
  BY <1>5, <1>8
<1>10. ASSUME ~Packets(s)
       PROVE  SourceFits(s)'
  <2>1. AskedFor(s) /\ NotShown(s) /\ reply.status[s] = <<>>
    BY <1>1, <1>3, <1>10 DEF ComposingFits, SourceFits
  <2>2. AskedFor(s)' /\ Composed(s)' = n /\ (Whole(s)' <=> Whole(s))
    BY <1>2, <1>4, <2>1, AskedForStays DEF Whole
  <2>3. s \in reply'.cut <=> ~Whole(s) /\ Truncated(n)
    BY <1>5, <2>1 DEF NotShown
  <2>4. Shown(s)'
    BY <1>6, <2>2, <2>3 DEF Shown
  <2> QED
    BY <1>2, <1>3, <1>5, <1>8, <2>1, <2>2, <2>4 DEF SourceFits
<1>11. ASSUME NEW q \in Asked(compose.op), ~Packets(q)
       PROVE  SourceFits(q)'
  <2>1. CASE q = s
    BY <1>10, <1>11, <2>1
  <2>2. CASE q # s
    BY <1>1, <1>2, <1>3, <1>5, <1>6, <1>11, <2>2, OthersStay DEF ComposingFits
  <2> QED
    BY <2>1, <2>2
<1>12. HeadersFit'
  <2>1. CASE s = "workflow"
    <3>1. "messages" \in compose.configured =>
             holds.packets \subseteq reply'.headers \union reply'.warned
      BY <1>5, <2>1
    <3> QED
      BY <1>1, <1>3, <1>4, <2>1, <3>1 DEF ComposingFits, HeadersFit
  <2>2. CASE s # "workflow"
    <3>1. reply'.headers = reply.headers /\ reply'.warned = reply.warned
      BY <1>5, <2>2
    <3> QED
      BY <1>1, <1>2, <1>3, <1>4, <2>2, <3>1 DEF ComposingFits, HeadersFit
  <2> QED
    BY <2>1, <2>2
<1>13. ExpandedFit'
  <2>1. s # "expanded_packets"
    BY <1>1, <1>3 DEF ComposingFits, ExpandedFit
  <2>2. Wanted(compose, "expanded_packets")' <=> Wanted(compose, "expanded_packets")
    BY <1>2, AskedForStays
  <2> QED
    BY <1>1, <1>3, <1>4, <1>5, <2>1, <2>2 DEF ComposingFits, ExpandedFit
<1>14. ComposingFits'
  BY <1>1, <1>4, <1>5, <1>11, <1>12, <1>13 DEF ComposingFits
<1> QED
  BY <1>3, <1>7, <1>9, <1>14 DEF ComposeInv

\* The status is the last thing a source leaves.
LEMMA AddStatusInv ==
  ASSUME ComposeInv, NEW s \in DOMAIN compose.busy, addStatus(s)
  PROVE  ComposeInv'
<1>1. ReadTyped /\ ReplyTyped /\ ComposingFits
  BY Composing DEF addStatus
<1>2. /\ SameCall /\ compose'.stage = compose.stage
      /\ compose'.busy = [compose.busy EXCEPT ![s] = "done"]
      /\ compose'.outcome = compose.outcome
  BY <1>1 DEF addStatus, ReadTyped, SameCall
<1>3. /\ ReadTyped' /\ s \in Asked(compose.op) /\ Phase(s) = compose.busy[s] /\ Phase(s)' = "done"
      /\ \A q : q # s => Phase(q)' = Phase(q)
  BY <1>1, <1>2, SourceMoves
<1>4. compose'.op = compose.op /\ holds' = holds /\ compose'.configured = compose.configured
  BY <1>2 DEF SameCall
<1> DEFINE o == compose.outcome[s]
           silent == s = "review_findings" /\ o \in {"notfound", "answer"}
           state == IF s = "guidance" /\ holds.incomplete /\ o = "answer"
                    THEN "partial" ELSE taskContextStatus(o)
<1>5. /\ DOMAIN reply' = DOMAIN NoReply /\ reply'.is = "composing" /\ reply'.bounded = reply.bounded
      /\ reply'.section = reply.section /\ reply'.cut = reply.cut
      /\ reply'.headers = reply.headers /\ reply'.warned = reply.warned
      /\ reply'.expanded = reply.expanded
      /\ DOMAIN reply'.status = DOMAIN reply.status
      /\ \A q \in Asked(compose.op) : q # s => reply'.status[q] = reply.status[q]
      /\ reply'.status[s] = IF silent THEN reply.status[s] ELSE Append(reply.status[s], state)
  <2>1. CASE silent
    BY <1>1, <2>1 DEF addStatus, ReplyTyped, NoReply
  <2>2. CASE ~silent
    <3>1. reply' = [reply EXCEPT !.status[s] = Append(reply.status[s], state)]
      BY <2>2 DEF addStatus
    <3> HIDE DEF state
    <3> QED
      BY <1>1, <1>3, <2>2, <3>1 DEF addStatus, ReplyTyped, NoReply
  <2> QED
    BY <2>1, <2>2
<1>6. ReplyTyped'
  BY <1>1, <1>4, <1>5 DEF ReplyTyped
<1>7. /\ AskedFor(s)' <=> AskedFor(s)
      /\ \A q : Wanted(compose, q)' <=> Wanted(compose, q)
  BY <1>2, AskedForStays
<1>8. Phase(s) \in {"read", "stored"}
  BY <1>3 DEF addStatus
<1>9. ~Packets(s)
  BY <1>1, <1>3, <1>8 DEF ComposingFits, HeadersFit, ExpandedFit, Packets
<1>10. SourceFits(s)
  BY <1>1, <1>3, <1>9 DEF ComposingFits
<1>11. AskedFor(s)' /\ reply.status[s] = <<>>
  BY <1>7, <1>8, <1>10 DEF SourceFits
<1>12. DoneFits(s)'
  <2>1. CASE Phase(s) = "stored"
    <3>1. o = "answer" /\ Shown(s)
      BY <1>10, <2>1 DEF SourceFits
    <3>2. Shown(s)'
      BY <1>2, <1>4, <1>5, <3>1, AskedForStays DEF Shown, Whole
    <3>3. state = IF s = "guidance" /\ holds.incomplete THEN "partial" ELSE "ok"
      BY <3>1 DEF taskContextStatus
    <3>4. reply'.status[s] = Told(s)
      <4>1. CASE s = "review_findings"
        BY <1>5, <1>11, <3>1, <4>1 DEF Told
      <4>2. CASE s # "review_findings"
        <5>1. reply'.status[s] = Append(<<>>, state)
          BY <1>5, <1>11, <4>2
        <5> HIDE DEF state
        <5>2. Append(<<>>, state) = <<state>>
          OBVIOUS
        <5> QED
          BY <3>3, <4>2, <5>1, <5>2 DEF Told
      <4> QED
        BY <4>1, <4>2
    <3>5. Told(s)' = Told(s)
      BY <1>4 DEF Told
    <3> QED
      BY <1>2, <1>11, <3>1, <3>2, <3>4, <3>5 DEF DoneFits
  <2>2. CASE Phase(s) = "read"
    <3>1. o # "answer" /\ o \in RequestOutcomes(compose.op) /\ NotShown(s)
          /\ (NotFound(s) => holds.entries[s] = 0)
      BY <1>3, <1>10, <2>2 DEF SourceFits, addStatus
    <3>2. s \notin Required(compose.op)
      BY <1>3, <2>2, <3>1 DEF addStatus, Ends
    <3>3. NotShown(s)' /\ (NotFound(s)' <=> NotFound(s)) /\ compose'.outcome[s] = o
      BY <1>2, <1>5, <3>1 DEF NotShown, NotFound
    <3>4. IF NotFound(s) THEN reply'.status[s] = <<>> /\ holds.entries[s] = 0
          ELSE reply'.status[s] = <<taskContextStatus(o)>>
      <4>1. CASE NotFound(s)
        BY <1>5, <1>11, <3>1, <4>1 DEF NotFound
      <4>2. CASE ~NotFound(s)
        <5>1. ~silent /\ state = taskContextStatus(o)
          BY <3>1, <4>2 DEF NotFound
        <5>2. reply'.status[s] = Append(<<>>, taskContextStatus(o))
          BY <1>5, <1>11, <5>1
        <5>3. Append(<<>>, taskContextStatus(o)) = <<taskContextStatus(o)>>
          OBVIOUS
        <5> QED
          BY <4>2, <5>2, <5>3
      <4> QED
        BY <4>1, <4>2
    <3> QED
      BY <1>4, <1>11, <3>1, <3>2, <3>3, <3>4 DEF DoneFits
  <2> QED
    BY <1>8, <2>1, <2>2
<1>13. ASSUME NEW q \in Asked(compose.op), ~Packets(q)
       PROVE  SourceFits(q)'
  <2>1. CASE q = s
    BY <1>3, <1>12, <2>1 DEF SourceFits
  <2>2. CASE q # s
    BY <1>1, <1>2, <1>3, <1>5, <1>13, <2>2, OthersStay DEF ComposingFits
  <2> QED
    BY <2>1, <2>2
<1>14. HeadersFit'
  <2>1. s = "workflow" /\ Phase(s) = "read" => compose.outcome["workflow"] # "answer"
    BY <1>3 DEF addStatus
  <2>2. s # "packets"
    BY <1>9 DEF Packets
  <2> QED
    BY <1>1, <1>2, <1>3, <1>4, <1>5, <1>8, <2>1, <2>2 DEF ComposingFits, HeadersFit
<1>15. ExpandedFit'
  <2>1. s # "expanded_packets"
    BY <1>9 DEF Packets
  <2> QED
    BY <1>1, <1>3, <1>4, <1>5, <1>7, <2>1 DEF ComposingFits, ExpandedFit
<1>16. ComposingFits'
  BY <1>1, <1>4, <1>5, <1>13, <1>14, <1>15 DEF ComposingFits
<1> QED
  BY <1>3, <1>5, <1>6, <1>16 DEF ComposeInv

\* The next stage begins when all of this one have reported.
LEMMA NextStageInv ==
  ASSUME ComposeInv, nextStage
  PROVE  ComposeInv'
<1>1. ReadTyped /\ ReplyTyped /\ ComposingFits /\ reply' = reply
  BY Composing DEF nextStage
<1> DEFINE op == compose.op
           k == compose.stage
<1>2. /\ SameCall /\ compose'.stage = k + 1
      /\ compose'.busy = [s \in Stages(op)[k + 1] |-> "ask"]
      /\ compose'.outcome = compose.outcome
  BY <1>1 DEF nextStage, ReadTyped, SameCall
<1>3. compose'.op = op /\ holds' = holds /\ compose'.configured = compose.configured
  BY <1>2 DEF SameCall
<1>4. op \in Summaries /\ Len(Stages(op)) \in Nat /\ k \in 1..Len(Stages(op))
      /\ k < Len(Stages(op)) /\ DOMAIN compose.busy = Stages(op)[k]
  BY <1>1, StagesAreApart DEF ReadTyped, nextStage
<1>5. ReadTyped'
  <2>1. k + 1 \in 1..Len(Stages(op))
    BY <1>4
  <2>2. compose'.busy \in [Stages(op)[k + 1] -> {"ask", "read", "stored", "done"}]
    BY <1>2
  <2> QED
    BY <1>1, <1>2, <1>3, <2>1, <2>2 DEF ReadTyped, SameCall
<1>6. ASSUME NEW q
      PROVE  Phase(q)' = Phase(q)
  <2>1. Earlier(q)' <=> Earlier(q) \/ q \in Stages(op)[k]
    <3>1. Earlier(q)' <=> \E i \in 1..k : q \in Stages(op)[i]
      BY <1>2, <1>3, <1>4 DEF Earlier
    <3> QED
      BY <1>4, <3>1 DEF Earlier
  <2>2. CASE q \in Stages(op)[k + 1]
    <3>1. q \notin Stages(op)[k]
      BY <1>4, <2>2, StagesAreApart
    <3>2. ~Earlier(q)
      <4>1. ASSUME NEW i \in 1..(k - 1)
            PROVE  q \notin Stages(op)[i]
        <5>1. i \in 1..Len(Stages(op)) /\ k + 1 \in 1..Len(Stages(op)) /\ i # k + 1
          BY <1>4
        <5> QED
          BY <1>4, <2>2, <5>1, StagesAreApart
      <4> QED
        BY <4>1 DEF Earlier
    <3>3. Phase(q)' = "ask"
      BY <1>2, <2>2 DEF Phase
    <3> QED
      BY <1>4, <3>1, <3>2, <3>3 DEF Phase
  <2>3. CASE q \notin Stages(op)[k + 1]
    <3>1. Phase(q)' = IF Earlier(q)' THEN "done" ELSE "ask"
      BY <1>2, <2>3 DEF Phase
    <3>2. q \in Stages(op)[k] => Phase(q) = "done"
      BY <1>4 DEF Phase, nextStage
    <3> QED
      BY <1>4, <2>1, <3>1, <3>2 DEF Phase
  <2> QED
    BY <2>2, <2>3
<1>7. ReplyTyped'
  BY <1>1, <1>3 DEF ReplyTyped
<1>8. \A q \in Asked(op) : ~Packets(q) => SourceFits(q)'
  BY <1>1, <1>2, <1>6, OthersStay DEF ComposingFits
<1>9. HeadersFit' /\ ExpandedFit'
  BY <1>1, <1>2, <1>6, PacketsStay DEF ComposingFits
<1>10. ComposingFits'
  BY <1>1, <1>3, <1>8, <1>9 DEF ComposingFits
<1> QED
  BY <1>1, <1>5, <1>7, <1>10 DEF ComposeInv, nextStage

LEMMA CallBegins ==
  ASSUME NEW op, NEW verbose, NEW agent, NEW section, composeCall(op, verbose, section, agent)
  PROVE  \E entries, there :
            /\ holds'.entries = entries /\ entries \in [Asked(op) -> Held]
            /\ compose' = StartedCall(op, verbose, section, agent, there)
            /\ reply' = StartedReply(op, there)
<1>1. \E entries, packets, round, incomplete, there :
         /\ entries \in [Asked(op) -> Held]
         /\ holds' = [entries |-> entries, packets |-> packets, round |-> round,
                      incomplete |-> incomplete]
         /\ compose' = StartedCall(op, verbose, section, agent, there)
         /\ reply' = StartedReply(op, there)
  BY ZenonT(60) DEF composeCall
<1>2. ASSUME NEW entries, NEW packets, NEW round, NEW incomplete,
             holds' = [entries |-> entries, packets |-> packets, round |-> round,
                       incomplete |-> incomplete]
      PROVE  holds'.entries = entries
  BY <1>2
<1> QED
  BY <1>1, <1>2, Zenon

\* A call begins with nothing asked.
LEMMA ComposeCallInv ==
  ASSUME ComposeInv, NEW op \in ComposedReads, NEW verbose \in BOOLEAN, NEW agent \in BOOLEAN,
         NEW section, composeCall(op, verbose, section, agent)
  PROVE  ComposeInv'
<1>1. op \in Summaries
  BY ComposeAssumption DEF Summaries
<1>2. PICK entries, there :
         /\ holds'.entries = entries /\ entries \in [Asked(op) -> Held]
         /\ compose' = StartedCall(op, verbose, section, agent, there)
         /\ reply' = StartedReply(op, there)
  BY CallBegins, Zenon
<1>3. /\ compose'.op = op /\ compose'.configured = there /\ compose'.stage = 1
      /\ compose'.busy = [s \in Stages(op)[1] |-> "ask"]
      /\ compose'.outcome = [s \in Asked(op) |-> "unasked"]
      /\ DOMAIN compose' = {"op", "verbose", "section", "agent", "configured", "stage", "busy",
                            "outcome"}
  BY <1>2 DEF StartedCall
<1>4. holds'.entries = entries
  BY <1>2
<1>5. /\ DOMAIN reply' = DOMAIN NoReply /\ reply'.bounded = FALSE /\ reply'.cut = {}
      /\ reply'.section = [s \in Asked(op) |-> 0] /\ reply'.status = [s \in Asked(op) |-> <<>>]
      /\ reply'.is = IF RequiredBackends(op) \subseteq there THEN "composing" ELSE "error"
  BY <1>2 DEF StartedReply, NoReply
<1>6. entries \in [Asked(op) -> Nat]
  BY <1>2, ComposeAssumption
<1>7. ReadTyped'
  <2>1. 1 \in 1..Len(Stages(op))
    BY <1>1, StagesAreApart
  <2>2. compose'.busy \in [Stages(op)[1] -> {"ask", "read", "stored", "done"}]
    BY <1>3
  <2> QED
    BY <1>1, <1>3, <1>4, <1>6, <2>1, <2>2 DEF ReadTyped
<1>8. ReplyTyped'
  BY <1>3, <1>4, <1>5, <1>6 DEF ReplyTyped
<1>9. \A q : Phase(q)' = "ask"
  BY <1>3 DEF Phase, Earlier
<1>10. \A q \in Asked(op) : SourceFits(q)'
  BY <1>3, <1>5, <1>9 DEF SourceFits, NotShown
<1>11. HeadersFit' /\ ExpandedFit'
  BY <1>3, <1>5, <1>9 DEF HeadersFit, ExpandedFit
<1>12. reply'.is = "composing" => ComposingFits'
  BY <1>3, <1>5, <1>10, <1>11 DEF ComposingFits
<1> QED
  BY <1>5, <1>7, <1>8, <1>12 DEF ComposeInv

-----------------------------------------------------------------------------
(* The answer                                                                *)

LEMMA AllDone ==
  ASSUME ReadTyped, \A s \in DOMAIN compose.busy : compose.busy[s] = "done",
         compose.stage = Len(Stages(compose.op)), NEW q \in Asked(compose.op)
  PROVE  Phase(q) = "done"
<1>1. PICK i \in 1..Len(Stages(compose.op)) : q \in Stages(compose.op)[i]
  BY StagesAreApart DEF ReadTyped, Asked
<1>2. Len(Stages(compose.op)) \in Nat
  BY StagesAreApart DEF ReadTyped
<1>3. CASE i = compose.stage
  BY <1>1, <1>3 DEF ReadTyped, Phase
<1>4. CASE i # compose.stage
  <2>1. i \in 1..(compose.stage - 1)
    BY <1>2, <1>4
  <2>2. Earlier(q)
    BY <1>1, <2>1 DEF Earlier
  <2> QED
    BY <2>2 DEF Phase
<1> QED
  BY <1>3, <1>4

\* A section that was stored says that it was cut exactly when it was.
LEMMA ShownIsCut ==
  ASSUME ReadTyped, NEW s \in Asked(compose.op), Shown(s)
  PROVE  reply.section[s] <= Composed(s) /\ (s \in reply.cut <=> reply.section[s] < Composed(s))
<1>1. Composed(s) \in Nat /\ ItemLimit \in Nat
  BY ComposedIs, ComposeAssumption
<1>2. CASE Whole(s)
  BY <1>1, <1>2 DEF Shown
<1>3. CASE ~Whole(s)
  BY <1>1, <1>3 DEF Shown, AtMost, Truncated
<1> QED
  BY <1>2, <1>3

\* What an answer has of a source that answered, and of one that did not.
AnsweredBy(s) == AskedFor(s) /\ compose.outcome[s] = "answer"
CutFits(r, s) ==
    /\ AnsweredBy(s) => r.section[s] <= Composed(s) /\ (s \in r.cut <=> r.section[s] < Composed(s))
    /\ ~AnsweredBy(s) => r.section[s] = 0 /\ s \notin r.cut

LEMMA DoneIsCut ==
  ASSUME ReadTyped, NEW s \in Asked(compose.op), DoneFits(s)
  PROVE  CutFits(reply, s)
<1>1. CASE AnsweredBy(s)
  <2>1. Shown(s)
    BY <1>1 DEF DoneFits, AnsweredBy
  <2> QED
    BY <1>1, <2>1, ShownIsCut DEF CutFits
<1>2. CASE ~AnsweredBy(s)
  BY <1>2 DEF CutFits, DoneFits, AnsweredBy, NotShown
<1> QED
  BY <1>1, <1>2

\* The bounded review context: too large, as it was, or without its guidance.
BoundTo(r, w) ==
    /\ DOMAIN w = DOMAIN NoReply
    /\ w.status = r.status /\ w.warned = r.warned /\ w.headers = r.headers
    /\ w.expanded = r.expanded
    /\ \/ w.is = "too_large" /\ w.section = r.section
       \/ /\ w.is = "ok" /\ w.section = r.section /\ w.cut = r.cut /\ w.bounded = FALSE
          /\ Weight(w, 1, 2) <= Budget
       \/ /\ w.is = "ok" /\ w.section = [r.section EXCEPT !["guidance"] = 0]
          /\ w.cut = (IF r.section["guidance"] > 0 THEN r.cut \union {"guidance"} ELSE r.cut)
                        \union {"packets"}
          /\ w.bounded = TRUE /\ Weight(w, 0, 1) <= Budget

LEMMA BoundIs ==
  ASSUME NEW r, DOMAIN r = DOMAIN NoReply, "guidance" \in DOMAIN r.section, r.bounded = FALSE
  PROVE  BoundTo(r, boundReviewContext(r))
<1> DEFINE w == boundReviewContext(r)
<1> DEFINE dropped == [r EXCEPT !.bounded = TRUE, !.section["guidance"] = 0,
                             !.cut = (IF r.section["guidance"] > 0
                                      THEN @ \union {"guidance"} ELSE @)
                                     \union {"packets"}]
<1>1. /\ DOMAIN dropped = DOMAIN NoReply
      /\ dropped.status = r.status /\ dropped.warned = r.warned /\ dropped.headers = r.headers
      /\ dropped.expanded = r.expanded /\ dropped.bounded = TRUE
      /\ dropped.section = [r.section EXCEPT !["guidance"] = 0]
      /\ dropped.cut = (IF r.section["guidance"] > 0 THEN r.cut \union {"guidance"} ELSE r.cut)
                             \union {"packets"}
  BY DEF NoReply
<1>2. ASSUME NEW x, NEW v, DOMAIN x = DOMAIN NoReply
      PROVE  /\ DOMAIN [x EXCEPT !.is = v] = DOMAIN NoReply /\ [x EXCEPT !.is = v].is = v
             /\ [x EXCEPT !.is = v].section = x.section /\ [x EXCEPT !.is = v].cut = x.cut
             /\ [x EXCEPT !.is = v].status = x.status /\ [x EXCEPT !.is = v].warned = x.warned
             /\ [x EXCEPT !.is = v].headers = x.headers
             /\ [x EXCEPT !.is = v].expanded = x.expanded
             /\ [x EXCEPT !.is = v].bounded = x.bounded
  BY <1>2 DEF NoReply
<1> HIDE DEF dropped
<1>3. \/ w = [r EXCEPT !.is = "too_large"]
      \/ w = [r EXCEPT !.is = "ok"] /\ Weight(r, 1, 2) <= Budget
      \/ w = [dropped EXCEPT !.is = "ok"] /\ Weight(dropped, 0, 1) <= Budget
  BY DEF boundReviewContext, dropped
<1> HIDE DEF w
<1>4. ASSUME w = [r EXCEPT !.is = "too_large"]
      PROVE  BoundTo(r, w)
  BY <1>2, <1>4 DEF BoundTo
<1>5. ASSUME w = [r EXCEPT !.is = "ok"] /\ Weight(r, 1, 2) <= Budget
      PROVE  BoundTo(r, w)
  <2>1. w.section = r.section /\ w.expanded = r.expanded /\ w.headers = r.headers
    BY <1>2, <1>5
  <2>2. Weight(w, 1, 2) = Weight(r, 1, 2)
    BY <2>1 DEF Weight
  <2> QED
    BY <1>2, <1>5, <2>2 DEF BoundTo
<1>6. ASSUME w = [dropped EXCEPT !.is = "ok"] /\ Weight(dropped, 0, 1) <= Budget
      PROVE  BoundTo(r, w)
  <2>1. w.section = dropped.section /\ w.expanded = dropped.expanded /\ w.headers = dropped.headers
    BY <1>1, <1>2, <1>6
  <2>2. Weight(w, 0, 1) = Weight(dropped, 0, 1)
    BY <2>1 DEF Weight
  <2> QED
    BY <1>1, <1>2, <1>6, <2>2 DEF BoundTo
<1>7. BoundTo(r, w)
  BY <1>3, <1>4, <1>5, <1>6
<1> QED
  BY <1>7 DEF w

\* The answer without its status: the sections as they were stored, or the
\* review context within its budget.
LEMMA BuiltIs ==
  ASSUME ReadTyped, ReplyTyped, ComposingFits, buildReply,
         \A s \in Asked(compose.op) : ~Packets(s) => DoneFits(s)
  PROVE  /\ DOMAIN reply' = DOMAIN NoReply /\ reply'.is \in {"ok", "too_large"}
         /\ reply'.status = reply.status /\ reply'.warned = reply.warned
         /\ reply'.headers = reply.headers /\ reply'.expanded = reply.expanded
         /\ reply'.section \in [Asked(compose.op) -> Nat]
         /\ \A s \in Asked(compose.op) : reply'.section[s] <= reply.section[s]
         /\ reply'.is = "ok" =>
               /\ \A s \in Asked(compose.op) : ~Packets(s) => CutFits(reply', s)
               /\ compose.op = "get_review_context" =>
                     Weight(reply', IF reply'.bounded THEN 0 ELSE 1,
                            IF reply'.bounded THEN 1 ELSE 2) <= Budget
<1>1. \A s \in Asked(compose.op) : ~Packets(s) => CutFits(reply, s)
  BY DoneIsCut
<1>2. CASE compose.op # "get_review_context"
  <2>1. reply' = [reply EXCEPT !.is = "ok"]
    BY <1>2 DEF buildReply
  <2>2. /\ DOMAIN reply' = DOMAIN NoReply /\ reply'.is = "ok" /\ reply'.section = reply.section
        /\ reply'.cut = reply.cut /\ reply'.status = reply.status
        /\ reply'.warned = reply.warned /\ reply'.headers = reply.headers
        /\ reply'.expanded = reply.expanded
    BY <2>1 DEF ReplyTyped, NoReply
  <2>3. \A s \in Asked(compose.op) : ~Packets(s) => CutFits(reply', s)
    BY <1>1, <2>2 DEF CutFits
  <2> QED
    BY <1>2, <2>2, <2>3 DEF ReplyTyped
<1>3. CASE compose.op = "get_review_context"
  <2> DEFINE n == reply.section["guidance"]
             r == [reply EXCEPT !.section["guidance"] = AtMost(n, ItemLimit),
                                !.cut = IF Truncated(n) THEN @ \union {"guidance"} ELSE @]
  <2>1. reply' = boundReviewContext(r)
    BY <1>3 DEF buildReply
  <2>2. "guidance" \in Asked(compose.op) /\ ~Packets("guidance") /\ ItemLimit \in Nat \ {0}
    BY <1>3, AskedIs, ComposeAssumption DEF Packets
  <2>3. /\ DOMAIN r = DOMAIN NoReply /\ r.status = reply.status /\ r.warned = reply.warned
        /\ r.headers = reply.headers /\ r.expanded = reply.expanded /\ r.bounded = FALSE
        /\ r.section = [reply.section EXCEPT !["guidance"] = AtMost(n, ItemLimit)]
        /\ r.cut = IF Truncated(n) THEN reply.cut \union {"guidance"} ELSE reply.cut
    BY DEF ReplyTyped, NoReply, ComposingFits
  <2>4. n \in Nat /\ AtMost(n, ItemLimit) \in Nat /\ AtMost(n, ItemLimit) <= n
    BY <2>2 DEF ReplyTyped, AtMost
  <2> HIDE DEF r, n
  <2>5. /\ r.section \in [Asked(compose.op) -> Nat]
        /\ r.section["guidance"] = AtMost(n, ItemLimit)
        /\ \A s \in Asked(compose.op) : s # "guidance" => r.section[s] = reply.section[s]
        /\ \A s \in Asked(compose.op) : r.section[s] <= reply.section[s]
    <3>1. r.section \in [Asked(compose.op) -> Nat]
      BY <2>2, <2>3, <2>4 DEF ReplyTyped
    <3>2. r.section["guidance"] = AtMost(n, ItemLimit)
          /\ \A s \in Asked(compose.op) : s # "guidance" => r.section[s] = reply.section[s]
      BY <2>2, <2>3 DEF ReplyTyped
    <3>3. ASSUME NEW s \in Asked(compose.op)
          PROVE  r.section[s] <= reply.section[s]
      <4>1. CASE s = "guidance"
        BY <2>4, <3>2, <4>1 DEF n
      <4>2. CASE s # "guidance"
        BY <3>2, <4>2 DEF ReplyTyped
      <4> QED
        BY <4>1, <4>2
    <3> QED
      BY <3>1, <3>2, <3>3
  <2>6. /\ n = (IF AnsweredBy("guidance") THEN Composed("guidance") ELSE 0)
        /\ "guidance" \notin reply.cut
    <3>1. Whole("guidance") /\ DoneFits("guidance")
      BY <1>3, <2>2 DEF Whole
    <3>2. CASE AnsweredBy("guidance")
      BY <3>1, <3>2 DEF DoneFits, AnsweredBy, Shown, n
    <3>3. CASE ~AnsweredBy("guidance")
      BY <3>1, <3>3 DEF DoneFits, AnsweredBy, NotShown, n
    <3> QED
      BY <3>2, <3>3
  <2>7. ASSUME NEW s \in Asked(compose.op), ~Packets(s)
        PROVE  CutFits(r, s)
    <3>1. CASE s = "guidance"
      BY <2>2, <2>3, <2>4, <2>5, <2>6, <3>1 DEF CutFits, AtMost, Truncated
    <3>2. CASE s # "guidance"
      BY <1>1, <2>3, <2>5, <2>7, <3>2 DEF CutFits
    <3> QED
      BY <3>1, <3>2
  <2>8. /\ DOMAIN reply' = DOMAIN NoReply
        /\ reply'.status = r.status /\ reply'.warned = r.warned /\ reply'.headers = r.headers
        /\ reply'.expanded = r.expanded
        /\ \/ reply'.is = "too_large" /\ reply'.section = r.section
           \/ /\ reply'.is = "ok" /\ reply'.section = r.section /\ reply'.cut = r.cut
              /\ reply'.bounded = FALSE /\ Weight(reply', 1, 2) <= Budget
           \/ /\ reply'.is = "ok" /\ reply'.section = [r.section EXCEPT !["guidance"] = 0]
              /\ reply'.cut = (IF r.section["guidance"] > 0 THEN r.cut \union {"guidance"}
                               ELSE r.cut) \union {"packets"}
              /\ reply'.bounded = TRUE /\ Weight(reply', 0, 1) <= Budget
    <3>1. "guidance" \in DOMAIN r.section
      BY <2>2, <2>5
    <3>2. BoundTo(r, reply')
      BY <2>1, <2>3, <3>1, BoundIs
    <3> QED
      BY <3>2 DEF BoundTo
  <2>9. CASE reply'.is = "too_large" /\ reply'.section = r.section
    BY <2>3, <2>5, <2>8, <2>9
  <2>10. CASE /\ reply'.is = "ok" /\ reply'.section = r.section /\ reply'.cut = r.cut
              /\ reply'.bounded = FALSE /\ Weight(reply', 1, 2) <= Budget
    <3>1. \A s \in Asked(compose.op) : ~Packets(s) => CutFits(reply', s)
      BY <2>7, <2>10 DEF CutFits
    <3> QED
      BY <2>3, <2>5, <2>8, <2>10, <3>1
  <2>11. CASE /\ reply'.is = "ok" /\ reply'.section = [r.section EXCEPT !["guidance"] = 0]
              /\ reply'.cut = (IF r.section["guidance"] > 0 THEN r.cut \union {"guidance"}
                               ELSE r.cut) \union {"packets"}
              /\ reply'.bounded = TRUE /\ Weight(reply', 0, 1) <= Budget
    <3>1. /\ reply'.section \in [Asked(compose.op) -> Nat] /\ reply'.section["guidance"] = 0
          /\ \A s \in Asked(compose.op) : s # "guidance" => reply'.section[s] = r.section[s]
      BY <2>2, <2>5, <2>11
    <3>2. \A s \in Asked(compose.op) : reply'.section[s] <= reply.section[s]
      BY <2>5, <3>1 DEF ReplyTyped
    <3>3. ASSUME NEW s \in Asked(compose.op), ~Packets(s)
          PROVE  CutFits(reply', s)
      <4>1. s # "packets"
        BY <3>3 DEF Packets
      <4>2. CASE s = "guidance"
        <5>1. CutFits(r, s)
          BY <2>7, <3>3
        <5>2. reply'.section[s] = 0 /\ r.section[s] \in Nat
              /\ (s \in reply'.cut <=> r.section[s] > 0 \/ s \in r.cut)
          BY <2>5, <2>11, <3>1, <4>1, <4>2
        <5>3. Composed(s) \in Nat
          BY <4>2, ComposedIs
        <5> QED
          BY <5>1, <5>2, <5>3 DEF CutFits
      <4>3. CASE s # "guidance"
        <5>1. reply'.section[s] = r.section[s] /\ (s \in reply'.cut <=> s \in r.cut)
          BY <2>11, <3>1, <4>1, <4>3
        <5> QED
          BY <2>7, <3>3, <5>1 DEF CutFits
      <4> QED
        BY <4>2, <4>3
    <3> QED
      BY <2>3, <2>8, <2>11, <3>1, <3>2, <3>3
  <2> QED
    BY <2>8, <2>9, <2>10, <2>11
<1> QED
  BY <1>2, <1>3

\* The answer says of a source that it failed, was cut or was not configured.
ToldOf(r, s) == s \in r.cut \/ \E i \in DOMAIN r.status[s] : r.status[s][i] # "ok"

\* What the answer says of one source is the truth, and all of it.
LEMMA SourceIsTold ==
  ASSUME ReadTyped, NEW r, NEW s \in Asked(compose.op), ~Packets(s), Wanted(compose, s),
         DoneFits(s), r.status[s] = reply.status[s], CutFits(r, s)
  PROVE  /\ r.section[s] < Composed(s) =>
               ToldOf(r, s) \/ (s = "project" /\ "projects" \notin compose.configured)
         /\ ToldOf(r, s) => \/ r.section[s] < Composed(s)
                            \/ compose.outcome[s] \notin {"answer", "notfound"}
                            \/ Backend(s) \notin compose.configured
                            \/ s = "guidance" /\ holds.incomplete
                            \/ compose.outcome[s] = "notfound"
<1>1. CASE ~AskedFor(s)
  <2>1. Backend(s) \notin compose.configured
    BY <1>1 DEF AskedFor
  <2>2. CASE s = "project"
    BY <2>1, <2>2 DEF Backend
  <2>3. CASE s # "project"
    <3>1. reply.status[s] = <<"unavailable">>
      BY <1>1, <2>3 DEF DoneFits
    <3>2. ToldOf(r, s)
      BY <3>1 DEF ToldOf
    <3> QED
      BY <2>1, <3>2
  <2> QED
    BY <2>2, <2>3
<1>2. CASE AnsweredBy(s)
  <2>1. s \in r.cut <=> r.section[s] < Composed(s)
    BY <1>2 DEF CutFits
  <2>2. reply.status[s] = Told(s)
    BY <1>2 DEF DoneFits, AnsweredBy
  <2>3. ASSUME NEW i \in DOMAIN r.status[s], r.status[s][i] # "ok"
        PROVE  s = "guidance" /\ holds.incomplete
    <3>1. r.status[s] = Told(s)
      BY <2>2
    <3> QED
      BY <2>3, <3>1 DEF Told
  <2> QED
    BY <2>1, <2>3 DEF ToldOf
<1>3. CASE AskedFor(s) /\ compose.outcome[s] # "answer"
  <2>1. r.section[s] = 0
    BY <1>3 DEF CutFits, AnsweredBy
  <2>2. CASE NotFound(s)
    <3>1. holds.entries[s] = 0
      BY <1>3, <2>2 DEF DoneFits
    <3>2. Composed(s) = 0
      BY <2>2, <3>1 DEF Composed, NotFound
    <3> QED
      BY <2>1, <2>2, <3>2 DEF NotFound
  <2>3. CASE ~NotFound(s)
    <3>1. reply.status[s] = <<taskContextStatus(compose.outcome[s])>>
      BY <1>3, <2>3 DEF DoneFits
    <3>2. taskContextStatus(compose.outcome[s]) # "ok"
      BY <1>3 DEF taskContextStatus
    <3>3. ToldOf(r, s)
      BY <3>1, <3>2 DEF ToldOf
    <3> QED
      BY <1>3, <3>3
  <2> QED
    BY <2>2, <2>3
<1> QED
  BY <1>1, <1>2, <1>3 DEF AnsweredBy

\* Each of the sources of a task context reports once, and the packets the
\* workflow could not bring are told.
LEMMA TaskContextIsTold ==
  ASSUME ReadTyped, compose.op = "get_task_context", HeadersFit,
         \A s \in Asked(compose.op) : Phase(s) = "done" /\ DoneFits(s)
  PROVE  /\ \A s \in Stages(compose.op)[2] : Len(reply.status[s]) = 1
         /\ \/ holds.packets \subseteq reply.headers \union reply.warned
            \/ \E i \in DOMAIN reply.status["workflow"] : reply.status["workflow"][i] # "ok"
            \/ \E i \in DOMAIN reply.status["task_thread"] : reply.status["task_thread"][i] # "ok"
<1>1. Stages(compose.op)[2] = {"workflow", "task_thread", "guidance", "librarian"}
  BY StagesOf
<1>2. ASSUME NEW s \in Stages(compose.op)[2]
      PROVE  /\ s \in Asked(compose.op) /\ Wanted(compose, s)
             /\ \/ ~AskedFor(s) /\ reply.status[s] = <<"unavailable">>
                \/ AnsweredBy(s) /\ reply.status[s] = Told(s)
                \/ /\ AskedFor(s) /\ compose.outcome[s] # "answer"
                   /\ reply.status[s] = <<taskContextStatus(compose.outcome[s])>>
  <2>1. s \in Asked(compose.op) /\ s \notin {"unread", "review_findings", "expanded_packets",
                                            "project"}
    BY <1>1, AskedIs
  <2>2. Wanted(compose, s) /\ ~NotFound(s)
    BY <2>1 DEF Wanted, NotFound
  <2>3. DoneFits(s)
    BY <2>1
  <2> QED
    BY <2>1, <2>2, <2>3 DEF DoneFits, AnsweredBy
<1>3. ASSUME NEW s \in Stages(compose.op)[2]
      PROVE  Len(reply.status[s]) = 1
  <2>1. s # "review_findings"
    BY <1>1
  <2>2. Len(Told(s)) = 1
    BY <2>1 DEF Told
  <2> QED
    BY <1>2, <2>2
<1>4. CASE AnsweredBy("workflow") /\ "messages" \in compose.configured
  <2>1. "workflow" \in Asked(compose.op) /\ Phase("workflow") = "done"
    BY <1>1, <1>2
  <2>2. holds.packets \subseteq reply.headers \union reply.warned
    BY <1>4, <2>1 DEF HeadersFit, AnsweredBy
  <2> QED
    BY <1>3, <2>2
<1>5. CASE AnsweredBy("workflow") /\ "messages" \notin compose.configured
  <2>1. ~AskedFor("task_thread")
    BY <1>5 DEF AskedFor, Backend
  <2>2. reply.status["task_thread"] = <<"unavailable">>
    BY <1>1, <1>2, <2>1 DEF AnsweredBy
  <2> QED
    BY <1>3, <2>2
<1>6. CASE ~AnsweredBy("workflow")
  <2>1. PICK x : reply.status["workflow"] = <<x>> /\ x # "ok"
    BY <1>1, <1>2, <1>6 DEF taskContextStatus, AnsweredBy
  <2> QED
    BY <1>3, <2>1
<1> QED
  BY <1>3, <1>4, <1>5, <1>6

\* The answer is honest.
LEMMA BuildReplyInv ==
  ASSUME ComposeInv, buildReply
  PROVE  ComposeInv'
<1>1. ReadTyped /\ ReplyTyped /\ ComposingFits /\ holds' = holds /\ compose' = compose
  BY Composing DEF buildReply
<1>2. \A s \in Asked(compose.op) : Phase(s) = "done"
  BY <1>1, AllDone DEF buildReply
<1>3. \A s \in Asked(compose.op) : ~Packets(s) => DoneFits(s)
  BY <1>1, <1>2 DEF ComposingFits, SourceFits
<1>4. /\ DOMAIN reply' = DOMAIN NoReply /\ reply'.is \in {"ok", "too_large"}
      /\ reply'.status = reply.status /\ reply'.warned = reply.warned
      /\ reply'.headers = reply.headers /\ reply'.expanded = reply.expanded
      /\ reply'.section \in [Asked(compose.op) -> Nat]
      /\ \A s \in Asked(compose.op) : reply'.section[s] <= reply.section[s]
  BY <1>1, <1>3, BuiltIs
<1>5. reply'.is = "ok" =>
        /\ \A s \in Asked(compose.op) : ~Packets(s) => CutFits(reply', s)
        /\ compose.op = "get_review_context" =>
              Weight(reply', IF reply'.bounded THEN 0 ELSE 1,
                     IF reply'.bounded THEN 1 ELSE 2) <= Budget
  BY <1>1, <1>3, BuiltIs
<1>6. ReadTyped'
  BY <1>1 DEF ReadTyped
<1>7. ReplyTyped'
  <2>1. \A s \in Asked(compose.op) : reply'.section[s] <= holds.entries[s]
    BY <1>1, <1>4 DEF ReplyTyped, ReadTyped
  <2> QED
    BY <1>1, <1>4, <2>1 DEF ReplyTyped
<1>8. ASSUME reply'.is = "ok"
      PROVE  ContextIsHonest'
  <2> DEFINE asked == {s \in Asked(compose.op) : Wanted(compose, s)}
  <2>1. ComposeTypeOK'
    BY <1>1, <1>7, <1>8 DEF ReplyTyped, ComposeTypeOK
  <2>2. \A s \in Required(compose.op) \intersect asked : compose.outcome[s] = "answer"
    <3>1. ASSUME NEW s \in Required(compose.op), Wanted(compose, s)
          PROVE  compose.outcome[s] = "answer"
      <4>1. s \in Asked(compose.op) /\ ~Packets(s) /\ Backend(s) \in RequiredBackends(compose.op)
        BY <1>1, RequiredAsked DEF ReadTyped
      <4>2. AskedFor(s) /\ DoneFits(s)
        BY <1>1, <1>3, <3>1, <4>1 DEF ComposingFits, AskedFor
      <4> QED
        BY <4>2 DEF DoneFits
    <3> QED
      BY <3>1
  <2>3. ASSUME NEW s \in asked, ~Packets(s)
        PROVE  /\ reply'.section[s] < Composed(s) =>
                     ToldOf(reply', s) \/ (s = "project" /\ "projects" \notin compose.configured)
               /\ ToldOf(reply', s) => \/ reply'.section[s] < Composed(s)
                                       \/ compose.outcome[s] \notin {"answer", "notfound"}
                                       \/ Backend(s) \notin compose.configured
                                       \/ s = "guidance" /\ holds.incomplete
                                       \/ compose.outcome[s] = "notfound"
    <3>1. s \in Asked(compose.op) /\ Wanted(compose, s) /\ DoneFits(s) /\ CutFits(reply', s)
          /\ reply'.status[s] = reply.status[s]
      BY <1>3, <1>4, <1>5, <1>8, <2>3
    <3> QED
      BY <1>1, <2>3, <3>1, SourceIsTold
  <2>4. "messages" \in compose.configured /\ asked \intersect {"packets"} # {} =>
            holds.packets \subseteq reply'.headers \union reply'.warned
    BY <1>1, <1>2, <1>4 DEF ComposingFits, HeadersFit
  <2>5. "expanded_packets" \in asked /\ reply'.status["expanded_packets"] = <<>> =>
            reply'.expanded = holds.packets
    BY <1>1, <1>2, <1>4 DEF ComposingFits, ExpandedFit
  <2>6. ASSUME compose.op = "get_task_context"
        PROVE  /\ \A s \in Stages(compose.op)[2] : Len(reply'.status[s]) = 1
               /\ \/ holds.packets \subseteq reply'.headers \union reply'.warned
                  \/ ToldOf(reply', "workflow") \/ ToldOf(reply', "task_thread")
    <3>1. \A s \in Asked(compose.op) : ~Packets(s)
      BY <2>6, AskedIs DEF Packets
    <3> QED
      BY <1>1, <1>2, <1>3, <1>4, <2>6, <3>1, TaskContextIsTold DEF ComposingFits, ToldOf
  <2>7. compose.op = "get_review_context" =>
            Weight(reply', IF reply'.bounded THEN 0 ELSE 1,
                   IF reply'.bounded THEN 1 ELSE 2) <= Budget
    BY <1>5, <1>8
  <2> QED
    <3> DEFINE failed(s) == compose'.outcome[s] \notin {"answer", "notfound"}
               told(s) == s \in reply'.cut
                          \/ \E i \in DOMAIN reply'.status[s] : reply'.status[s][i] # "ok"
    <3>1. {s \in Asked(compose'.op) : Wanted(compose', s)} = asked
      BY <1>1
    <3>2. \A s \in asked : ~Packets(s) =>
                     /\ reply'.section[s] < Composed(s)' =>
                           told(s) \/ (s = "project" /\ "projects" \notin compose'.configured)
                     /\ told(s) => \/ reply'.section[s] < Composed(s)'
                                   \/ failed(s) \/ Backend(s) \notin compose'.configured
                                   \/ s = "guidance" /\ holds'.incomplete
                                   \/ compose'.outcome[s] = "notfound"
      BY <1>1, <2>3 DEF ToldOf, Composed
    <3>3. compose'.op = "get_task_context" =>
                     /\ \A s \in Stages(compose'.op)[2] : Len(reply'.status[s]) = 1
                     /\ "workflow" \in DOMAIN reply'.status =>
                           \/ holds'.packets \subseteq reply'.headers \union reply'.warned
                           \/ told("workflow") \/ told("task_thread")
      BY <1>1, <2>6 DEF ToldOf
    <3>4. compose'.op = "get_review_context" =>
                     Weight(reply', IF reply'.bounded THEN 0 ELSE 1,
                            IF reply'.bounded THEN 1 ELSE 2) <= Budget'
      BY <1>1, <2>7 DEF Budget
    <3>5. /\ \A s \in Required(compose'.op) \intersect asked : compose'.outcome[s] = "answer"
          /\ "messages" \in compose'.configured /\ asked \intersect {"packets"} # {} =>
                     holds'.packets \subseteq reply'.headers \union reply'.warned
          /\ "expanded_packets" \in asked /\ reply'.status["expanded_packets"] = <<>> =>
                     reply'.expanded = holds'.packets
      BY <1>1, <2>2, <2>4, <2>5
    <3> HIDE DEF asked
    <3> QED
      BY <2>1, <3>1, <3>2, <3>3, <3>4, <3>5 DEF ContextIsHonest
<1> QED
  BY <1>4, <1>6, <1>7, <1>8 DEF ComposeInv

-----------------------------------------------------------------------------
(* The theorem                                                               *)

LEMMA ComposeStutter ==
  ASSUME ComposeInv, UNCHANGED composeVars
  PROVE  ComposeInv'
<1>1. holds' = holds /\ compose' = compose /\ reply' = reply
  BY DEF composeVars
<1> QED
  <2>1. CASE compose.op = "none" /\ reply = NoReply /\ compose.busy = <<>>
    BY <1>1, <2>1 DEF ComposeInv, NoReply
  <2>2. CASE ReadTyped /\ ReplyTyped
    <3>1. ReadTyped' /\ ReplyTyped'
      BY <1>1, <2>2 DEF ReadTyped, ReplyTyped
    <3>2. reply.is = "composing" => ComposingFits'
      <4>1. SameCall /\ \A q : Phase(q)' = Phase(q)
        BY <1>1 DEF SameCall, Phase, Earlier
      <4>2. ASSUME ComposingFits
            PROVE  ComposingFits'
        <5>1. \A q \in Asked(compose.op) : ~Packets(q) => SourceFits(q)'
          BY <1>1, <4>1, <4>2, OthersStay DEF ComposingFits
        <5>2. HeadersFit' /\ ExpandedFit'
          BY <1>1, <4>1, <4>2, PacketsStay DEF ComposingFits
        <5> QED
          BY <1>1, <4>2, <5>1, <5>2 DEF ComposingFits
      <4> QED
        BY <2>2, <4>2 DEF ComposeInv, NoReply
    <3>3. ContextIsHonest => ContextIsHonest'
      <4>1. {s \in Asked(compose.op) : Wanted(compose, s)}'
              = {s \in Asked(compose.op) : Wanted(compose, s)}
        BY <1>1
      <4>2. (\A s : Composed(s)' = Composed(s)) /\ Budget' = Budget
            /\ (ComposeTypeOK' <=> ComposeTypeOK)
        BY <1>1 DEF Composed, Budget, ComposeTypeOK
      <4> QED
        BY <1>1, <4>1, <4>2 DEF ContextIsHonest
    <3> QED
      BY <1>1, <2>2, <3>1, <3>2, <3>3 DEF ComposeInv, NoReply
  <2> QED
    BY <2>1, <2>2 DEF ComposeInv

LEMMA ComposeNextInv ==
  ASSUME ComposeInv, ComposeNext
  PROVE  ComposeInv'
<1>1. ASSUME NEW op \in ComposedReads, NEW verbose \in BOOLEAN, NEW agent \in BOOLEAN,
             NEW section, composeCall(op, verbose, section, agent)
      PROVE  ComposeInv'
  BY <1>1, ComposeCallInv
<1>2. ASSUME NEW s \in DOMAIN compose.busy, NEW o \in RequestOutcomes(compose.op),
             taskContextDo(s, o)
      PROVE  ComposeInv'
  BY <1>2, TaskContextDoInv
<1>3. ASSUME NEW s \in DOMAIN compose.busy, NEW lost \in SUBSET PacketKeys,
             taskWorkflowLatestPackets(s, lost) \/ storeSection(s, lost)
      PROVE  ComposeInv'
  BY <1>3, LatestPacketsInv, StoreSectionInv
<1>4. ASSUME NEW s \in DOMAIN compose.busy, unconfigured(s) \/ failClosed(s) \/ addStatus(s)
      PROVE  ComposeInv'
  BY <1>4, UnconfiguredInv, FailClosedInv, AddStatusInv
<1>5. CASE nextStage
  BY <1>5, NextStageInv
<1>6. CASE buildReply
  BY <1>6, BuildReplyInv
<1> QED
  BY <1>1, <1>2, <1>3, <1>4, <1>5, <1>6 DEF ComposeNext

\* What the invariant says of a composed read (ContextCompose.tla): nothing is
\* left out of an answer without a trace, and no source is accused of what it
\* did not do, whichever sources answer, fail or are not configured, in
\* whatever order the concurrent ones report, and however small the budget.
THEOREM ContextCorrect == ComposeSpec => []ContextIsHonest
<1>1. ComposeInit => ComposeInv
  <2>1. ASSUME ComposeInit
        PROVE  compose.op = "none" /\ compose.busy = <<>> /\ reply = NoReply
    <3>1. compose = [op |-> "none", verbose |-> FALSE, section |-> "", agent |-> FALSE,
                     configured |-> {}, stage |-> 0, busy |-> <<>>, outcome |-> <<>>]
      BY <2>1, Zenon DEF ComposeInit
    <3>2. reply = NoReply
      BY <2>1, Zenon DEF ComposeInit
    <3> QED
      BY <3>1, <3>2
  <2> QED
    BY <2>1 DEF ComposeInv
<1>2. ComposeInv /\ [ComposeNext]_composeVars => ComposeInv'
  BY ComposeNextInv, ComposeStutter
<1>3. ComposeInv => ContextIsHonest
  <2>1. CASE compose.op = "none" /\ reply = NoReply
    BY <2>1 DEF ContextIsHonest, ComposeTypeOK, NoReply
  <2>2. CASE ReplyTyped /\ reply.is # "ok"
    <3>1. ComposeTypeOK
      BY <2>2 DEF ReplyTyped, ComposeTypeOK
    <3> QED
      BY <2>2, <3>1 DEF ContextIsHonest
  <2> QED
    BY <2>1, <2>2 DEF ComposeInv
<1> QED
  BY <1>1, <1>2, <1>3, PTL DEF ComposeSpec

=============================================================================
