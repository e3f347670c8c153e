--------------------------- MODULE CheckGateProofs ---------------------------
(***************************************************************************)
(* Proofs about the check gates of the review service: module CheckGate,   *)
(* for every set of commits, checks and registrations, every timeout,      *)
(* interval and batch size, and any number of faults; and module           *)
(* CheckVerdict, for every limit, number of commits and moves of GitHub.   *)
(***************************************************************************)
EXTENDS CheckGate, CheckVerdict, FiniteSetTheorems, WellFoundedInduction, TLAPS

-----------------------------------------------------------------------------
(* Types                                                                     *)

\* The values the code starts from have their types.
LEMMA EmptyTypes ==
    /\ NoGate \in Gate
    /\ NoResult \in Result
    /\ \A pc \in {"idle", "upsert", "reopen", "done"} : NoReg(pc) \in Registration
    /\ \A pc \in {"list", "evaluate", "apply", "evidence", "append", "mark"} : Idle(pc) \in Watcher
<1>1. NoGate \in Gate
  BY DEF NoGate, Gate, GateStatus, Time, NoTime, EvidenceStatus
<1>2. NoResult \in Result
  BY DEF NoResult, Result, GateStatus, Time, NoTime
<1>3. \A pc \in {"idle", "upsert", "reopen", "done"} : NoReg(pc) \in Registration
  BY DEF NoReg, Registration, Time, NoTime
<1>4. \A pc \in {"list", "evaluate", "apply", "evidence", "append", "mark"} : Idle(pc) \in Watcher
  BY <1>2 DEF Idle, Watcher
<1> QED
  BY <1>1, <1>2, <1>3, <1>4

\* What the statements make of a row is a row.
LEMMA RowTypes ==
    ASSUME NEW row \in Gate, NEW at \in Nat, NEW required \in SUBSET Checks, now \in Nat
    PROVE  /\ Superseded(row) \in Gate
           /\ Upserted(row, required, at) \in Gate
           /\ Reopened(row, required) \in Gate
<1> USE CheckGateAssumption
<1>1. Superseded(row) \in Gate
  BY DEF Superseded, Gate, GateStatus, Terminal, EvidenceStatus
<1>2. Upserted(row, required, at) \in Gate
  <2>1. at + Timeout \in Nat
    OBVIOUS
  <2> QED
    BY <2>1 DEF Upserted, NoGate, Gate, GateStatus, Time, NoTime, EvidenceStatus
<1>3. Reopened(row, required) \in Gate
  <2>1. now + Timeout \in Nat /\ row.attempt + 1 \in Nat
    BY DEF Gate
  <2> QED
    BY <2>1 DEF Reopened, Gate, GateStatus, Time, EvidenceStatus
<1> QED
  BY <1>1, <1>2, <1>3

LEMMA WrittenTypes ==
    ASSUME NEW row \in Gate
    PROVE  /\ \A kind \in EvidenceStatus : [row EXCEPT !.evidence = kind] \in Gate
           /\ \A next \in Time, runs \in SUBSET Checks :
                 /\ [row EXCEPT !.nextPoll = next, !.runs = runs] \in Gate
                 /\ \A s \in GateStatus :
                       LET r == [row EXCEPT !.status = s, !.runs = runs, !.nextPoll = next]
                       IN  r \in Gate /\ [r EXCEPT !.evidence = "pending"] \in Gate
<1>1. \A kind \in EvidenceStatus : [row EXCEPT !.evidence = kind] \in Gate
  BY DEF Gate
<1>2. ASSUME NEW next \in Time, NEW runs \in SUBSET Checks
      PROVE  /\ [row EXCEPT !.nextPoll = next, !.runs = runs] \in Gate
             /\ \A s \in GateStatus :
                   LET r == [row EXCEPT !.status = s, !.runs = runs, !.nextPoll = next]
                   IN  r \in Gate /\ [r EXCEPT !.evidence = "pending"] \in Gate
  BY DEF Gate, EvidenceStatus
<1> QED
  BY <1>1, <1>2

\* An event of a terminal row is an event.
LEMMA EventTypes ==
    ASSUME NEW c \in Commits, NEW row \in Gate, row.status \in Terminal
    PROVE  EventOf(c, row) \in Event
BY DEF EventOf, Event, Gate

\* A service that starts on an empty table, or on a gate that failed, is typed.
LEMMA GateTypeInit == GateInit => GateTypeOK
<1> SUFFICES ASSUME GateInit PROVE GateTypeOK
  OBVIOUS
<1> USE CheckGateAssumption
<1>1. FailedGate \in Gate /\ FailedGate.status \in Terminal
  BY DEF FailedGate, Gate, GateStatus, Terminal, Time, EvidenceStatus
<1>2. PICK old \in {{}} \cup {{c} : c \in Commits} :
         /\ gates = [c \in Commits |-> IF c \in old THEN FailedGate ELSE NoGate]
         /\ events = {EventOf(c, FailedGate) : c \in old}
  BY DEF GateInit
<1>3. gates \in [Commits -> Gate]
  BY <1>1, <1>2, EmptyTypes
<1>4. events \subseteq Event
  BY <1>1, <1>2, EventTypes
<1> QED
  BY <1>3, <1>4, EmptyTypes DEF GateInit, GateTypeOK

-----------------------------------------------------------------------------
(* What requests and the watcher hold                                        *)

\* A registration in flight holds locks on gates that are pending, and stay so.
RegFits(r) ==
    /\ regs[r].pc \in {"upsert", "reopen"} => regs[r].commit \in Commits /\ regs[r].at \in Nat
    /\ \A d \in regs[r].locks : Pending(d) /\ d # regs[r].commit

LocksDisjoint ==
    \A r, q \in Requests : r # q => regs[r].locks \cap regs[q].locks = {}

\* What the watcher is about to write is something a poll or an append found.
WatcherFits ==
    /\ watcher.pc \in {"apply", "mark"} => watcher.commit \in Commits
    /\ watcher.pc = "apply" /\ watcher.res.kind = "complete" =>
          watcher.res.status \in {"pending", "passed", "failed", "timed_out"}
    /\ watcher.pc = "mark" => watcher.res.kind \in {"posted", "error"}
    /\ watcher.pc \in {"append", "mark"} => \A s \in watcher.batch : s.row.status \in Terminal

GateBase ==
    /\ GateTypeOK
    /\ \A r \in Requests : RegFits(r)
    /\ LocksDisjoint
    /\ WatcherFits

-----------------------------------------------------------------------------
(* What a step may do to one gate and its events                             *)

EventsSame(c) == \A e \in Event : e.commit = c => (e \in events' <=> e \in events)

\* The statement that ends an attempt inserts its event, unless there is one.
EventLogged(c) ==
    \A e \in Event : e.commit = c =>
        (e \in events' <=> \/ e \in events
                           \/ /\ e = EventOf(c, gates'[c])
                              /\ ~ \E f \in events : f.commit = c /\ f.attempt = e.attempt)

RowSame(c) == gates'[c] = gates[c] /\ EventsSame(c)

RowStarted(c) ==
    /\ gates[c].status = "absent"
    /\ gates'[c].status = "pending" /\ gates'[c].attempt = 1
    /\ EventsSame(c)

RowRefreshed(c) ==
    /\ gates[c].status = "pending"
    /\ gates'[c].status = "pending" /\ gates'[c].attempt = gates[c].attempt
    /\ EventsSame(c)

RowEnded(c) ==
    /\ gates[c].status = "pending"
    /\ gates'[c].status \in Terminal /\ gates'[c].attempt = gates[c].attempt
    /\ gates'[c].evidence = "pending"
    /\ gates'[c].status # "superseded" => watcher.pc = "apply"
    /\ EventLogged(c)

RowReopened(c) ==
    /\ gates[c].status \in {"failed", "timed_out"}
    /\ gates'[c].status = "pending" /\ gates'[c].attempt = gates[c].attempt + 1
    /\ EventsSame(c)

RowMarked(c) ==
    /\ watcher.pc = "mark" /\ watcher.commit = c
    /\ gates'[c] = [gates[c] EXCEPT !.evidence = watcher.res.kind]
    /\ EventsSame(c)

RowStep(c) ==
    \/ RowSame(c) \/ RowStarted(c) \/ RowRefreshed(c)
    \/ RowEnded(c) \/ RowReopened(c) \/ RowMarked(c)

\* A row that another registration has locked is left alone.
LockedKept(c) == (\E q \in Requests : c \in regs[q].locks /\ c \in regs'[q].locks) => gates'[c] = gates[c]

\* A step that leaves the table and the log alone.
LEMMA NothingWritten ==
    ASSUME UNCHANGED <<gates, events>>, NEW c \in Commits
    PROVE  RowStep(c) /\ LockedKept(c)
BY DEF RowStep, RowSame, EventsSame, LockedKept

\* The second statement of a registration: one row is stored, the locked ones
\* are superseded, each with its event.
LEMMA UpsertRows ==
    ASSUME GateBase, NEW r \in Requests, RegisterUpsert(r)
    PROVE  /\ gates' \in [Commits -> Gate] /\ events' \subseteq Event
           /\ \A c \in Commits : RowStep(c) /\ LockedKept(c)
<1> DEFINE g == regs[r]
           stored == Upserted(gates[g.commit], g.checks, g.at)
           new == {EventOf(d, Superseded(gates[d])) : d \in g.locks}
<1>1. /\ gates \in [Commits -> Gate] /\ events \subseteq Event /\ now \in Nat
      /\ g \in Registration /\ g.pc = "upsert"
      /\ g.commit \in Commits /\ g.at \in Nat /\ g.locks \in SUBSET Commits
      /\ g.checks \in SUBSET Checks
      /\ \A d \in g.locks : Pending(d) /\ d # g.commit
  BY DEF GateBase, GateTypeOK, RegFits, RegisterUpsert, Registration
<1>2. /\ stored \in Gate
      /\ \A d \in Commits : Superseded(gates[d]) \in Gate
  BY <1>1, RowTypes
<1>3. \A d \in Commits : /\ Superseded(gates[d]).status = "superseded"
                         /\ Superseded(gates[d]).evidence = "pending"
                         /\ Superseded(gates[d]).attempt = gates[d].attempt
  BY <1>1 DEF Superseded, Gate
<1>4. /\ gates'[g.commit] = stored
      /\ \A d \in g.locks : gates'[d] = Superseded(gates[d])
      /\ \A d \in Commits : d # g.commit /\ d \notin g.locks => gates'[d] = gates[d]
      /\ gates' \in [Commits -> Gate]
  BY <1>1, <1>2 DEF RegisterUpsert
<1>5. new \subseteq Event
  BY <1>1, <1>2, <1>3, EventTypes DEF Terminal
<1>6. /\ events' = events \cup {e \in new : ~ \E f \in events : f.commit = e.commit /\ f.attempt = e.attempt}
      /\ regs' = [regs EXCEPT ![r] =
             IF reopenableGitHubCheckGateStatus(stored.status)
             THEN [g EXCEPT !.pc = "reopen", !.locks = {}, !.attempt = stored.attempt]
             ELSE NoReg("done")]
  BY DEF RegisterUpsert, InsertEvents
<1>7. events' \subseteq Event
  BY <1>1, <1>5, <1>6
<1>8. \A d \in Commits : \A e \in new : e.commit = d => d \in g.locks /\ e = EventOf(d, Superseded(gates[d]))
  BY DEF EventOf
<1>9. ASSUME NEW c \in Commits PROVE RowStep(c)
  <2>1. CASE c = g.commit
    <3>1. c \notin g.locks
      BY <1>1, <2>1
    <3>2. EventsSame(c)
      BY <1>6, <1>8, <3>1 DEF EventsSame
    <3>3. CASE gates[c].status = "absent"
      <4>1. stored.status = "pending" /\ stored.attempt = 1
        BY <2>1, <3>3 DEF Upserted, NoGate
      <4> QED
        BY <1>4, <2>1, <3>2, <3>3, <4>1 DEF RowStep, RowStarted
    <3>4. CASE gates[c].status = "pending"
      <4>1. stored.status = "pending" /\ stored.attempt = gates[c].attempt
        BY <1>1, <2>1, <3>4 DEF Upserted, Gate
      <4> QED
        BY <1>4, <2>1, <3>2, <3>4, <4>1 DEF RowStep, RowRefreshed
    <3>5. CASE gates[c].status \notin {"absent", "pending"}
      BY <1>4, <2>1, <3>2, <3>5 DEF Upserted, RowStep, RowSame
    <3> QED
      BY <3>3, <3>4, <3>5
  <2>2. CASE c \in g.locks
    <3>1. gates'[c] = Superseded(gates[c]) /\ gates[c].status = "pending"
      BY <1>1, <1>4, <2>2 DEF Pending
    <3>2. EventOf(c, gates'[c]) \in new /\ EventOf(c, gates'[c]).commit = c
      BY <2>2, <3>1 DEF EventOf
    <3>3. EventLogged(c)
      BY <1>6, <1>8, <3>1, <3>2 DEF EventLogged
    <3> QED
      BY <1>1, <1>3, <3>1, <3>3 DEF RowStep, RowEnded, Terminal
  <2>3. CASE c # g.commit /\ c \notin g.locks
    BY <1>4, <1>6, <1>8, <2>3 DEF RowStep, RowSame, EventsSame
  <2> QED
    BY <2>1, <2>2, <2>3
<1>10. ASSUME NEW c \in Commits PROVE LockedKept(c)
  <2> SUFFICES ASSUME NEW q \in Requests, c \in regs[q].locks, c \in regs'[q].locks
               PROVE  gates'[c] = gates[c]
    BY DEF LockedKept
  <2>1. regs'[r].locks = {} /\ q # r
    BY <1>1, <1>6 DEF GateBase, GateTypeOK, NoReg, Registration
  <2>2. c # g.commit
    BY <2>1 DEF RegisterUpsert, Locked
  <2>3. c \notin g.locks
    BY <2>1 DEF GateBase, LocksDisjoint
  <2> QED
    BY <1>4, <2>2, <2>3
<1> QED
  BY <1>4, <1>7, <1>9, <1>10

\* Reopening compares the attempt and the status it was given.
LEMMA ReopenRows ==
    ASSUME GateBase, NEW r \in Requests, ReopenGitHubCheckGate(r)
    PROVE  /\ gates' \in [Commits -> Gate] /\ events' \subseteq Event
           /\ \A c \in Commits : RowStep(c) /\ LockedKept(c)
<1> DEFINE d == regs[r].commit
           row == gates[d]
<1>1. /\ gates \in [Commits -> Gate] /\ events \subseteq Event /\ events' = events
      /\ d \in Commits /\ row \in Gate /\ regs[r].checks \in SUBSET Checks /\ now \in Nat
  BY DEF GateBase, GateTypeOK, RegFits, ReopenGitHubCheckGate, Registration
<1>2. regs' = [regs EXCEPT ![r] = NoReg("done")] /\ regs \in [Requests -> Registration]
  BY DEF ReopenGitHubCheckGate, GateBase, GateTypeOK
<1>3. CASE row.attempt = regs[r].attempt /\ reopenableGitHubCheckGateStatus(row.status)
  <2>1. gates' = [gates EXCEPT ![d] = Reopened(row, regs[r].checks)]
    BY <1>3 DEF ReopenGitHubCheckGate
  <2>2. Reopened(row, regs[r].checks) \in Gate
    BY <1>1, RowTypes
  <2>3. /\ Reopened(row, regs[r].checks).status = "pending"
        /\ Reopened(row, regs[r].checks).attempt = row.attempt + 1
    BY <1>1 DEF Reopened, Gate
  <2>4. ASSUME NEW c \in Commits PROVE RowStep(c)
    BY <1>1, <1>3, <2>1, <2>3
       DEF RowStep, RowReopened, RowSame, EventsSame, reopenableGitHubCheckGateStatus
  <2>5. ASSUME NEW c \in Commits PROVE LockedKept(c)
    BY <1>1, <2>1 DEF LockedKept, ReopenGitHubCheckGate, LockedByAny
  <2> QED
    BY <1>1, <2>1, <2>2, <2>4, <2>5
<1>4. CASE ~(row.attempt = regs[r].attempt /\ reopenableGitHubCheckGateStatus(row.status))
  <2>1. UNCHANGED <<gates, events>>
    BY <1>1, <1>4 DEF ReopenGitHubCheckGate
  <2> QED
    BY <1>1, <2>1, NothingWritten
<1> QED
  BY <1>3, <1>4

\* The statement that applies a verdict writes a row while it is pending.
LEMMA ApplyRows ==
    ASSUME GateBase, ApplyComplete
    PROVE  /\ gates' \in [Commits -> Gate] /\ events' \subseteq Event
           /\ \A c \in Commits : RowStep(c) /\ LockedKept(c)
<1> DEFINE d == watcher.commit
           res == watcher.res
           row == [gates[d] EXCEPT !.status = res.status, !.runs = res.runs, !.nextPoll = res.next]
           done == [row EXCEPT !.evidence = "pending"]
<1>1. /\ gates \in [Commits -> Gate] /\ events \subseteq Event
      /\ watcher.pc = "apply" /\ d \in Commits /\ gates[d] \in Gate
      /\ res \in Result /\ res.status \in GateStatus /\ res.runs \in SUBSET Checks /\ res.next \in Time
      /\ res.status \in {"pending", "passed", "failed", "timed_out"}
      /\ regs' = regs
  BY DEF GateBase, GateTypeOK, WatcherFits, ApplyComplete, Watcher, Result
<1>2. /\ row \in Gate /\ done \in Gate
      /\ row.status = res.status /\ row.attempt = gates[d].attempt
      /\ done.status = res.status /\ done.attempt = gates[d].attempt /\ done.evidence = "pending"
  <2>1. row \in Gate /\ done \in Gate
    BY <1>1, WrittenTypes
  <2> QED
    BY <1>1, <2>1 DEF Gate
<1> HIDE DEF row, done
<1>4. \A q \in Requests : d \notin regs[q].locks
  BY DEF ApplyComplete, LockedByAny
<1>5. CASE ~Pending(d)
  <2>1. UNCHANGED <<gates, events>>
    BY <1>5 DEF ApplyComplete, CompleteGitHubCheckGate
  <2> QED
    BY <1>1, <2>1, NothingWritten
<1>6. CASE Pending(d) /\ terminalGitHubCheckGateStatus(res.status)
  <2>1. gates' = [gates EXCEPT ![d] = done] /\ InsertEvents({EventOf(d, done)})
    BY <1>6 DEF ApplyComplete, CompleteGitHubCheckGate, row, done
  <2>2. EventOf(d, done) \in Event /\ EventOf(d, done).commit = d
    BY <1>1, <1>2, <1>6, EventTypes DEF terminalGitHubCheckGateStatus, EventOf
  <2>3. events' = events \cup {e \in {EventOf(d, done)} : ~ \E f \in events : f.commit = e.commit /\ f.attempt = e.attempt}
    BY <2>1 DEF InsertEvents
  <2>4. ASSUME NEW c \in Commits PROVE RowStep(c)
    <3>1. CASE c = d
      <4>1. gates'[c] = done
        BY <1>1, <2>1, <3>1
      <4>2. EventLogged(c)
        BY <2>2, <2>3, <3>1, <4>1 DEF EventLogged
      <4> QED
        BY <1>1, <1>2, <1>6, <3>1, <4>1, <4>2
           DEF RowStep, RowEnded, Pending, terminalGitHubCheckGateStatus
    <3>2. CASE c # d
      BY <1>1, <2>1, <2>2, <2>3, <3>2 DEF RowStep, RowSame, EventsSame
    <3> QED
      BY <3>1, <3>2
  <2>5. ASSUME NEW c \in Commits PROVE LockedKept(c)
    BY <1>1, <1>4, <2>1 DEF LockedKept
  <2> QED
    BY <1>1, <1>2, <2>1, <2>2, <2>3, <2>4, <2>5
<1>7. CASE Pending(d) /\ ~terminalGitHubCheckGateStatus(res.status)
  <2>1. gates' = [gates EXCEPT ![d] = row] /\ events' = events
    BY <1>7 DEF ApplyComplete, CompleteGitHubCheckGate, row, done
  <2>2. res.status = "pending"
    BY <1>1, <1>7 DEF terminalGitHubCheckGateStatus, Terminal
  <2>3. ASSUME NEW c \in Commits PROVE RowStep(c)
    BY <1>1, <1>2, <1>7, <2>1, <2>2 DEF RowStep, RowRefreshed, RowSame, EventsSame, Pending
  <2>4. ASSUME NEW c \in Commits PROVE LockedKept(c)
    BY <1>1, <1>4, <2>1 DEF LockedKept
  <2> QED
    BY <1>1, <1>2, <2>1, <2>3, <2>4
<1> QED
  BY <1>5, <1>6, <1>7

\* Putting a poll off, and marking the evidence of a row, leave its verdict.
LEMMA DelayRows ==
    ASSUME GateBase, DelayGitHubCheckGate
    PROVE  /\ gates' \in [Commits -> Gate] /\ events' \subseteq Event
           /\ \A c \in Commits : RowStep(c) /\ LockedKept(c)
<1> DEFINE d == watcher.commit
           row == [gates[d] EXCEPT !.nextPoll = watcher.res.next, !.runs = {}]
<1>1. /\ gates \in [Commits -> Gate] /\ events \subseteq Event /\ events' = events
      /\ d \in Commits /\ gates[d] \in Gate /\ watcher.res.next \in Time
      /\ regs' = regs
  BY DEF GateBase, GateTypeOK, WatcherFits, DelayGitHubCheckGate, Watcher, Result
<1>2. /\ row \in Gate
      /\ row.status = gates[d].status /\ row.attempt = gates[d].attempt
  <2>1. row \in Gate
    BY <1>1, WrittenTypes
  <2> QED
    BY <1>1, <2>1 DEF Gate
<1>3. \A q \in Requests : d \notin regs[q].locks
  BY DEF DelayGitHubCheckGate, LockedByAny
<1>4. CASE ~Pending(d)
  <2>1. UNCHANGED <<gates, events>>
    BY <1>1, <1>4 DEF DelayGitHubCheckGate
  <2> QED
    BY <1>1, <2>1, NothingWritten
<1>5. CASE Pending(d)
  <2>1. gates' = [gates EXCEPT ![d] = row]
    <3>1. gates' = [gates EXCEPT ![d].nextPoll = watcher.res.next, ![d].runs = {}]
      BY <1>5 DEF DelayGitHubCheckGate
    <3> QED
      BY <1>1, <3>1
  <2> HIDE DEF row
  <2>2. ASSUME NEW c \in Commits PROVE RowStep(c)
    BY <1>1, <1>2, <1>5, <2>1 DEF RowStep, RowRefreshed, RowSame, EventsSame, Pending
  <2>3. ASSUME NEW c \in Commits PROVE LockedKept(c)
    BY <1>1, <1>3, <2>1 DEF LockedKept
  <2> QED
    BY <1>1, <1>2, <2>1, <2>2, <2>3
<1> QED
  BY <1>4, <1>5

LEMMA MarkRows ==
    ASSUME GateBase, MarkEvidence
    PROVE  /\ gates' \in [Commits -> Gate] /\ events' \subseteq Event
           /\ \A c \in Commits : RowStep(c) /\ LockedKept(c)
<1> DEFINE d == watcher.commit
           row == [gates[d] EXCEPT !.evidence = watcher.res.kind]
<1>1. /\ gates \in [Commits -> Gate] /\ events \subseteq Event /\ events' = events
      /\ d \in Commits /\ gates[d] \in Gate /\ watcher.res.kind \in {"posted", "error"}
      /\ regs' = regs /\ watcher.pc = "mark"
  BY DEF GateBase, GateTypeOK, WatcherFits, MarkEvidence
<1>2. row \in Gate
  <2>1. watcher.res.kind \in EvidenceStatus
    BY <1>1 DEF EvidenceStatus
  <2> QED
    BY <1>1, <2>1, WrittenTypes
<1>3. gates' = [gates EXCEPT ![d] = row]
  BY <1>1 DEF MarkEvidence
<1>4. ASSUME NEW c \in Commits PROVE RowStep(c)
  BY <1>1, <1>3 DEF RowStep, RowMarked, RowSame, EventsSame
<1>5. ASSUME NEW c \in Commits PROVE LockedKept(c)
  BY <1>1, <1>3 DEF LockedKept, MarkEvidence, LockedByAny
<1> QED
  BY <1>1, <1>2, <1>3, <1>4, <1>5

\* Every step does one of these things to each gate.
LEMMA StepRows ==
    ASSUME GateBase, [GateNext]_gateVars
    PROVE  /\ gates' \in [Commits -> Gate] /\ events' \subseteq Event
           /\ \A c \in Commits : RowStep(c) /\ LockedKept(c)
<1>1. gates \in [Commits -> Gate] /\ events \subseteq Event
  BY DEF GateBase, GateTypeOK
<1>2. CASE UNCHANGED <<gates, events>>
  BY <1>1, <1>2, NothingWritten
<1>3. CASE GateNext
  <2>1. CASE \E r \in Requests : RegisterUpsert(r)
    BY <2>1, UpsertRows
  <2>2. CASE \E r \in Requests : ReopenGitHubCheckGate(r)
    BY <2>2, ReopenRows
  <2>3. CASE ApplyComplete
    BY <2>3, ApplyRows
  <2>4. CASE DelayGitHubCheckGate
    BY <2>4, DelayRows
  <2>5. CASE MarkEvidence
    BY <2>5, MarkRows
  <2>6. CASE \E r \in Requests :
               \/ \E c \in Commits, required \in SUBSET Checks \ {{}} : RegisterSupersede(r, c, required)
               \/ RegisterAbort(r)
    BY <1>2, <2>6 DEF RegisterSupersede, RegisterAbort
  <2>7. CASE \/ ListPendingGitHubCheckGates \/ EvaluateTimeout \/ EvaluateAnswer \/ EvaluateError
             \/ ListGitHubCheckGatesPendingEvidence \/ AppendEvidence
    BY <1>2, <2>7 DEF ListPendingGitHubCheckGates, EvaluateTimeout, EvaluateAnswer, EvaluateError,
                     ListGitHubCheckGatesPendingEvidence, AppendEvidence, Appending
  <2>8. CASE Faulty \/ Tick
    BY <1>2, <2>8 DEF Faulty, Tick, ApplyFails, AppendFails, WatcherCrash, Appending
  <2> QED
    BY <1>3, <2>1, <2>2, <2>3, <2>4, <2>5, <2>6, <2>7, <2>8 DEF GateNext, Register, Watch
<1> QED
  BY <1>2, <1>3 DEF gateVars

-----------------------------------------------------------------------------
(* The base invariant                                                        *)

LEMMA BaseInit == GateInit => GateBase
<1> SUFFICES ASSUME GateInit PROVE GateBase
  OBVIOUS
<1>1. \A r \in Requests : regs[r] = NoReg("idle")
  BY DEF GateInit
<1>2. (\A r \in Requests : RegFits(r)) /\ LocksDisjoint
  BY <1>1 DEF RegFits, LocksDisjoint, NoReg
<1>3. WatcherFits
  BY DEF GateInit, WatcherFits, Idle, NoResult
<1> QED
  BY <1>2, <1>3, GateTypeInit DEF GateBase

\* Registrations stay typed, and keep what they hold: a lock is taken on a
\* pending gate no other registration has locked, and a locked gate is kept.
LEMMA RegStep ==
    ASSUME GateBase, [GateNext]_gateVars
    PROVE  /\ regs' \in [Requests -> Registration]
           /\ \A r \in Requests : RegFits(r)'
           /\ LocksDisjoint'
<1> USE CheckGateAssumption
<1>1. /\ regs \in [Requests -> Registration] /\ now \in Nat
      /\ \A r \in Requests : RegFits(r)
      /\ LocksDisjoint
      /\ \A c \in Commits : LockedKept(c)
      /\ gates \in [Commits -> Gate]
  BY StepRows DEF GateBase, GateTypeOK
<1>2. ASSUME NEW r \in Requests, regs'[r] = regs[r]
      PROVE  RegFits(r)'
  <2>1. /\ regs'[r].locks = regs[r].locks /\ regs'[r].pc = regs[r].pc
        /\ regs'[r].commit = regs[r].commit /\ regs'[r].at = regs[r].at
    BY <1>2
  <2>2. RegFits(r) /\ regs[r].locks \in SUBSET Commits
    BY <1>1 DEF Registration
  <2>3. ASSUME NEW d \in regs[r].locks PROVE gates'[d] = gates[d]
    BY <1>1, <2>1, <2>2 DEF LockedKept
  <2> QED
    BY <2>1, <2>2, <2>3 DEF RegFits, Pending
<1>3. CASE regs' = regs
  <2>1. LocksDisjoint'
    BY <1>1, <1>3 DEF LocksDisjoint
  <2> QED
    BY <1>1, <1>2, <1>3, <2>1
<1>4. CASE \E r \in Requests : /\ regs' = [regs EXCEPT ![r] = regs'[r]]
                               /\ regs'[r] \in Registration
                               /\ regs'[r].locks = {}
                               /\ regs'[r].pc \in {"upsert", "reopen"} =>
                                     /\ regs'[r].commit = regs[r].commit
                                     /\ regs'[r].at = regs[r].at
                                     /\ regs[r].pc = "upsert"
  <2>1. PICK r \in Requests :
            /\ regs' = [regs EXCEPT ![r] = regs'[r]]
            /\ regs'[r] \in Registration
            /\ regs'[r].locks = {}
            /\ regs'[r].pc \in {"upsert", "reopen"} =>
                  /\ regs'[r].commit = regs[r].commit
                  /\ regs'[r].at = regs[r].at
                  /\ regs[r].pc = "upsert"
    BY <1>4
  <2>2. \A q \in Requests : q # r => regs'[q] = regs[q]
    BY <1>1, <2>1
  <2>3. regs' \in [Requests -> Registration]
    BY <1>1, <2>1
  <2>4. RegFits(r)'
    BY <1>1, <2>1 DEF RegFits
  <2>5. LocksDisjoint'
    BY <1>1, <2>1, <2>2 DEF LocksDisjoint
  <2> QED
    BY <1>2, <2>2, <2>3, <2>4, <2>5
<1>5. ASSUME NEW r \in Requests, NEW c \in Commits, NEW required \in SUBSET Checks \ {{}},
             RegisterSupersede(r, c, required)
      PROVE  /\ regs' \in [Requests -> Registration]
             /\ \A q \in Requests : RegFits(q)'
             /\ LocksDisjoint'
  <2> DEFINE older == {d \in Commits \ {c} : Pending(d)}
             reg == [pc |-> "upsert", commit |-> c, checks |-> required, at |-> now,
                     locks |-> older, attempt |-> 0]
  <2>1. regs' = [regs EXCEPT ![r] = reg] /\ gates' = gates
    BY <1>5 DEF RegisterSupersede
  <2>2. reg \in Registration
    BY <1>1 DEF Registration, Time
  <2>3. regs'[r] = reg /\ \A q \in Requests : q # r => regs'[q] = regs[q]
    BY <1>1, <2>1
  <2>4. RegFits(r)'
    BY <1>1, <2>1, <2>3 DEF RegFits, Pending
  <2>5. \A q \in Requests : q # r => older \cap regs[q].locks = {}
    BY <1>5 DEF RegisterSupersede, Locked
  <2>6. LocksDisjoint'
    <3> SUFFICES ASSUME NEW p \in Requests, NEW q \in Requests, p # q
                 PROVE  regs'[p].locks \cap regs'[q].locks = {}
      BY DEF LocksDisjoint
    <3>1. CASE p = r
      BY <2>3, <2>5, <3>1
    <3>2. CASE q = r
      BY <2>3, <2>5, <3>2
    <3>3. CASE p # r /\ q # r
      BY <1>1, <2>3, <3>3 DEF LocksDisjoint
    <3> QED
      BY <3>1, <3>2, <3>3
  <2> QED
    BY <1>1, <1>2, <2>1, <2>2, <2>3, <2>4, <2>6
<1>6. ASSUME NEW r \in Requests, RegisterUpsert(r)
      PROVE  /\ regs' = [regs EXCEPT ![r] = regs'[r]]
             /\ regs'[r] \in Registration
             /\ regs'[r].locks = {}
             /\ regs'[r].pc \in {"upsert", "reopen"} =>
                   /\ regs'[r].commit = regs[r].commit
                   /\ regs'[r].at = regs[r].at
                   /\ regs[r].pc = "upsert"
  <2> DEFINE stored == Upserted(gates[regs[r].commit], regs[r].checks, regs[r].at)
             next == [regs[r] EXCEPT !.pc = "reopen", !.locks = {}, !.attempt = stored.attempt]
  <2>1. /\ regs[r].pc = "upsert" /\ regs[r] \in Registration
        /\ regs[r].commit \in Commits /\ regs[r].at \in Nat /\ regs[r].checks \in SUBSET Checks
    BY <1>1, <1>6 DEF RegisterUpsert, RegFits, Registration
  <2>2. stored \in Gate
    BY <1>1, <2>1, RowTypes
  <2>3. next \in Registration
    BY <2>1, <2>2 DEF Registration, Gate
  <2>4. /\ next.locks = {} /\ next.commit = regs[r].commit /\ next.at = regs[r].at
    BY <2>1 DEF Registration
  <2>5. /\ NoReg("done") \in Registration
        /\ NoReg("done").locks = {} /\ NoReg("done").pc = "done"
    BY EmptyTypes DEF NoReg
  <2>6. regs' = [regs EXCEPT ![r] = IF reopenableGitHubCheckGateStatus(stored.status)
                                    THEN next ELSE NoReg("done")]
    BY <1>6 DEF RegisterUpsert
  <2>7. regs'[r] = next \/ regs'[r] = NoReg("done")
    BY <1>1, <2>6
  <2> HIDE DEF stored, next
  <2>8. regs' = [regs EXCEPT ![r] = regs'[r]]
    BY <1>1, <2>6
  <2> QED
    BY <2>1, <2>3, <2>4, <2>5, <2>7, <2>8
<1>7. ASSUME NEW r \in Requests, ReopenGitHubCheckGate(r) \/ RegisterAbort(r)
      PROVE  /\ regs' = [regs EXCEPT ![r] = regs'[r]]
             /\ regs'[r] \in Registration
             /\ regs'[r].locks = {}
             /\ regs'[r].pc \in {"upsert", "reopen"} =>
                   /\ regs'[r].commit = regs[r].commit
                   /\ regs'[r].at = regs[r].at
                   /\ regs[r].pc = "upsert"
  <2>1. regs' = [regs EXCEPT ![r] = NoReg("done")]
    BY <1>7 DEF ReopenGitHubCheckGate, RegisterAbort
  <2>2. regs'[r] = NoReg("done")
    BY <1>1, <2>1
  <2> QED
    BY <1>1, <2>1, <2>2, EmptyTypes DEF NoReg
<1>8. CASE Register
  BY <1>4, <1>5, <1>6, <1>7, <1>8 DEF Register
<1>9. CASE Watch \/ Faulty \/ Tick \/ UNCHANGED gateVars
  <2>1. regs' = regs
    BY <1>9 DEF Watch, Faulty, Tick, gateVars, ListPendingGitHubCheckGates, EvaluateTimeout,
                EvaluateAnswer, EvaluateError, ApplyComplete, DelayGitHubCheckGate,
                ListGitHubCheckGatesPendingEvidence, AppendEvidence, MarkEvidence,
                ApplyFails, AppendFails, WatcherCrash, Appending
  <2> QED
    BY <1>3, <2>1
<1> QED
  BY <1>8, <1>9 DEF GateNext

\* The watcher's snapshots, and what it decides from them, are typed.
LEMMA WatcherStep ==
    ASSUME GateBase, [GateNext]_gateVars
    PROVE  watcher' \in Watcher /\ WatcherFits'
<1> USE CheckGateAssumption
<1>1. /\ watcher \in Watcher /\ gates \in [Commits -> Gate] /\ now \in Nat
      /\ watcher.batch \in SUBSET Snapshot /\ WatcherFits
  BY DEF GateBase, GateTypeOK, Watcher
<1>2. \A pc \in {"list", "evaluate", "apply", "evidence", "append", "mark"} : Idle(pc) \in Watcher
  BY EmptyTypes
<1>3. \A B \in SUBSET Commits : Snapshots(B) \in SUBSET Snapshot
  BY <1>1 DEF Snapshots, Snapshot
<1>4. ASSUME NEW s \in watcher.batch, NEW res \in Result, Decide(s, res),
             res.kind = "complete" => res.status \in {"pending", "passed", "failed", "timed_out"}
      PROVE  watcher' \in Watcher /\ WatcherFits'
  <2>1. s.commit \in Commits
    BY <1>1 DEF Snapshot
  <2>2. watcher.batch \ {s} \in SUBSET Snapshot
    BY <1>1
  <2>3. watcher' = [watcher EXCEPT !.pc = "apply", !.batch = @ \ {s},
                                   !.commit = s.commit, !.res = res]
    BY <1>4 DEF Decide
  <2>4. watcher' \in Watcher
    BY <1>1, <2>1, <2>2, <2>3 DEF Watcher
  <2>5. watcher'.pc = "apply" /\ watcher'.commit = s.commit /\ watcher'.res = res
    BY <1>1, <2>3 DEF Watcher
  <2> QED
    BY <1>4, <2>1, <2>4, <2>5 DEF WatcherFits
<1>5. ASSUME NEW pc \in {"list", "evidence"}, watcher' = Idle(pc)
      PROVE  watcher' \in Watcher /\ WatcherFits'
  <2>1. watcher'.pc = pc
    BY <1>5 DEF Idle
  <2> QED
    BY <1>2, <1>5, <2>1 DEF WatcherFits
<1>6. ASSUME NEW pc \in {"evaluate", "append"}, pc = "append" => watcher.pc = "mark",
             watcher' = [watcher EXCEPT !.pc = pc, !.commit = None, !.res = NoResult]
      PROVE  watcher' \in Watcher /\ WatcherFits'
  <2>1. watcher' \in Watcher /\ watcher'.pc = pc /\ watcher'.batch = watcher.batch
    BY <1>1, <1>6, EmptyTypes DEF Watcher
  <2> QED
    BY <1>1, <1>6, <2>1 DEF WatcherFits
<1>7. CASE ListPendingGitHubCheckGates
  <2>1. PICK B \in FirstDue({c \in Commits : Pending(c) /\ gates[c].nextPoll <= now}) :
            watcher' = IF B = {} THEN Idle("evidence")
                       ELSE [Idle("evaluate") EXCEPT !.batch = Snapshots(B),
                                                     !.full = (Cardinality(B) = BatchSize)]
    BY <1>7 DEF ListPendingGitHubCheckGates
  <2>2. B \in SUBSET Commits
    BY DEF FirstDue
  <2>3. CASE B = {}
    BY <1>5, <2>1, <2>3
  <2>4. CASE B # {}
    <3>1. Snapshots(B) \in SUBSET Snapshot
      BY <1>3, <2>2
    <3>2. PICK b \in BOOLEAN : watcher' = [Idle("evaluate") EXCEPT !.batch = Snapshots(B), !.full = b]
      <4>1. (Cardinality(B) = BatchSize) \in BOOLEAN
        OBVIOUS
      <4> QED
        BY <2>1, <2>4, <4>1, Zenon
    <3>3. watcher' \in Watcher /\ watcher'.pc = "evaluate"
      BY <1>2, <3>1, <3>2 DEF Watcher, Idle
    <3> QED
      BY <3>3 DEF WatcherFits
  <2> QED
    BY <2>3, <2>4
<1>8. CASE EvaluateTimeout
  <2>1. PICK s \in watcher.batch :
            Decide(s, [kind |-> "complete", status |-> "timed_out",
                       runs |-> gates[s.commit].runs, next |-> now])
    BY <1>8 DEF EvaluateTimeout
  <2>2. gates[s.commit].runs \in SUBSET Checks
    BY <1>1 DEF Snapshot, Gate
  <2>3. [kind |-> "complete", status |-> "timed_out", runs |-> gates[s.commit].runs, next |-> now] \in Result
    BY <1>1, <2>2 DEF Result, GateStatus, Terminal, Time
  <2> QED
    BY <1>4, <2>1, <2>3
<1>9. CASE EvaluateAnswer
  <2>1. PICK s \in watcher.batch, settled \in BOOLEAN :
            \E answer \in [s.row.checks -> CheckState] :
              LET status == Verdict(s.row.checks, answer, settled,
                                    now >= s.row.createdAt + Grace)
              IN Decide(s, [kind |-> "complete", status |-> status, runs |-> s.row.checks,
                            next |-> IF status = "pending" THEN now + PollInterval ELSE now])
    BY <1>9 DEF EvaluateAnswer
  <2>2. PICK status \in {"failed", "pending", "passed"}, next \in {now, now + PollInterval} :
            Decide(s, [kind |-> "complete", status |-> status, runs |-> s.row.checks, next |-> next])
    BY <2>1, Zenon DEF Verdict
  <2>3. s.row.checks \in SUBSET Checks /\ next \in Nat
    BY <1>1 DEF Snapshot, Gate
  <2>4. [kind |-> "complete", status |-> status, runs |-> s.row.checks, next |-> next] \in Result
    BY <2>3 DEF Result, GateStatus, Terminal, Time
  <2> QED
    BY <1>4, <2>2, <2>4
<1>10. CASE EvaluateError
  <2>1. PICK s \in watcher.batch : \E next \in (now + 1)..s.row.timeoutAt :
            Decide(s, [kind |-> "delay", status |-> "pending", runs |-> {}, next |-> next])
    BY <1>10 DEF EvaluateError
  <2>2. PICK next \in (now + 1)..s.row.timeoutAt :
            Decide(s, [kind |-> "delay", status |-> "pending", runs |-> {}, next |-> next])
    BY <2>1
  <2>3. next \in Nat
    BY <1>1
  <2>4. [kind |-> "delay", status |-> "pending", runs |-> {}, next |-> next] \in Result
    BY <2>3 DEF Result, GateStatus, Time
  <2> QED
    BY <1>4, <2>2, <2>4
<1>11. CASE ApplyComplete \/ DelayGitHubCheckGate \/ ApplyFails
  <2>1. watcher' = IF watcher.batch # {}
                   THEN [watcher EXCEPT !.pc = "evaluate", !.commit = None, !.res = NoResult]
                   ELSE Idle(IF watcher.full THEN "list" ELSE "evidence")
    BY <1>11 DEF ApplyComplete, DelayGitHubCheckGate, ApplyFails, NextSnapshot
  <2>2. CASE watcher.batch # {}
    BY <1>6, <2>1, <2>2
  <2>3. CASE watcher.batch = {}
    BY <1>5, <2>1, <2>3
  <2> QED
    BY <2>2, <2>3
<1>12. CASE ListGitHubCheckGatesPendingEvidence
  <2>1. PICK B \in SUBSET Commits :
            /\ \A c \in B : gates[c].status \in Terminal
            /\ watcher' = IF B = {} THEN Idle("list") ELSE [Idle("append") EXCEPT !.batch = Snapshots(B)]
    BY <1>12 DEF ListGitHubCheckGatesPendingEvidence, terminalGitHubCheckGateStatus
  <2>2. CASE B = {}
    BY <1>5, <2>1, <2>2
  <2>3. CASE B # {}
    <3>1. Snapshots(B) \in SUBSET Snapshot
      BY <1>3
    <3>2. watcher' \in Watcher /\ watcher'.pc = "append" /\ watcher'.batch = Snapshots(B)
      BY <1>2, <2>1, <2>3, <3>1 DEF Watcher, Idle
    <3>3. \A s \in Snapshots(B) : s.row.status \in Terminal
      BY <2>1 DEF Snapshots
    <3> QED
      BY <3>2, <3>3 DEF WatcherFits
  <2> QED
    BY <2>2, <2>3
<1>13. CASE AppendEvidence \/ AppendFails
  <2>1. PICK s \in watcher.batch, kind \in {"posted", "error"} :
            /\ watcher.pc = "append"
            /\ watcher' = [watcher EXCEPT !.pc = "mark", !.batch = @ \ {s}, !.commit = s.commit,
                                          !.res = [NoResult EXCEPT !.kind = kind]]
    BY <1>13 DEF AppendEvidence, AppendFails, Appending
  <2>2. s.commit \in Commits /\ watcher.batch \ {s} \in SUBSET Snapshot
    BY <1>1 DEF Snapshot
  <2>3. [NoResult EXCEPT !.kind = kind] \in Result /\ [NoResult EXCEPT !.kind = kind].kind = kind
    BY EmptyTypes DEF Result
  <2>4. watcher' \in Watcher
    BY <1>1, <2>1, <2>2, <2>3 DEF Watcher
  <2>5. /\ watcher'.pc = "mark" /\ watcher'.commit = s.commit /\ watcher'.res.kind = kind
        /\ watcher'.batch = watcher.batch \ {s}
    BY <1>1, <2>1, <2>3 DEF Watcher
  <2> QED
    BY <1>1, <2>1, <2>2, <2>4, <2>5 DEF WatcherFits
<1>14. CASE MarkEvidence
  <2>1. CASE watcher.batch # {}
    BY <1>6, <1>14, <2>1 DEF MarkEvidence
  <2>2. CASE watcher.batch = {}
    BY <1>5, <1>14, <2>2 DEF MarkEvidence
  <2> QED
    BY <2>1, <2>2
<1>15. CASE WatcherCrash
  BY <1>5, <1>15 DEF WatcherCrash
<1>16. CASE Register \/ Tick \/ UNCHANGED gateVars
  <2>1. watcher' = watcher
    BY <1>16 DEF Register, Tick, gateVars, RegisterSupersede, RegisterUpsert,
                 ReopenGitHubCheckGate, RegisterAbort
  <2> QED
    BY <1>1, <2>1 DEF WatcherFits
<1> QED
  BY <1>7, <1>8, <1>9, <1>10, <1>11, <1>12, <1>13, <1>14, <1>15, <1>16
     DEF GateNext, Watch, Faulty

\* A message, once on the thread, stays there.
LEMMA MessagesGrow ==
    ASSUME GateBase, [GateNext]_gateVars
    PROVE  messages \subseteq messages'
BY DEF GateNext, Register, Watch, Faulty, Tick, gateVars, RegisterSupersede, RegisterUpsert,
       ReopenGitHubCheckGate, RegisterAbort, ListPendingGitHubCheckGates, EvaluateTimeout,
       EvaluateAnswer, EvaluateError, ApplyComplete, DelayGitHubCheckGate,
       ListGitHubCheckGatesPendingEvidence, AppendEvidence, MarkEvidence,
       ApplyFails, AppendFails, WatcherCrash, Appending

LEMMA BaseStep == GateBase /\ [GateNext]_gateVars => GateBase'
<1> SUFFICES ASSUME GateBase, [GateNext]_gateVars PROVE GateBase'
  OBVIOUS
<1> USE CheckGateAssumption
<1>1. /\ now \in 0..Horizon /\ faults \in 0..MaxFaults /\ messages \subseteq Message
      /\ watcher.batch \in SUBSET Snapshot /\ WatcherFits
  BY DEF GateBase, GateTypeOK, Watcher
<1>2. now' \in 0..Horizon /\ faults' \in 0..MaxFaults
  <2>1. now' = now \/ (now < Horizon /\ now' = now + 1)
    BY DEF GateNext, Register, Watch, Faulty, Tick, gateVars, RegisterSupersede, RegisterUpsert,
       ReopenGitHubCheckGate, RegisterAbort, ListPendingGitHubCheckGates, EvaluateTimeout,
       EvaluateAnswer, EvaluateError, ApplyComplete, DelayGitHubCheckGate,
       ListGitHubCheckGatesPendingEvidence, AppendEvidence, MarkEvidence,
       ApplyFails, AppendFails, WatcherCrash, Appending
  <2>2. faults' = faults \/ (faults > 0 /\ faults' = faults - 1)
    BY DEF GateNext, Register, Watch, Faulty, Tick, gateVars, RegisterSupersede, RegisterUpsert,
       ReopenGitHubCheckGate, RegisterAbort, ListPendingGitHubCheckGates, EvaluateTimeout,
       EvaluateAnswer, EvaluateError, ApplyComplete, DelayGitHubCheckGate,
       ListGitHubCheckGatesPendingEvidence, AppendEvidence, MarkEvidence,
       ApplyFails, AppendFails, WatcherCrash, Appending
  <2> QED
    BY <1>1, <2>1, <2>2
<1>3. messages' \subseteq Message
  <2>1. CASE AppendEvidence \/ AppendFails
    <3>1. PICK s \in watcher.batch : watcher.pc = "append" /\ messages' \in {messages, messages \cup {Evidence(s)}}
      BY <2>1 DEF AppendEvidence, AppendFails, Appending
    <3>2. s \in Snapshot /\ s.row.status \in Terminal
      BY <1>1, <3>1 DEF WatcherFits
    <3>3. Evidence(s) \in Message
      BY <3>2 DEF Evidence, Message, Snapshot, Gate
    <3> QED
      BY <1>1, <3>1, <3>3
  <2>2. CASE ~(AppendEvidence \/ AppendFails)
    <3>1. messages' = messages
      BY <2>2 DEF GateNext, Register, Watch, Faulty, Tick, gateVars, RegisterSupersede, RegisterUpsert,
       ReopenGitHubCheckGate, RegisterAbort, ListPendingGitHubCheckGates, EvaluateTimeout,
       EvaluateAnswer, EvaluateError, ApplyComplete, DelayGitHubCheckGate,
       ListGitHubCheckGatesPendingEvidence, MarkEvidence, ApplyFails, WatcherCrash
    <3> QED
      BY <1>1, <3>1
  <2> QED
    BY <2>1, <2>2
<1> QED
  BY <1>2, <1>3, StepRows, RegStep, WatcherStep DEF GateBase, GateTypeOK

-----------------------------------------------------------------------------
(* The event log                                                             *)

Finished(row) == {k \in 1..row.attempt : k < row.attempt \/ row.status \in Terminal}

\* The events of a gate: one for every finished attempt, and what each says.
History(c) ==
    /\ gates[c].status # "absent" => gates[c].attempt >= 1
    /\ gates[c].status = "absent" => gates[c].attempt = 0
    /\ \A e \in events : e.commit = c => e.attempt \in Finished(gates[c])
    /\ \A k \in Finished(gates[c]) : \E e \in events : e.commit = c /\ e.attempt = k
    /\ \A e, f \in events : e.commit = c /\ f.commit = c /\ e.attempt = f.attempt => e = f
    /\ \A e \in events : e.commit = c =>
          e.status \in (IF e.attempt = gates[c].attempt THEN {gates[c].status}
                        ELSE {"failed", "timed_out"})

LEMMA HistoryInit == GateInit => \A c \in Commits : History(c)
<1> SUFFICES ASSUME GateInit, NEW c \in Commits PROVE History(c)
  OBVIOUS
<1>1. PICK old \in {{}} \cup {{d} : d \in Commits} :
         /\ gates = [d \in Commits |-> IF d \in old THEN FailedGate ELSE NoGate]
         /\ events = {EventOf(d, FailedGate) : d \in old}
  BY DEF GateInit
<1>2. CASE c \in old
  <2>1. gates[c] = FailedGate /\ Finished(FailedGate) = {1}
    BY <1>1, <1>2 DEF FailedGate, Finished, Terminal
  <2>2. \A e \in events : e.commit = c => e = EventOf(c, FailedGate)
    BY <1>1 DEF EventOf
  <2>3. EventOf(c, FailedGate) \in events
    BY <1>1, <1>2
  <2>4. /\ EventOf(c, FailedGate).commit = c /\ EventOf(c, FailedGate).attempt = 1
        /\ EventOf(c, FailedGate).status = "failed"
        /\ FailedGate.attempt = 1 /\ FailedGate.status = "failed"
    BY DEF EventOf, FailedGate
  <2> QED
    BY <2>1, <2>2, <2>3, <2>4 DEF History
<1>3. CASE c \notin old
  <2>1. gates[c] = NoGate /\ Finished(NoGate) = {}
    BY <1>1, <1>3 DEF NoGate, Finished
  <2>2. \A e \in events : e.commit # c
    BY <1>1, <1>3 DEF EventOf
  <2> QED
    BY <2>1, <2>2 DEF History, NoGate
<1> QED
  BY <1>2, <1>3

\* A row and its events move together.
LEMMA HistoryStep ==
    ASSUME GateBase, [GateNext]_gateVars, NEW c \in Commits, History(c)
    PROVE  History(c)'
<1>1. /\ gates[c] \in Gate /\ gates'[c] \in Gate
      /\ events \subseteq Event /\ events' \subseteq Event /\ RowStep(c)
  BY StepRows DEF GateBase, GateTypeOK
<1>2. gates[c].attempt \in Nat /\ gates'[c].attempt \in Nat
  BY <1>1 DEF Gate
<1>3. EventsSame(c) => \A e : e.commit = c => (e \in events' <=> e \in events)
  BY <1>1 DEF EventsSame
<1>4. ASSUME EventsSame(c), gates'[c].attempt = gates[c].attempt, gates'[c].status = gates[c].status
      PROVE  History(c)'
  <2>1. Finished(gates'[c]) = Finished(gates[c])
    BY <1>4 DEF Finished
  <2> QED
    BY <1>3, <1>4, <2>1 DEF History
<1>5. CASE RowSame(c) \/ RowRefreshed(c)
  BY <1>4, <1>5 DEF RowSame, RowRefreshed
<1>6. CASE RowMarked(c)
  <2>1. gates'[c].attempt = gates[c].attempt /\ gates'[c].status = gates[c].status
    BY <1>1, <1>6 DEF RowMarked, Gate
  <2> QED
    BY <1>4, <1>6, <2>1 DEF RowMarked
<1>7. CASE RowStarted(c)
  <2>1. gates[c].attempt = 0 /\ Finished(gates[c]) = {}
    BY <1>7 DEF RowStarted, History, Finished
  <2>2. Finished(gates'[c]) = {}
    BY <1>7 DEF RowStarted, Finished, Terminal
  <2> QED
    BY <1>3, <1>7, <2>1, <2>2 DEF RowStarted, History
<1>8. CASE RowReopened(c)
  <2>1. Finished(gates[c]) = 1..gates[c].attempt
    BY <1>2, <1>8 DEF RowReopened, Finished, Terminal
  <2>2. Finished(gates'[c]) = 1..gates[c].attempt
    BY <1>2, <1>8 DEF RowReopened, Finished, Terminal
  <2>3. \A e \in events : e.commit = c => e.attempt # gates'[c].attempt
    BY <1>2, <1>8, <2>1 DEF RowReopened, History
  <2>4. \A e \in events : e.commit = c => e.status \in {"failed", "timed_out"}
    BY <1>8 DEF RowReopened, History
  <2> QED
    BY <1>2, <1>3, <1>8, <2>1, <2>2, <2>3, <2>4 DEF RowReopened, History
<1>9. CASE RowEnded(c)
  <2> DEFINE a == gates[c].attempt
             new == EventOf(c, gates'[c])
  <2>1. a >= 1 /\ a \notin Finished(gates[c]) /\ a = gates'[c].attempt
    BY <1>2, <1>9 DEF RowEnded, History, Finished, Terminal
  <2>2. Finished(gates'[c]) = Finished(gates[c]) \cup {a}
    BY <1>2, <1>9, <2>1 DEF RowEnded, Finished, Terminal
  <2>3. new \in Event /\ new.commit = c /\ new.attempt = a /\ new.status = gates'[c].status
    BY <1>1, <1>9, <2>1, EventTypes DEF RowEnded, EventOf
  <2>4. \A e \in events : e.commit = c => e.attempt # a
    BY <2>1 DEF History
  <2> HIDE DEF new, a
  <2>5. \A e : e.commit = c => (e \in events' <=> e \in events \/ e = new)
    BY <1>1, <1>9, <2>3, <2>4 DEF RowEnded, EventLogged, new
  <2>6. \A e \in events' : e.commit = c => e.status \in (IF e.attempt = gates'[c].attempt
                               THEN {gates'[c].status} ELSE {"failed", "timed_out"})
    BY <2>1, <2>3, <2>4, <2>5 DEF History, a
  <2>7. gates'[c].status # "absent" /\ gates'[c].attempt >= 1
    BY <1>9, <2>1 DEF RowEnded, Terminal
  <2>8. \A e, f \in events' : e.commit = c /\ f.commit = c /\ e.attempt = f.attempt => e = f
    BY <2>3, <2>4, <2>5 DEF History
  <2>9. /\ \A e \in events' : e.commit = c => e.attempt \in Finished(gates'[c])
        /\ \A k \in Finished(gates'[c]) : \E e \in events' : e.commit = c /\ e.attempt = k
    BY <2>2, <2>3, <2>5 DEF History
  <2> QED
    BY <2>6, <2>7, <2>8, <2>9 DEF History
<1> QED
  BY <1>1, <1>5, <1>6, <1>7, <1>8, <1>9 DEF RowStep

-----------------------------------------------------------------------------
(* The evidence                                                              *)

\* What became of the attempt a snapshot shows ended: nothing, or a reopening.
Follows(c, attempt, status) ==
    \/ gates[c].attempt = attempt /\ gates[c].status = status
    \/ gates[c].attempt > attempt /\ gates[c].status \in {"pending", "superseded"}

\* While the watcher posts evidence nobody but it could end a reopened attempt
\* other than by superseding it; and what it marks as posted is on the thread.
EvidenceFits ==
    /\ watcher.pc \in {"append", "mark"} => \A s \in watcher.batch :
          s.row.attempt >= 1 /\ Follows(s.commit, s.row.attempt, s.row.status)
    /\ watcher.pc = "mark" /\ watcher.res.kind = "posted" =>
          \E attempt \in Nat \ {0}, status \in Terminal :
              /\ Follows(watcher.commit, attempt, status)
              /\ [commit |-> watcher.commit, attempt |-> attempt, status |-> status] \in messages

GateInv ==
    /\ GateBase
    /\ \A c \in Commits : History(c)
    /\ EvidenceFits
    /\ PostedWasAppended

LEMMA FollowsStep ==
    ASSUME GateBase, [GateNext]_gateVars, NEW c \in Commits, NEW attempt \in Nat, NEW status \in Terminal,
           watcher.pc \in {"append", "mark"}, Follows(c, attempt, status)
    PROVE  Follows(c, attempt, status)'
<1>1. RowStep(c) /\ gates[c] \in Gate /\ gates[c].attempt \in Nat
  BY StepRows DEF GateBase, GateTypeOK, Gate
<1>2. CASE RowSame(c)
  BY <1>2 DEF RowSame, Follows
<1>3. CASE RowStarted(c)
  BY <1>3 DEF RowStarted, Follows, Terminal
<1>4. CASE RowRefreshed(c)
  BY <1>4 DEF RowRefreshed, Follows, Terminal
<1>5. CASE RowEnded(c)
  BY <1>5 DEF RowEnded, Follows, Terminal
<1>6. CASE RowReopened(c)
  BY <1>1, <1>6 DEF RowReopened, Follows
<1>7. CASE RowMarked(c)
  BY <1>1, <1>7 DEF RowMarked, Follows, Gate
<1> QED
  BY <1>1, <1>2, <1>3, <1>4, <1>5, <1>6, <1>7 DEF RowStep

LEMMA EvidenceStep ==
    ASSUME GateInv, [GateNext]_gateVars
    PROVE  EvidenceFits'
<1>1. /\ watcher \in Watcher /\ watcher.batch \in SUBSET Snapshot /\ gates \in [Commits -> Gate]
      /\ GateBase /\ EvidenceFits /\ WatcherFits
  BY DEF GateInv, GateBase, GateTypeOK, Watcher
<1>2. ASSUME watcher.pc \in {"append", "mark"}, NEW s \in watcher.batch
      PROVE  s.row.attempt >= 1 /\ Follows(s.commit, s.row.attempt, s.row.status)'
  <2>1. s \in Snapshot /\ s.commit \in Commits /\ s.row.attempt \in Nat /\ s.row.status \in Terminal
    BY <1>1, <1>2 DEF Snapshot, Gate, WatcherFits
  <2> QED
    BY <1>1, <1>2, <2>1, FollowsStep DEF EvidenceFits
<1>3. CASE watcher' = watcher
  <2>1. ASSUME watcher.pc = "mark", watcher.res.kind = "posted"
        PROVE  \E attempt \in Nat \ {0}, status \in Terminal :
                  /\ Follows(watcher.commit, attempt, status)'
                  /\ [commit |-> watcher.commit, attempt |-> attempt, status |-> status] \in messages'
    <3>1. PICK attempt \in Nat \ {0}, status \in Terminal :
              /\ Follows(watcher.commit, attempt, status)
              /\ [commit |-> watcher.commit, attempt |-> attempt, status |-> status] \in messages
      BY <1>1, <2>1 DEF EvidenceFits
    <3>2. watcher.commit \in Commits
      BY <1>1, <2>1 DEF WatcherFits
    <3>3. Follows(watcher.commit, attempt, status)'
      BY <1>1, <1>3, <2>1, <3>1, <3>2, FollowsStep DEF Follows
    <3>4. messages \subseteq messages'
      BY <1>1, MessagesGrow
    <3> QED
      BY <3>1, <3>3, <3>4
  <2> QED
    BY <1>2, <1>3, <2>1 DEF EvidenceFits, Follows
<1>4. CASE watcher'.pc \notin {"append", "mark"}
  BY <1>4 DEF EvidenceFits
<1>5. CASE ListGitHubCheckGatesPendingEvidence
  <2>1. PICK B \in SUBSET Commits :
            /\ \A c \in B : gates[c].status \in Terminal
            /\ watcher' = IF B = {} THEN Idle("list") ELSE [Idle("append") EXCEPT !.batch = Snapshots(B)]
            /\ gates' = gates
    BY <1>5 DEF ListGitHubCheckGatesPendingEvidence, terminalGitHubCheckGateStatus
  <2>2. CASE B = {}
    BY <1>4, <2>1, <2>2 DEF Idle
  <2>3. CASE B # {}
    <3>1. watcher'.pc = "append" /\ watcher'.batch = Snapshots(B)
      BY <2>1, <2>3 DEF Idle
    <3>2. ASSUME NEW s \in Snapshots(B)
          PROVE  s.row.attempt >= 1 /\ Follows(s.commit, s.row.attempt, s.row.status)'
      <4>1. PICK c \in B : s = [commit |-> c, row |-> gates[c]]
        BY DEF Snapshots
      <4>2. gates[c].status # "absent" /\ gates[c].attempt >= 1
        BY <2>1, <4>1 DEF Terminal, GateInv, History
      <4> QED
        BY <2>1, <4>1, <4>2 DEF Follows
    <3> QED
      BY <3>1, <3>2 DEF EvidenceFits
  <2> QED
    BY <2>2, <2>3
<1>6. CASE AppendEvidence \/ AppendFails
  <2>1. PICK s \in watcher.batch, kind \in {"posted", "error"} :
            /\ watcher.pc = "append"
            /\ watcher' = [watcher EXCEPT !.pc = "mark", !.batch = @ \ {s}, !.commit = s.commit,
                                          !.res = [NoResult EXCEPT !.kind = kind]]
            /\ kind = "posted" => messages' = messages \cup {Evidence(s)}
    BY <1>6 DEF AppendEvidence, AppendFails, Appending
  <2>2. [NoResult EXCEPT !.kind = kind].kind = kind
    BY EmptyTypes DEF Result
  <2>3. /\ watcher'.pc = "mark" /\ watcher'.commit = s.commit /\ watcher'.res.kind = kind
        /\ watcher'.batch = watcher.batch \ {s}
    BY <1>1, <2>1, <2>2 DEF Watcher
  <2>4. s.row.attempt \in Nat \ {0} /\ s.row.status \in Terminal /\ Follows(s.commit, s.row.attempt, s.row.status)'
    <3>1. s.row.attempt \in Nat /\ s.row.status \in Terminal
      BY <1>1, <2>1 DEF Snapshot, Gate, WatcherFits
    <3> QED
      BY <1>2, <2>1, <3>1
  <2>5. kind = "posted" => [commit |-> s.commit, attempt |-> s.row.attempt, status |-> s.row.status] \in messages'
    BY <2>1 DEF Evidence
  <2>6. \A t \in watcher'.batch : t.row.attempt >= 1 /\ Follows(t.commit, t.row.attempt, t.row.status)'
    BY <1>2, <2>1, <2>3
  <2> QED
    BY <2>3, <2>4, <2>5, <2>6 DEF EvidenceFits, Follows
<1>7. CASE MarkEvidence
  <2>1. CASE watcher.batch # {}
    <3>1. watcher' = [watcher EXCEPT !.pc = "append", !.commit = None, !.res = NoResult] /\ watcher.pc = "mark"
      BY <1>7, <2>1 DEF MarkEvidence
    <3>2. watcher'.pc = "append" /\ watcher'.batch = watcher.batch
      BY <1>1, <3>1 DEF Watcher
    <3> QED
      BY <1>2, <3>1, <3>2 DEF EvidenceFits, Follows
  <2>2. CASE watcher.batch = {}
    BY <1>4, <1>7, <2>2 DEF MarkEvidence, Idle
  <2> QED
    BY <2>1, <2>2
<1>8. CASE ListPendingGitHubCheckGates
  <2>1. watcher'.pc \in {"evidence", "evaluate"}
    <3>1. PICK B \in FirstDue({c \in Commits : Pending(c) /\ gates[c].nextPoll <= now}) :
              watcher' = IF B = {} THEN Idle("evidence")
                         ELSE [Idle("evaluate") EXCEPT !.batch = Snapshots(B),
                                                       !.full = (Cardinality(B) = BatchSize)]
      BY <1>8 DEF ListPendingGitHubCheckGates
    <3>2. CASE B = {}
      BY <3>1, <3>2 DEF Idle
    <3>3. CASE B # {}
      <4> DEFINE b == (Cardinality(B) = BatchSize)
      <4>1. watcher' = [Idle("evaluate") EXCEPT !.batch = Snapshots(B), !.full = b]
        BY <3>1, <3>3
      <4> HIDE DEF b
      <4> QED
        BY <4>1 DEF Idle
    <3> QED
      BY <3>2, <3>3
  <2> QED
    BY <1>4, <2>1
<1>9. CASE EvaluateTimeout \/ EvaluateAnswer \/ EvaluateError
  <2>1. watcher'.pc = "apply"
    BY <1>1, <1>9 DEF EvaluateTimeout, EvaluateAnswer, EvaluateError, Decide, Watcher
  <2> QED
    BY <1>4, <2>1
<1>10. CASE ApplyComplete \/ DelayGitHubCheckGate \/ ApplyFails
  <2>1. watcher' = IF watcher.batch # {}
                   THEN [watcher EXCEPT !.pc = "evaluate", !.commit = None, !.res = NoResult]
                   ELSE Idle(IF watcher.full THEN "list" ELSE "evidence")
    BY <1>10 DEF ApplyComplete, DelayGitHubCheckGate, ApplyFails, NextSnapshot
  <2>2. watcher'.pc \in {"evaluate", "list", "evidence"}
    BY <1>1, <2>1 DEF Watcher, Idle
  <2> QED
    BY <1>4, <2>2
<1>11. CASE WatcherCrash
  BY <1>4, <1>11 DEF WatcherCrash, Idle
<1>12. CASE Register \/ Tick \/ UNCHANGED gateVars
  BY <1>3, <1>12 DEF Register, Tick, gateVars, RegisterSupersede, RegisterUpsert,
                     ReopenGitHubCheckGate, RegisterAbort
<1> QED
  BY <1>5, <1>6, <1>7, <1>8, <1>9, <1>10, <1>11, <1>12 DEF GateNext, Watch, Faulty

\* A row is marked as posted by the watcher alone, for what it found ended.
LEMMA PostedStep ==
    ASSUME GateInv, [GateNext]_gateVars
    PROVE  PostedWasAppended'
<1> SUFFICES ASSUME NEW c \in Commits, gates'[c].status \in Terminal, gates'[c].evidence = "posted",
                    gates'[c].status # "superseded" \/ gates'[c].attempt = 1
             PROVE  [commit |-> c, attempt |-> gates'[c].attempt, status |-> gates'[c].status] \in messages'
  BY DEF PostedWasAppended
<1>1. RowStep(c) /\ gates[c] \in Gate /\ gates[c].attempt \in Nat /\ messages \subseteq messages'
  BY StepRows, MessagesGrow DEF GateInv, GateBase, GateTypeOK, Gate
<1>2. CASE RowSame(c)
  BY <1>1, <1>2 DEF RowSame, GateInv, PostedWasAppended
<1>3. CASE RowMarked(c)
  <2>1. /\ gates'[c].status = gates[c].status /\ gates'[c].attempt = gates[c].attempt
        /\ watcher.pc = "mark" /\ watcher.commit = c /\ watcher.res.kind = "posted"
    BY <1>1, <1>3 DEF RowMarked, Gate
  <2>2. PICK attempt \in Nat \ {0}, status \in Terminal :
            /\ Follows(c, attempt, status)
            /\ [commit |-> c, attempt |-> attempt, status |-> status] \in messages
    BY <2>1 DEF GateInv, EvidenceFits
  <2>3. gates[c].attempt = attempt /\ gates[c].status = status
    BY <1>1, <2>1, <2>2 DEF Follows, Terminal
  <2> QED
    BY <1>1, <2>1, <2>2, <2>3
<1>4. CASE RowStarted(c) \/ RowRefreshed(c) \/ RowEnded(c) \/ RowReopened(c)
  BY <1>4 DEF RowStarted, RowRefreshed, RowEnded, RowReopened, Terminal
<1> QED
  BY <1>1, <1>2, <1>3, <1>4 DEF RowStep

-----------------------------------------------------------------------------
(* Theorems                                                                  *)

LEMMA GateInitInv == GateInit => GateInv
<1> SUFFICES ASSUME GateInit PROVE GateInv
  OBVIOUS
<1>1. EvidenceFits
  BY DEF GateInit, EvidenceFits, Idle
<1>2. PostedWasAppended
  <2>1. \A c \in Commits : gates[c] = FailedGate \/ gates[c] = NoGate
    BY DEF GateInit
  <2> QED
    BY <2>1 DEF PostedWasAppended, FailedGate, NoGate
<1> QED
  BY <1>1, <1>2, BaseInit, HistoryInit DEF GateInv

LEMMA GateStepInv == GateInv /\ [GateNext]_gateVars => GateInv'
<1> SUFFICES ASSUME GateInv, [GateNext]_gateVars PROVE GateInv'
  OBVIOUS
<1>1. GateBase'
  BY BaseStep DEF GateInv
<1>2. (\A c \in Commits : History(c))'
  BY HistoryStep DEF GateInv
<1> QED
  BY <1>1, <1>2, EvidenceStep, PostedStep DEF GateInv

\* The invariant says what the property says of the events of a gate.
LEMMA HistoryTold == GateInv => GateRecordIsTrue
<1> SUFFICES ASSUME GateInv PROVE EventsTellHistory
  BY DEF GateRecordIsTrue, GateInv
<1> SUFFICES ASSUME NEW c \in Commits
             PROVE  /\ {e.attempt : e \in {f \in events : f.commit = c}} = Finished(gates[c])
                    /\ \A k \in Finished(gates[c]) : Cardinality({e \in events : e.commit = c /\ e.attempt = k}) = 1
                    /\ \A k \in Finished(gates[c]), e \in events :
                          e \in {f \in events : f.commit = c /\ f.attempt = k} =>
                             e.status \in (IF k = gates[c].attempt THEN {gates[c].status}
                                           ELSE {"failed", "timed_out"})
  BY DEF EventsTellHistory, Finished, GateInv, GateBase
<1>1. History(c)
  BY DEF GateInv
<1>2. {e.attempt : e \in {f \in events : f.commit = c}} = Finished(gates[c])
  BY <1>1 DEF History
<1>3. ASSUME NEW k \in Finished(gates[c])
      PROVE  Cardinality({e \in events : e.commit = c /\ e.attempt = k}) = 1
  <2>1. PICK e \in events : e.commit = c /\ e.attempt = k
    BY <1>1 DEF History
  <2>2. {f \in events : f.commit = c /\ f.attempt = k} = {e}
    BY <1>1, <2>1 DEF History
  <2> QED
    BY <2>2, FS_Singleton
<1>4. \A k \in Finished(gates[c]), e \in events :
         e \in {f \in events : f.commit = c /\ f.attempt = k} =>
            e.status \in (IF k = gates[c].attempt THEN {gates[c].status}
                          ELSE {"failed", "timed_out"})
  BY <1>1 DEF History
<1> QED
  BY <1>2, <1>3, <1>4

\* A gate, its durable events and the evidence on the task thread tell one
\* story, whatever registrations, verdicts, failed statements, lost answers and
\* watcher crashes come between (store.go CompleteGitHubCheckGate).
THEOREM GateRecordCorrect == GateSpec => []GateRecordIsTrue
<1>1. GateInit => GateInv
  BY GateInitInv
<1>2. GateInv /\ [GateNext]_gateVars => GateInv'
  BY GateStepInv
<1>3. GateInv => GateRecordIsTrue
  BY HistoryTold
<1> QED
  BY <1>1, <1>2, <1>3, PTL DEF GateSpec

\* A passed or superseded gate stays what it is, and only a reopening of a
\* failed or timed-out gate starts another attempt (store.go
\* reopenGitHubCheckGateSQL).
THEOREM VerdictsFinal == GateSpec => VerdictsAreFinal
<1>1. ASSUME GateBase, [GateNext]_gateVars, NEW c \in Commits
      PROVE  /\ gates[c].status \in {"passed", "superseded"} =>
                   /\ gates'[c].status = gates[c].status
                   /\ gates'[c].attempt = gates[c].attempt
                   /\ gates'[c].checks = gates[c].checks
             /\ gates'[c].attempt # gates[c].attempt /\ gates[c].status # "absent" =>
                   /\ gates[c].status \in {"failed", "timed_out"}
                   /\ gates'[c].attempt = gates[c].attempt + 1
  <2>1. RowStep(c) /\ gates[c] \in Gate
    BY <1>1, StepRows DEF GateBase, GateTypeOK
  <2>2. CASE RowSame(c)
    BY <2>2 DEF RowSame
  <2>3. CASE RowMarked(c)
    BY <2>1, <2>3 DEF RowMarked, Gate
  <2>4. CASE RowStarted(c) \/ RowRefreshed(c) \/ RowEnded(c) \/ RowReopened(c)
    BY <2>4 DEF RowStarted, RowRefreshed, RowEnded, RowReopened
  <2> QED
    BY <2>1, <2>2, <2>3, <2>4 DEF RowStep
<1>2. GateBase /\ [GateNext]_gateVars =>
         [\A c \in Commits :
            /\ gates[c].status \in {"passed", "superseded"} =>
                  /\ gates'[c].status = gates[c].status
                  /\ gates'[c].attempt = gates[c].attempt
                  /\ gates'[c].checks = gates[c].checks
            /\ gates'[c].attempt # gates[c].attempt /\ gates[c].status # "absent" =>
                  /\ gates[c].status \in {"failed", "timed_out"}
                  /\ gates'[c].attempt = gates[c].attempt + 1]_gateVars
  BY <1>1
<1> QED
  BY <1>2, BaseInit, BaseStep, PTL DEF GateSpec, VerdictsAreFinal

-----------------------------------------------------------------------------
(* Sets of numbers have a first and a last                                   *)

Below == {p \in Nat \X Nat : p[1] < p[2]}

LEMMA FirstNatural ==
    ASSUME NEW S \in SUBSET Nat, S # {}
    PROVE  \E x \in S : \A y \in S : x <= y
<1>1. IsWellFoundedOn(Below, Nat)
  BY NatLessThanWellFounded DEF OpToRel, Below
<1>2. PICK x \in S : \A y \in S : <<y, x>> \notin Below
  BY <1>1, WFMin
<1>3. \A y \in S : x <= y
  <2> SUFFICES ASSUME NEW y \in S PROVE x <= y
    OBVIOUS
  <2>1. <<y, x>> \in Nat \X Nat /\ <<y, x>>[1] = y /\ <<y, x>>[2] = x
    OBVIOUS
  <2>2. ~(<<y, x>>[1] < <<y, x>>[2])
    BY <1>2, <2>1 DEF Below
  <2> QED
    BY <2>1, <2>2
<1> QED
  BY <1>3

LEMMA LastNatural ==
    ASSUME NEW n \in Nat, NEW S \in SUBSET (-1..n), S # {}
    PROVE  Max(S) \in S /\ \A y \in S : Max(S) >= y
<1> DEFINE T == {n - x : x \in S}
<1>1. T \in SUBSET Nat /\ T # {}
  <2>1. ASSUME NEW x \in S PROVE n - x \in Nat
    <3>1. x \in -1..n /\ x \in Int /\ x <= n
      OBVIOUS
    <3> QED
      BY <3>1
  <2>2. T \in SUBSET Nat
    BY <2>1, Zenon
  <2>3. T # {}
    BY Zenon
  <2> QED
    BY <2>2, <2>3
<1>2. PICK t \in T : \A u \in T : t <= u
  BY <1>1, FirstNatural
<1>3. PICK m \in S : t = n - m
  OBVIOUS
<1>4. \A y \in S : m >= y
  <2> SUFFICES ASSUME NEW y \in S PROVE m >= y
    OBVIOUS
  <2>1. n - y \in T
    OBVIOUS
  <2>2. n - m <= n - y
    BY <1>2, <1>3, <2>1
  <2> QED
    BY <2>2
<1> QED
  BY <1>4 DEF Max

-----------------------------------------------------------------------------
(* The poll of one commit (CheckVerdict).  The inductive invariant says what  *)
(* a call knows at each of its requests, and that it is what GitHub holds as  *)
(* long as GitHub stands still.                                               *)

Reads == UNION {[C -> RunState] : C \in SUBSET AllCommits}

Probe ==
    [pc : {"own", "compare", "list", "read", "settle", "jobs", "done"},
     own : RunState, ownBeside : RunState,
     later : SUBSET AllCommits, useful : SUBSET AllCommits,
     active : BOOLEAN, actions : BOOLEAN, read : Reads,
     answer : {"none", "passed", "failed", "pending", "missing"},
     terminal : BOOLEAN, proof : AllCommits \cup {0}, moved : BOOLEAN]

\* What GitHub holds; a check that succeeds is remembered as one that did.
GitHubTyped ==
    /\ head \in Gated..(Gated + LaterCommits + 1)
    /\ check \in [AllCommits -> RunState] /\ beside \in [AllCommits -> RunState]
    /\ readable \in BOOLEAN /\ ever \in SUBSET AllCommits
    /\ ghMoves \in 0..MaxGitHubMoves
    /\ \A c \in AllCommits : check[c] = "success" => c \in ever

Unfinished == {"own", "compare", "list", "read"}

\* What a call knows at each of its requests.
ProbeFits(p) ==
    /\ p.pc \in Unfinished => p.answer = "none"
    /\ p.pc # "done" => p.proof = 0
    /\ p.pc \in {"own", "compare"} => p.later = {}
    /\ p.pc \in {"own", "compare", "list"} => ~p.actions /\ DOMAIN p.read = {}
    /\ p.pc \in {"compare", "list", "read"} => p.own \in {"none", "failure", "cancelled"}
    /\ p.later \in SUBSET ((Gated + 1)..head) /\ DOMAIN p.read \in SUBSET p.later

\* The reading of candidates is over.
Settled(p) ==
    \/ laterCandidateCommits(p.later, p.useful, p.actions) \subseteq DOMAIN p.read
    \/ laterCommitsSatisfy(p.read)

\* A call that goes back to earlier runs has found nothing from the commit on.
NothingFound(p) ==
    p.pc = "jobs" =>
       /\ p.answer = "missing" /\ p.own = "none" /\ ~p.active
       /\ ~laterCommitsSatisfy(p.read)
       /\ Settled(p)

\* What a call has read as a success was one.
SeenWasThere(p) ==
    /\ p.own = "success" => Gated \in ever
    /\ \A c \in DOMAIN p.read : p.read[c] = "success" => c \in ever

\* While GitHub stands still, what the call knows is what is there.
StoodStill(p) ==
    ~p.moved /\ p.pc # "own" =>
       /\ p.own = check[Gated]
       /\ p.later # {} => p.later = (Gated + 1)..head
       /\ \A c \in DOMAIN p.read : p.read[c] = check[c]
       /\ p.actions =>
             /\ p.useful = {c \in 1..head : {check[c], beside[c]} \cap {"active", "success"} # {}}
             /\ p.active <=> \E c \in {Gated} \cup p.later : "active" \in {check[c], beside[c]}

\* The two halves of VerdictIsRight, of a call.
Earned(p) ==
    p.answer = "passed" =>
        IF p.proof = 0 THEN \E c \in ever : c >= Gated
        ELSE /\ p.proof \in ever
             /\ \A c \in (p.proof + 1)..head : check[c] = "none"

HeadRead(p) ==
    head \in p.later /\ check[head] = "success" /\ check[Gated] # "active"
        => p.answer = "passed"

FailsEarly(p) ==
    p.actions /\ Cardinality((p.later \ {head}) \cap p.useful) < LaterCommitLimit =>
        (p.answer = "failed"
            <=> /\ check[Gated] = "failure"
                /\ \A c \in p.later : check[c] \notin {"success", "active"})

NamedInVain(p) ==
    p.actions /\ p.answer = "missing" /\ p.terminal =>
        \A c \in p.later \cup {Gated} : "active" \notin {check[c], beside[c]}

Documented(p) == p.pc = "done" /\ ~p.moved => HeadRead(p) /\ FailsEarly(p) /\ NamedInVain(p)

Knows(p) ==
    /\ ProbeFits(p) /\ NothingFound(p)
    /\ SeenWasThere(p) /\ StoodStill(p)
    /\ Earned(p) /\ Documented(p)

VerdictInv == GitHubTyped /\ probe \in Probe /\ Knows(probe)

-----------------------------------------------------------------------------
(* The decision                                                              *)

LEMMA CommitNumbers ==
    /\ AllCommits = 1..(LaterCommits + 3) /\ Gated = 2 /\ Gated \in AllCommits
    /\ LaterCommits \in Nat /\ LaterCommitLimit \in Nat
    /\ \A h \in Gated..(Gated + LaterCommits + 1) :
          /\ h \in Nat /\ 1..h \subseteq AllCommits /\ (Gated + 1)..h \subseteq AllCommits
          /\ Gated \in 1..h
BY VerdictAssumption DEF AllCommits, Gated

\* The verdict on one check, case by case.
LEMMA Evaluated ==
    ASSUME NEW own \in RunState, NEW read \in Reads, NEW earlier,
           NEW v, v = evaluateGitHubGateRuns(own, read, earlier)
    PROVE  /\ v \in {"passed", "failed", "pending", "missing"}
           /\ own = "success" \/ (own # "active" /\ laterCommitsSatisfy(read)) => v = "passed"
           /\ v = "passed" => own = "success" \/ laterCommitsSatisfy(read) \/ earlier = "success"
           /\ v = "failed" <=> /\ own = "failure" /\ ~laterCommitsSatisfy(read)
                               /\ \A c \in DOMAIN read : read[c] # "active"
           /\ v = "missing" => own = "none" /\ ~laterCommitsSatisfy(read) /\ earlier # "success"
           /\ own = "none" /\ ~laterCommitsSatisfy(read) /\ earlier = "success" => v # "failed"
<1>1. successfulGitHubConclusion(own) <=> own = "success"
  BY DEF successfulGitHubConclusion
<1> QED
  BY <1>1 DEF evaluateGitHubGateRuns, RunState

\* The head is always a candidate; and when the list of runs was readable and
\* the limit leaves none of the useful ones out, all of them are.
LEMMA Candidates ==
    ASSUME NEW h \in Gated..(Gated + LaterCommits + 1), NEW later, later = (Gated + 1)..h,
           later # {}, NEW useful \in SUBSET AllCommits, NEW actions \in BOOLEAN
    PROVE  /\ laterCandidateCommits(later, useful, actions) \in SUBSET later
           /\ h \in later /\ h \in laterCandidateCommits(later, useful, actions)
           /\ actions /\ Cardinality((later \ {h}) \cap useful) < LaterCommitLimit =>
                 (later \cap useful) \subseteq laterCandidateCommits(later, useful, actions)
<1>1. h \in Nat /\ later \in SUBSET Nat /\ h \in later /\ \A c \in later : h >= c
  BY CommitNumbers
<1>2. Max(later) = h
  <2>1. later \in SUBSET (-1..h)
    BY <1>1
  <2>2. Max(later) \in later /\ \A c \in later : Max(later) >= c
    BY <1>1, <2>1, LastNatural
  <2>3. PICK m \in later : m = Max(later) /\ m >= h
    BY <1>1, <2>2
  <2> QED
    BY <1>1, <2>3
<1> DEFINE rest == IF actions THEN (useful \cap later) \ {h} ELSE later \ {h}
<1>3. laterCandidateCommits(later, useful, actions) = Nearest(rest, LaterCommitLimit - 1) \cup {h}
  BY <1>2 DEF laterCandidateCommits
<1>4. Nearest(rest, LaterCommitLimit - 1) \subseteq rest /\ rest \subseteq later
  BY DEF Nearest
<1>5. ASSUME actions, Cardinality((later \ {h}) \cap useful) < LaterCommitLimit,
             NEW c \in (later \cap useful) \ {h}
      PROVE  c \in Nearest(rest, LaterCommitLimit - 1)
  <2> DEFINE lower == {d \in rest : d < c}
  <2>1. rest = (later \ {h}) \cap useful /\ c \in rest /\ c \in Nat
    BY <1>1, <1>5
  <2>2. IsFiniteSet(rest)
    <3>1. IsFiniteSet((Gated + 1)..h)
      BY <1>1, CommitNumbers, FS_Interval
    <3> QED
      BY <1>4, <3>1, FS_Subset
  <2>3. lower \subseteq rest /\ c \notin lower
    BY <2>1
  <2> HIDE DEF lower, rest
  <2>4. /\ Cardinality(lower) < Cardinality(rest)
        /\ Cardinality(lower) \in Nat /\ Cardinality(rest) \in Nat
    <3>1. IsFiniteSet(lower) /\ lower \subseteq rest /\ c \in rest /\ c \notin lower
      BY <2>1, <2>2, <2>3, FS_Subset
    <3>2. lower # rest
      BY <3>1
    <3>3. Cardinality(lower) <= Cardinality(rest) /\ Cardinality(lower) # Cardinality(rest)
      BY <2>2, <3>1, <3>2, FS_Subset
    <3>4. Cardinality(lower) \in Nat /\ Cardinality(rest) \in Nat
      BY <2>2, <3>1, FS_CardinalityType
    <3> QED
      BY <3>3, <3>4
  <2>5. Cardinality(lower) < LaterCommitLimit - 1
    BY <1>5, <2>1, <2>4, CommitNumbers
  <2> QED
    BY <2>1, <2>5 DEF Nearest, lower
<1> QED
  BY <1>1, <1>3, <1>4, <1>5

\* In general the candidates are later commits.
LEMMA CandidatesAreLater ==
    ASSUME NEW h \in Gated..(Gated + LaterCommits + 1),
           NEW later \in SUBSET ((Gated + 1)..h), NEW useful, NEW actions
    PROVE  laterCandidateCommits(later, useful, actions) \in SUBSET later
<1>1. CASE later = {}
  BY <1>1 DEF laterCandidateCommits
<1>2. CASE later # {}
  <2>1. Max(later) \in later
    <3>1. h \in Nat /\ later \in SUBSET (-1..h)
      BY CommitNumbers
    <3> QED
      BY <1>2, <3>1, LastNatural
  <2>2. \A S \in SUBSET later : Nearest(S, LaterCommitLimit - 1) \subseteq later
    BY DEF Nearest
  <2> DEFINE rest == IF actions THEN (useful \cap later) \ {Max(later)} ELSE later \ {Max(later)}
  <2>3. laterCandidateCommits(later, useful, actions)
          = Nearest(rest, LaterCommitLimit - 1) \cup {Max(later)}
    BY <1>2 DEF laterCandidateCommits
  <2>4. rest \in SUBSET later
    OBVIOUS
  <2> QED
    BY <2>1, <2>2, <2>3, <2>4
<1> QED
  BY <1>1, <1>2

-----------------------------------------------------------------------------
(* What a request learns is kept                                             *)

\* A step of the call leaves GitHub as it is.
LEMMA Learns ==
    ASSUME GitHubTyped, NEW q \in Probe, Knows(q), ProbeTo(q)
    PROVE  VerdictInv'
<1>1. /\ probe' = q /\ head' = head /\ check' = check /\ beside' = beside
      /\ readable' = readable /\ ever' = ever /\ ghMoves' = ghMoves
  BY DEF ProbeTo
<1>2. GitHubTyped'
  BY <1>1 DEF GitHubTyped
<1>3. (ProbeFits(probe) /\ NothingFound(probe))'
  BY <1>1 DEF Knows, ProbeFits, NothingFound, Settled
<1>4. (SeenWasThere(probe) /\ StoodStill(probe))'
  BY <1>1 DEF Knows, SeenWasThere, StoodStill
<1>5. (Earned(probe) /\ Documented(probe))'
  BY <1>1 DEF Knows, Earned, Documented, HeadRead, FailsEarly, NamedInVain
<1> QED
  BY <1>1, <1>2, <1>3, <1>4, <1>5 DEF VerdictInv, Knows

\* A call that has asked for nothing.
LEMMA NothingAsked ==
    ASSUME NEW p \in Probe, p.pc = "own", p.own = "none", p.later = {}, DOMAIN p.read = {},
           ~p.actions, p.answer = "none", p.proof = 0
    PROVE  Knows(p)
BY DEF Knows, ProbeFits, NothingFound, SeenWasThere, StoodStill, Earned, Documented, Unfinished

LEMMA NoProbeFits ==
    \E none \in Probe :
       /\ none = NoProbe
       /\ none.pc = "own" /\ none.own = "none" /\ none.later = {} /\ DOMAIN none.read = {}
       /\ ~none.actions /\ none.answer = "none" /\ none.proof = 0
<1>1. PICK r : r = [c \in {} |-> "none"]
  OBVIOUS
<1>2. r \in Reads /\ DOMAIN r = {}
  <2>1. r \in [{} -> RunState] /\ {} \in SUBSET AllCommits
    BY <1>1
  <2> QED
    BY <1>1, <2>1 DEF Reads
<1>3. PICK none : none = NoProbe
  OBVIOUS
<1>4. none = [pc |-> "own", own |-> "none", ownBeside |-> "none", later |-> {},
              useful |-> {}, active |-> FALSE, actions |-> FALSE, read |-> r,
              answer |-> "none", terminal |-> FALSE, proof |-> 0, moved |-> FALSE]
  BY <1>1, <1>3 DEF NoProbe
<1>5. /\ none \in Probe
      /\ none.pc = "own" /\ none.own = "none" /\ none.later = {} /\ none.read = r
      /\ ~none.actions /\ none.answer = "none" /\ none.proof = 0
  BY <1>2, <1>4 DEF Probe, RunState
<1> QED
  BY <1>2, <1>3, <1>5

LEMMA FailedCall == VerdictInv /\ ProbeFails => VerdictInv'
<1> SUFFICES ASSUME VerdictInv, ProbeFails PROVE VerdictInv'
  OBVIOUS
<1>1. PICK p \in Probe : p = probe /\ Knows(p)
  BY DEF VerdictInv
<1>2. PICK none \in Probe :
        /\ none = NoProbe
        /\ none.pc = "own" /\ none.own = "none" /\ none.later = {} /\ DOMAIN none.read = {}
        /\ ~none.actions /\ none.answer = "none" /\ none.proof = 0
  BY NoProbeFits
<1>3. PICK m \in BOOLEAN : m = p.moved
  BY DEF Probe
<1>4. PICK q : q = [none EXCEPT !.moved = m]
  OBVIOUS
<1>5. /\ q \in Probe
      /\ q.pc = "own" /\ q.own = "none" /\ q.later = {} /\ DOMAIN q.read = {}
      /\ ~q.actions /\ q.answer = "none" /\ q.proof = 0
  BY <1>2, <1>4 DEF Probe
<1>6. ProbeTo(q)
  BY <1>1, <1>2, <1>3, <1>4 DEF ProbeFails
<1> QED
  BY <1>5, <1>6, NothingAsked, Learns DEF VerdictInv

LEMMA VerdictStarts == VerdictInit => VerdictInv
<1> SUFFICES ASSUME VerdictInit PROVE VerdictInv
  OBVIOUS
<1>1. head \in Gated..(Gated + LaterCommits) /\ head \in Gated..(Gated + LaterCommits + 1)
  BY CommitNumbers DEF VerdictInit
<1>2. check \in [AllCommits -> RunState]
  <2>1. PICK before \in {"none", "success", "failure"}, own \in RunState,
             after \in [(Gated + 1)..head -> RunState \ {"cancelled"}] :
          check = [c \in AllCommits |-> IF c < Gated THEN before
                                        ELSE IF c = Gated THEN own
                                        ELSE IF c <= head THEN after[c] ELSE "none"]
    BY DEF VerdictInit
  <2>2. ASSUME NEW c \in AllCommits PROVE check[c] \in RunState
    <3>1. c \in Int /\ head \in Int
      BY <1>1, CommitNumbers
    <3>2. "none" \in RunState /\ before \in RunState
      BY DEF RunState
    <3>3. ~(c < Gated) /\ c # Gated /\ c <= head => after[c] \in RunState
      BY <1>1, <3>1, CommitNumbers
    <3> QED
      BY <2>1, <3>2, <3>3
  <2> QED
    BY <2>1, <2>2
<1>3. beside \in [AllCommits -> RunState]
  BY DEF VerdictInit, RunState
<1>4. GitHubTyped
  <2>1. readable \in BOOLEAN /\ ever = {c \in AllCommits : check[c] = "success"}
    BY DEF VerdictInit
  <2>2. ghMoves \in 0..MaxGitHubMoves
    BY VerdictAssumption DEF VerdictInit
  <2> QED
    BY <1>1, <1>2, <1>3, <2>1, <2>2 DEF GitHubTyped
<1>5. probe \in Probe /\ Knows(probe)
  BY NoProbeFits, NothingAsked DEF VerdictInit
<1> QED
  BY <1>4, <1>5 DEF VerdictInv

-----------------------------------------------------------------------------
(* The requests                                                              *)

\* The parts of a call, for a rigid one.
LEMMA Parts ==
    ASSUME VerdictInv
    PROVE  \E p \in Probe : p = probe /\ Knows(p)
BY DEF VerdictInv

LEMMA CommitRead == VerdictInv /\ commitCheckRuns => VerdictInv'
<1> SUFFICES ASSUME VerdictInv, commitCheckRuns PROVE VerdictInv'
  OBVIOUS
<1>1. PICK p \in Probe : p = probe /\ Knows(p)
  BY Parts
<1>2. GitHubTyped
  BY DEF VerdictInv
<1>3. PICK own \in RunState : own = check[Gated]
  BY <1>2, CommitNumbers DEF GitHubTyped
<1>4. PICK near \in RunState : near = beside[Gated]
  BY <1>2, CommitNumbers DEF GitHubTyped
<1>5. PICK over \in BOOLEAN : over = (/\ {own, near} # {"none"} /\ "active" \notin {own, near})
  OBVIOUS
<1>6. /\ p.pc = "own" /\ p.answer = "none" /\ p.proof = 0 /\ p.later = {}
      /\ p.read \in Reads /\ DOMAIN p.read = {} /\ ~p.actions
  BY <1>1 DEF commitCheckRuns, Knows, ProbeFits, Probe, Unfinished
<1> DEFINE seen == [p EXCEPT !.own = own, !.ownBeside = near, !.terminal = over]
<1>7. ProbeTo(IF checksNeedingLaterCommits(seen.own) /\ LaterCommitLimit > 0
              THEN [seen EXCEPT !.pc = "compare"]
              ELSE [Answer(seen, "none") EXCEPT !.pc = "done"])
  BY <1>1, <1>3, <1>4, <1>5 DEF commitCheckRuns
<1>8. PICK s : s = seen
  OBVIOUS
<1>9. /\ s \in Probe /\ s.pc = "own" /\ s.answer = "none" /\ s.proof = 0 /\ s.later = {}
      /\ s.read \in Reads /\ DOMAIN s.read = {} /\ ~s.actions /\ s.own = own /\ s.moved = p.moved
  BY <1>6, <1>8 DEF Probe
<1>10. own = "success" => Gated \in ever
  BY <1>2, <1>3, CommitNumbers DEF GitHubTyped
<1> HIDE DEF seen
<1>11. CASE checksNeedingLaterCommits(own) /\ LaterCommitLimit > 0
  <2>1. PICK q : q = [s EXCEPT !.pc = "compare"]
    OBVIOUS
  <2>2. /\ q \in Probe /\ q.pc = "compare" /\ q.answer = "none" /\ q.proof = 0 /\ q.later = {}
        /\ q.read = s.read /\ ~q.actions /\ q.own = own
    BY <1>9, <2>1 DEF Probe
  <2>3. Knows(q)
    BY <1>3, <1>9, <1>10, <1>11, <2>2
       DEF Knows, ProbeFits, NothingFound, SeenWasThere, StoodStill, Earned, Documented,
           Unfinished, checksNeedingLaterCommits
  <2>4. ProbeTo(q)
    BY <1>7, <1>8, <1>9, <1>11, <2>1
  <2> QED
    BY <1>2, <2>2, <2>3, <2>4, Learns
<1>12. CASE ~(checksNeedingLaterCommits(own) /\ LaterCommitLimit > 0)
  <2>1. PICK v : v = evaluateGitHubGateRuns(own, s.read, "none")
    OBVIOUS
  <2>2. /\ v \in {"passed", "failed", "pending", "missing"}
        /\ v = "passed" => own = "success" \/ laterCommitsSatisfy(s.read)
    BY <1>9, <2>1, Evaluated
  <2>3. ~laterCommitsSatisfy(s.read)
    BY <1>9 DEF laterCommitsSatisfy
  <2>4. PICK q : q = [Answer(s, "none") EXCEPT !.pc = "done"]
    OBVIOUS
  <2>5. PICK t : t = [s EXCEPT !.answer = v]
    OBVIOUS
  <2>6. /\ t \in Probe /\ t.pc = "own" /\ t.answer = v /\ t.proof = 0 /\ t.later = {}
        /\ t.read = s.read /\ ~t.actions /\ t.own = own
    BY <1>9, <2>2, <2>5 DEF Probe
  <2>7. t = Answer(s, "none")
    BY <1>9, <2>1, <2>5 DEF Answer
  <2>8. q = [t EXCEPT !.pc = "done"]
    BY <2>4, <2>7
  <2>9. /\ q \in Probe /\ q.pc = "done" /\ q.answer = v /\ q.proof = 0 /\ q.later = {}
        /\ q.read = s.read /\ ~q.actions /\ q.own = own
    BY <2>6, <2>8 DEF Probe
  <2>10. ProbeFits(q) /\ NothingFound(q) /\ SeenWasThere(q) /\ StoodStill(q)
    BY <1>3, <1>9, <1>10, <2>9 DEF ProbeFits, NothingFound, SeenWasThere, StoodStill, Unfinished
  <2>11. Earned(q)
    BY <1>10, <2>2, <2>3, <2>9, CommitNumbers DEF Earned
  <2>12. Documented(q)
    BY <2>9 DEF Documented, HeadRead, FailsEarly, NamedInVain
  <2>13. ProbeTo(q)
    BY <1>7, <1>8, <1>9, <1>12, <2>4
  <2> QED
    BY <1>2, <2>9, <2>10, <2>11, <2>12, <2>13, Learns DEF Knows
<1> QED
  BY <1>11, <1>12

LEMMA LaterListed == VerdictInv /\ laterCommitsOnRef => VerdictInv'
<1> SUFFICES ASSUME VerdictInv, laterCommitsOnRef PROVE VerdictInv'
  OBVIOUS
<1>1. PICK p \in Probe : p = probe /\ Knows(p)
  BY Parts
<1>2. GitHubTyped
  BY DEF VerdictInv
<1>3. PICK later \in {{}, (Gated + 1)..head} :
         ProbeTo([probe EXCEPT !.pc = "list", !.later = later])
  BY DEF laterCommitsOnRef
<1>4. PICK q : q = [p EXCEPT !.pc = "list", !.later = later]
  OBVIOUS
<1>5. later \in SUBSET ((Gated + 1)..head) /\ later \in SUBSET AllCommits
  BY <1>2, CommitNumbers DEF GitHubTyped
<1>6. q \in Probe
  BY <1>4, <1>5 DEF Probe
<1>7. /\ q.pc = "list" /\ q.later = later /\ q.own = p.own /\ q.read = p.read
      /\ q.actions = p.actions /\ q.answer = p.answer /\ q.proof = p.proof /\ q.moved = p.moved
  BY <1>4 DEF Probe
<1>8. /\ p.pc = "compare" /\ p.answer = "none" /\ p.proof = 0
      /\ ~p.actions /\ DOMAIN p.read = {} /\ p.own \in {"none", "failure", "cancelled"}
      /\ (~p.moved => p.own = check[Gated])
  BY <1>1 DEF laterCommitsOnRef, Knows, ProbeFits, StoodStill, Unfinished
<1>9. Knows(q)
  BY <1>3, <1>5, <1>7, <1>8
     DEF Knows, ProbeFits, NothingFound, SeenWasThere, StoodStill, Earned, Documented, Unfinished
<1>10. ProbeTo(q)
  BY <1>1, <1>3, <1>4
<1> QED
  BY <1>2, <1>6, <1>9, <1>10, Learns

LEMMA RunsListed == VerdictInv /\ branchWorkflowRuns => VerdictInv'
<1> SUFFICES ASSUME VerdictInv, branchWorkflowRuns PROVE VerdictInv'
  OBVIOUS
<1>1. PICK p \in Probe : p = probe /\ Knows(p)
  BY Parts
<1>2. GitHubTyped
  BY DEF VerdictInv
<1>3. PICK may \in BOOLEAN : may = readable
  BY <1>2 DEF GitHubTyped
<1>4. PICK useful \in SUBSET AllCommits :
         useful = IF may
                  THEN {c \in 1..head : {check[c], beside[c]} \cap {"active", "success"} # {}}
                  ELSE {}
  <2>1. 1..head \subseteq AllCommits
    BY <1>2, CommitNumbers DEF GitHubTyped
  <2> QED
    BY <2>1
<1>5. PICK busy \in BOOLEAN :
         busy = (may /\ \E c \in {Gated} \cup p.later : "active" \in {check[c], beside[c]})
  BY <1>3
<1>6. PICK q : q = [p EXCEPT !.pc = "read", !.actions = may, !.useful = useful, !.active = busy]
  OBVIOUS
<1>7. q \in Probe
  BY <1>6 DEF Probe
<1>8. /\ q.pc = "read" /\ q.later = p.later /\ q.own = p.own /\ q.read = p.read
      /\ q.actions = may /\ q.useful = useful /\ q.active = busy
      /\ q.answer = p.answer /\ q.proof = p.proof /\ q.moved = p.moved
  BY <1>6 DEF Probe
<1>9. /\ p.pc = "list" /\ p.answer = "none" /\ p.proof = 0 /\ p.later \in SUBSET ((Gated + 1)..head)
      /\ DOMAIN p.read = {} /\ p.own \in {"none", "failure", "cancelled"}
      /\ ~p.moved => /\ p.own = check[Gated]
                     /\ p.later # {} => p.later = (Gated + 1)..head
  BY <1>1 DEF branchWorkflowRuns, Knows, ProbeFits, StoodStill, Unfinished
<1>10. ProbeFits(q) /\ NothingFound(q) /\ SeenWasThere(q) /\ Earned(q) /\ Documented(q)
  BY <1>8, <1>9 DEF ProbeFits, NothingFound, SeenWasThere, Earned, Documented, Unfinished
<1>11. StoodStill(q)
  BY <1>4, <1>5, <1>8, <1>9 DEF StoodStill
<1>12. ProbeTo(q)
  BY <1>1, <1>3, <1>4, <1>5, <1>6 DEF branchWorkflowRuns
<1> QED
  BY <1>2, <1>7, <1>10, <1>11, <1>12, Learns DEF Knows

LEMMA CandidateRead == VerdictInv /\ ReadCandidate => VerdictInv'
<1> SUFFICES ASSUME VerdictInv, ReadCandidate PROVE VerdictInv'
  OBVIOUS
<1>1. PICK p \in Probe : p = probe /\ Knows(p)
  BY Parts
<1>2. GitHubTyped
  BY DEF VerdictInv
<1>3. p.pc = "read" /\ Unread # {} /\ p.later \in SUBSET ((Gated + 1)..head)
  BY <1>1 DEF ReadCandidate, Knows, ProbeFits
<1>4. Unread \in SUBSET p.later
  <2>1. laterCandidateCommits(p.later, p.useful, p.actions) \in SUBSET p.later
    BY <1>2, <1>3, CandidatesAreLater DEF GitHubTyped
  <2> QED
    BY <1>1, <2>1 DEF Unread
<1>5. PICK k \in Unread : k = Min(Unread)
  <2>1. Unread \in SUBSET Nat
    BY <1>2, <1>3, <1>4, CommitNumbers DEF GitHubTyped
  <2>2. PICK x \in Unread : \A y \in Unread : x <= y
    BY <1>3, <2>1, FirstNatural
  <2>3. Min(Unread) \in Unread
    BY <2>2 DEF Min
  <2> QED
    BY <2>3
<1>6. k \in p.later /\ k \in AllCommits
  BY <1>2, <1>3, <1>4, CommitNumbers DEF GitHubTyped
<1>7. PICK r : r = [d \in DOMAIN p.read \cup {k} |-> IF d = k THEN check[k] ELSE p.read[d]]
  OBVIOUS
<1>8. PICK C \in SUBSET AllCommits : p.read \in [C -> RunState]
  BY DEF Probe, Reads
<1>9. r \in Reads
  <2>1. r \in [C \cup {k} -> RunState]
    BY <1>2, <1>6, <1>7, <1>8 DEF GitHubTyped
  <2>2. C \cup {k} \in SUBSET AllCommits
    BY <1>6
  <2> QED
    BY <2>1, <2>2 DEF Reads
<1>10. PICK q : q = [p EXCEPT !.read = r]
  OBVIOUS
<1>11. q \in Probe
  BY <1>9, <1>10 DEF Probe
<1>12. /\ q.pc = "read" /\ q.later = p.later /\ q.own = p.own /\ q.read = r
       /\ q.actions = p.actions /\ q.useful = p.useful /\ q.active = p.active
       /\ q.answer = p.answer /\ q.proof = p.proof /\ q.moved = p.moved
  BY <1>3, <1>10 DEF Probe
<1>13. /\ p.answer = "none" /\ p.proof = 0 /\ p.own \in {"none", "failure", "cancelled"}
       /\ DOMAIN p.read \in SUBSET p.later
  BY <1>1, <1>3 DEF Knows, ProbeFits, Unfinished
<1>14. ProbeFits(q) /\ NothingFound(q) /\ Earned(q) /\ Documented(q)
  BY <1>3, <1>6, <1>7, <1>12, <1>13 DEF ProbeFits, NothingFound, Earned, Documented, Unfinished
<1>15. SeenWasThere(q)
  <2>1. \A c \in DOMAIN p.read : p.read[c] = "success" => c \in ever
    BY <1>1 DEF Knows, SeenWasThere
  <2>2. check[k] = "success" => k \in ever
    BY <1>2, <1>6 DEF GitHubTyped
  <2> QED
    BY <1>7, <1>12, <1>13, <2>1, <2>2 DEF SeenWasThere
<1>16. StoodStill(q)
  BY <1>1, <1>3, <1>7, <1>12 DEF Knows, StoodStill
<1>17. ProbeTo(q)
  BY <1>1, <1>5, <1>7, <1>10 DEF ReadCandidate
<1> QED
  BY <1>2, <1>11, <1>14, <1>15, <1>16, <1>17, Learns DEF Knows

\* Once the candidates are read, the answer is the documented one.
LEMMA ReadAll ==
    ASSUME GitHubTyped, NEW p \in Probe, NEW v,
           SeenWasThere(p), p.later \in SUBSET ((Gated + 1)..head), DOMAIN p.read \in SUBSET p.later,
           v = evaluateGitHubGateRuns(p.own, p.read, "none"), Settled(p), p.own # "success"
    PROVE  /\ v = "passed" => \E c \in ever : c >= Gated
           /\ /\ p.own = check[Gated]
              /\ p.later # {} => p.later = (Gated + 1)..head
              /\ \A c \in DOMAIN p.read : p.read[c] = check[c]
              /\ p.actions =>
                    p.useful = {c \in 1..head : {check[c], beside[c]} \cap {"active", "success"} # {}}
              =>
              /\ head \in p.later /\ check[head] = "success" /\ check[Gated] # "active"
                    => laterCommitsSatisfy(p.read) /\ v = "passed"
              /\ p.actions /\ Cardinality((p.later \ {head}) \cap p.useful) < LaterCommitLimit =>
                    (v = "failed"
                       <=> /\ check[Gated] = "failure"
                           /\ \A c \in p.later : check[c] \notin {"success", "active"})
<1>1. /\ p.own \in RunState /\ p.read \in Reads /\ p.later \in SUBSET AllCommits
      /\ p.useful \in SUBSET AllCommits /\ p.actions \in BOOLEAN
  BY DEF Probe
<1>2. /\ p.own = "success" \/ (p.own # "active" /\ laterCommitsSatisfy(p.read)) => v = "passed"
      /\ v = "passed" => p.own = "success" \/ laterCommitsSatisfy(p.read)
      /\ v = "failed" <=> /\ p.own = "failure" /\ ~laterCommitsSatisfy(p.read)
                          /\ \A c \in DOMAIN p.read : p.read[c] # "active"
  BY <1>1, Evaluated
<1>3. laterCommitsSatisfy(p.read) <=> \E c \in DOMAIN p.read : p.read[c] = "success"
  BY DEF laterCommitsSatisfy, successfulGitHubConclusion
<1>4. head \in Gated..(Gated + LaterCommits + 1) /\ head \in Nat
  BY CommitNumbers DEF GitHubTyped
<1>5. v = "passed" => \E c \in ever : c >= Gated
  <2> SUFFICES ASSUME v = "passed" PROVE \E c \in ever : c >= Gated
    OBVIOUS
  <2>1. PICK c \in DOMAIN p.read : p.read[c] = "success"
    BY <1>2, <1>3
  <2>2. c \in ever /\ c \in (Gated + 1)..head
    BY <2>1 DEF SeenWasThere
  <2>3. c >= Gated
    BY <1>4, <2>2, CommitNumbers
  <2> QED
    BY <2>2, <2>3
<1> SUFFICES ASSUME p.own = check[Gated],
                    p.later # {} => p.later = (Gated + 1)..head,
                    \A c \in DOMAIN p.read : p.read[c] = check[c],
                    p.actions => p.useful = {c \in 1..head :
                        {check[c], beside[c]} \cap {"active", "success"} # {}}
             PROVE  /\ head \in p.later /\ check[head] = "success" /\ check[Gated] # "active"
                          => laterCommitsSatisfy(p.read) /\ v = "passed"
                    /\ p.actions /\ Cardinality((p.later \ {head}) \cap p.useful) < LaterCommitLimit =>
                          (v = "failed"
                             <=> /\ check[Gated] = "failure"
                                 /\ \A c \in p.later : check[c] \notin {"success", "active"})
  BY <1>5
<1>6. ~laterCommitsSatisfy(p.read) =>
         laterCandidateCommits(p.later, p.useful, p.actions) \subseteq DOMAIN p.read
  BY DEF Settled
<1>7. ASSUME head \in p.later, check[head] = "success", check[Gated] # "active"
      PROVE  laterCommitsSatisfy(p.read) /\ v = "passed"
  <2>1. head \in laterCandidateCommits(p.later, p.useful, p.actions)
    BY <1>1, <1>4, <1>7, Candidates
  <2>2. laterCommitsSatisfy(p.read)
    BY <1>3, <1>6, <1>7, <2>1
  <2> QED
    BY <1>2, <1>7, <2>2
<1>8. ASSUME p.actions, Cardinality((p.later \ {head}) \cap p.useful) < LaterCommitLimit
      PROVE  v = "failed"
               <=> /\ check[Gated] = "failure"
                   /\ \A c \in p.later : check[c] \notin {"success", "active"}
  <2>1. ASSUME v = "failed", NEW c \in p.later PROVE check[c] \notin {"success", "active"}
    <3>1. SUFFICES ASSUME check[c] \in {"success", "active"} PROVE FALSE
      OBVIOUS
    <3>2. c \in 1..head
      BY <1>4, CommitNumbers
    <3>3. c \in p.later \cap p.useful
      BY <1>8, <3>1, <3>2
    <3>4. c \in laterCandidateCommits(p.later, p.useful, p.actions)
      BY <1>1, <1>4, <1>8, <3>3, Candidates
    <3>5. c \in DOMAIN p.read /\ p.read[c] = check[c]
      BY <1>2, <1>6, <2>1, <3>4
    <3> QED
      BY <1>2, <1>3, <2>1, <3>1, <3>5
  <2>2. ASSUME check[Gated] = "failure", \A c \in p.later : check[c] \notin {"success", "active"}
        PROVE  v = "failed"
    BY <1>2, <1>3, <2>2
  <2>3. v = "failed" => check[Gated] = "failure"
    BY <1>2
  <2> QED
    BY <2>1, <2>2, <2>3
<1> QED
  BY <1>7, <1>8

LEMMA OwnSettled == VerdictInv /\ SettleOwn => VerdictInv'
<1> SUFFICES ASSUME VerdictInv, SettleOwn PROVE VerdictInv'
  OBVIOUS
<1>1. PICK p \in Probe : p = probe /\ Knows(p)
  BY Parts
<1>2. GitHubTyped
  BY DEF VerdictInv
<1>3. PICK v : v = evaluateGitHubGateRuns(p.own, p.read, "none")
  OBVIOUS
<1>4. /\ p.pc = "read" /\ p.own \in {"none", "failure", "cancelled"} /\ p.proof = 0
      /\ p.later \in SUBSET ((Gated + 1)..head) /\ DOMAIN p.read \in SUBSET p.later
      /\ SeenWasThere(p) /\ StoodStill(p)
  BY <1>1 DEF SettleOwn, Knows, ProbeFits
<1>5. Settled(p)
  BY <1>1 DEF SettleOwn, Settled, Unread
<1>6. /\ v \in {"passed", "failed", "pending", "missing"}
      /\ v = "missing" => p.own = "none" /\ ~laterCommitsSatisfy(p.read)
  <2>1. p.own \in RunState /\ p.read \in Reads
    BY DEF Probe
  <2> QED
    BY <1>3, <2>1, Evaluated
<1>7. PICK t : t = [p EXCEPT !.answer = v]
  OBVIOUS
<1>8. /\ t \in Probe /\ t.answer = v /\ t.later = p.later /\ t.useful = p.useful
      /\ t.own = p.own /\ t.ownBeside = p.ownBeside /\ t.read = p.read /\ t.actions = p.actions
      /\ t.active = p.active /\ t.terminal = p.terminal /\ t.proof = p.proof /\ t.moved = p.moved
  BY <1>6, <1>7 DEF Probe
<1>9. t = Answer(probe, "none")
  BY <1>1, <1>3, <1>7 DEF Answer
<1>10. PICK over \in BOOLEAN : over = (p.terminal /\ ~p.active)
  OBVIOUS
<1>11. PICK s : s = [t EXCEPT !.terminal = over]
  OBVIOUS
<1>12. /\ s \in Probe /\ s.answer = v /\ s.later = p.later /\ s.useful = p.useful
       /\ s.own = p.own /\ s.read = p.read /\ s.actions = p.actions
       /\ s.active = p.active /\ s.terminal = over /\ s.proof = p.proof /\ s.moved = p.moved
  BY <1>8, <1>11 DEF Probe
<1>13. s = [t EXCEPT !.terminal = @ /\ ~t.active]
  BY <1>8, <1>10, <1>11
<1> DEFINE ends == \/ t.answer # "missing" \/ t.active \/ ~t.actions
                   \/ "active" \in {t.own, t.ownBeside}
<1>14. ProbeTo(IF ends THEN [s EXCEPT !.pc = "done"] ELSE [s EXCEPT !.pc = "jobs"])
  BY <1>9, <1>13 DEF SettleOwn
<1>15. PICK pc \in {"done", "jobs"} :
         pc = IF ends THEN "done" ELSE "jobs"
  OBVIOUS
<1>16. PICK q : q = [s EXCEPT !.pc = pc]
  OBVIOUS
<1>17. ProbeTo(q)
  BY <1>14, <1>15, <1>16
<1>18. /\ q \in Probe /\ q.pc = pc /\ q.answer = v /\ q.later = p.later /\ q.useful = p.useful
       /\ q.own = p.own /\ q.read = p.read /\ q.actions = p.actions
       /\ q.active = p.active /\ q.terminal = over /\ q.proof = p.proof /\ q.moved = p.moved
  BY <1>12, <1>16 DEF Probe
<1>19. pc = "jobs" => v = "missing" /\ ~p.active
  BY <1>8, <1>15
<1> HIDE DEF ends
<1>20. ProbeFits(q)
  BY <1>4, <1>18 DEF ProbeFits, Unfinished
<1>21. NothingFound(q)
  BY <1>5, <1>6, <1>18, <1>19 DEF NothingFound, Settled
<1>22. SeenWasThere(q) /\ StoodStill(q)
  BY <1>4, <1>18 DEF SeenWasThere, StoodStill
<1>23. Earned(q)
  <2>1. p.own # "success"
    BY <1>4
  <2>2. v = "passed" => \E c \in ever : c >= Gated
    BY <1>2, <1>3, <1>4, <1>5, <2>1, ReadAll
  <2> QED
    BY <1>4, <1>18, <2>2 DEF Earned
<1>24. Documented(q)
  <2> SUFFICES ASSUME ~p.moved PROVE HeadRead(q) /\ FailsEarly(q) /\ NamedInVain(q)
    BY <1>18 DEF Documented
  <2>1. /\ p.own = check[Gated]
        /\ p.later # {} => p.later = (Gated + 1)..head
        /\ \A c \in DOMAIN p.read : p.read[c] = check[c]
        /\ p.actions =>
             /\ p.useful = {c \in 1..head : {check[c], beside[c]} \cap {"active", "success"} # {}}
             /\ p.active <=> \E c \in {Gated} \cup p.later : "active" \in {check[c], beside[c]}
    BY <1>4 DEF StoodStill
  <2>2. HeadRead(q) /\ FailsEarly(q)
    <3>1. /\ head \in p.later /\ check[head] = "success" /\ check[Gated] # "active"
                => v = "passed"
          /\ p.actions /\ Cardinality((p.later \ {head}) \cap p.useful) < LaterCommitLimit =>
                (v = "failed"
                   <=> /\ check[Gated] = "failure"
                       /\ \A c \in p.later : check[c] \notin {"success", "active"})
      <4>1. p.own # "success"
        BY <1>4
      <4>2. p.actions =>
               p.useful = {c \in 1..head : {check[c], beside[c]} \cap {"active", "success"} # {}}
        BY <2>1
      <4> QED
        BY <1>2, <1>3, <1>4, <1>5, <2>1, <4>1, <4>2, ReadAll
    <3> QED
      BY <1>18, <3>1 DEF HeadRead, FailsEarly
  <2>3. NamedInVain(q)
    BY <1>10, <1>18, <2>1 DEF NamedInVain
  <2> QED
    BY <2>2, <2>3
<1> QED
  BY <1>2, <1>17, <1>18, <1>20, <1>21, <1>22, <1>23, <1>24, Learns DEF Knows

LEMMA EarlierRead == VerdictInv /\ earlierPathFilteredPasses => VerdictInv'
<1> SUFFICES ASSUME VerdictInv, earlierPathFilteredPasses PROVE VerdictInv'
  OBVIOUS
<1>1. PICK p \in Probe : p = probe /\ Knows(p)
  BY Parts
<1>2. GitHubTyped /\ head \in Nat
  BY CommitNumbers DEF VerdictInv, GitHubTyped
<1> DEFINE ran == nearestEarlierWorkflowRuns({c \in 1..head : check[c] # "none"})
<1>3. PICK skipped \in BOOLEAN :
        LET found == ran # {} /\ check[Max(ran)] = "success" /\ skipped /\ Max(ran) < Gated
        IN  ProbeTo([Answer(probe, IF found THEN "success" ELSE "none") EXCEPT
                       !.pc = "done", !.proof = IF found THEN Max(ran) ELSE 0])
  BY DEF earlierPathFilteredPasses
<1>4. PICK found \in BOOLEAN :
        found = (ran # {} /\ check[Max(ran)] = "success" /\ skipped /\ Max(ran) < Gated)
  OBVIOUS
<1>5. PICK earlier : earlier = IF found THEN "success" ELSE "none"
  OBVIOUS
<1>6. PICK m : m = IF found THEN Max(ran) ELSE 0
  OBVIOUS
<1>7. /\ m \in AllCommits \cup {0}
      /\ found => m # 0 /\ m \in ever /\ \A c \in (m + 1)..head : check[c] = "none"
      /\ ~found => m = 0
  <2> SUFFICES ASSUME found
               PROVE  m \in AllCommits /\ m # 0 /\ m \in ever
                      /\ \A c \in (m + 1)..head : check[c] = "none"
    BY <1>6
  <2>1. PICK R : R = ran
    OBVIOUS
  <2>2. R # {} /\ check[Max(R)] = "success" /\ m = Max(R)
    BY <1>4, <1>6, <2>1
  <2>3. R = {c \in 1..head : check[c] # "none"}
    BY <2>1, <2>2 DEF nearestEarlierWorkflowRuns
  <2>4. R \in SUBSET (-1..head)
    BY <1>2, <2>3
  <2>5. Max(R) \in R /\ \A y \in R : Max(R) >= y
    BY <1>2, <2>2, <2>4, LastNatural
  <2>6. m \in R /\ \A y \in R : m >= y
    BY <2>2, <2>5
  <2>7. m \in 1..head /\ m \in AllCommits
    BY <1>2, <2>3, <2>6, CommitNumbers DEF GitHubTyped
  <2>8. m \in ever
    BY <1>2, <2>2, <2>7 DEF GitHubTyped
  <2>9. ASSUME NEW c \in (m + 1)..head PROVE check[c] = "none"
    <3>1. c \in 1..head /\ ~(m >= c)
      BY <1>2, <2>7
    <3> QED
      BY <2>3, <2>6, <3>1
  <2> QED
    BY <2>7, <2>8, <2>9
<1>8. /\ p.pc = "jobs" /\ p.own = "none" /\ ~p.active /\ ~laterCommitsSatisfy(p.read)
      /\ p.later \in SUBSET ((Gated + 1)..head) /\ DOMAIN p.read \in SUBSET p.later
      /\ SeenWasThere(p) /\ StoodStill(p) /\ Settled(p)
  BY <1>1 DEF earlierPathFilteredPasses, Knows, ProbeFits, NothingFound
<1>9. PICK v : v = evaluateGitHubGateRuns(p.own, p.read, earlier)
  OBVIOUS
<1>10. PICK w : w = evaluateGitHubGateRuns(p.own, p.read, "none")
  OBVIOUS
<1>11. /\ v \in {"passed", "failed", "pending", "missing"}
       /\ v = "passed" => found
       /\ v # "failed"
  <2>1. p.own \in RunState /\ p.read \in Reads
    BY DEF Probe
  <2>2. /\ v \in {"passed", "failed", "pending", "missing"}
        /\ v = "passed" => p.own = "success" \/ laterCommitsSatisfy(p.read) \/ earlier = "success"
        /\ v = "failed" => p.own = "failure"
    BY <1>9, <2>1, Evaluated
  <2> QED
    BY <1>5, <1>8, <2>2
<1>12. PICK t : t = [p EXCEPT !.answer = v]
  OBVIOUS
<1>13. /\ t \in Probe /\ t.answer = v /\ t.later = p.later /\ t.useful = p.useful
       /\ t.own = p.own /\ t.read = p.read /\ t.actions = p.actions
       /\ t.active = p.active /\ t.moved = p.moved
  BY <1>11, <1>12 DEF Probe
<1>14. t = Answer(probe, earlier)
  BY <1>1, <1>9, <1>12 DEF Answer
<1>15. PICK s : s = [t EXCEPT !.pc = "done"]
  OBVIOUS
<1>16. /\ s \in Probe /\ s.answer = v /\ s.later = p.later /\ s.useful = p.useful
       /\ s.own = p.own /\ s.read = p.read /\ s.actions = p.actions
       /\ s.active = p.active /\ s.moved = p.moved /\ s.pc = "done"
  BY <1>13, <1>15 DEF Probe
<1>17. PICK q : q = [s EXCEPT !.proof = m]
  OBVIOUS
<1>18. /\ q \in Probe /\ q.answer = v /\ q.later = p.later /\ q.useful = p.useful
       /\ q.own = p.own /\ q.read = p.read /\ q.actions = p.actions
       /\ q.active = p.active /\ q.moved = p.moved /\ q.pc = "done" /\ q.proof = m
  BY <1>7, <1>16, <1>17 DEF Probe
<1> HIDE DEF ran
<1>19. ProbeTo(q)
  <2>1. ProbeTo([Answer(probe, earlier) EXCEPT !.pc = "done", !.proof = m])
    BY <1>3, <1>4, <1>5, <1>6
  <2>2. q = [t EXCEPT !.pc = "done", !.proof = m]
    BY <1>15, <1>17
  <2> QED
    BY <1>14, <2>1, <2>2
<1>20. ProbeFits(q) /\ NothingFound(q) /\ SeenWasThere(q) /\ StoodStill(q)
  BY <1>8, <1>18 DEF ProbeFits, NothingFound, SeenWasThere, StoodStill, Unfinished
<1>21. Earned(q)
  BY <1>7, <1>11, <1>18 DEF Earned
<1>22. Documented(q)
  <2> SUFFICES ASSUME ~p.moved PROVE HeadRead(q) /\ FailsEarly(q) /\ NamedInVain(q)
    BY <1>18 DEF Documented
  <2>1. /\ p.own = check[Gated]
        /\ p.later # {} => p.later = (Gated + 1)..head
        /\ \A c \in DOMAIN p.read : p.read[c] = check[c]
        /\ p.actions =>
             /\ p.useful = {c \in 1..head : {check[c], beside[c]} \cap {"active", "success"} # {}}
             /\ p.active <=> \E c \in {Gated} \cup p.later : "active" \in {check[c], beside[c]}
    BY <1>8 DEF StoodStill
  <2>2. head \in p.later /\ check[head] = "success" /\ check[Gated] # "active" => FALSE
    <3>1. p.own # "success"
      BY <1>8
    <3>2. p.actions =>
             p.useful = {c \in 1..head : {check[c], beside[c]} \cap {"active", "success"} # {}}
      BY <2>1
    <3>3. head \in p.later /\ check[head] = "success" /\ check[Gated] # "active"
             => laterCommitsSatisfy(p.read)
      BY <1>2, <1>8, <1>10, <2>1, <3>1, <3>2, ReadAll
    <3> QED
      BY <1>8, <3>3
  <2>3. HeadRead(q)
    BY <1>18, <2>2 DEF HeadRead
  <2>4. FailsEarly(q)
    BY <1>8, <1>11, <1>18, <2>1 DEF FailsEarly
  <2>5. NamedInVain(q)
    BY <1>8, <1>18, <2>1 DEF NamedInVain
  <2> QED
    BY <2>3, <2>4, <2>5
<1> QED
  BY <1>2, <1>18, <1>19, <1>20, <1>21, <1>22, Learns DEF Knows

-----------------------------------------------------------------------------
(* GitHub moves                                                              *)

LEMMA GitHubMoved == VerdictInv /\ GitHubMoves => VerdictInv'
<1> SUFFICES ASSUME VerdictInv, GitHubMoves PROVE VerdictInv'
  OBVIOUS
<1>1. PICK p \in Probe : p = probe /\ Knows(p)
  BY Parts
<1>2. GitHubTyped
  BY DEF VerdictInv
<1>3. /\ head' \in Gated..(Gated + LaterCommits + 1) /\ head' >= head
      /\ check' \in [AllCommits -> RunState] /\ beside' \in [AllCommits -> RunState]
      /\ ever' \in SUBSET AllCommits /\ ever \subseteq ever'
      /\ \A c \in AllCommits : check'[c] = "success" => c \in ever'
  <2>1. CASE Push
    <3>1. head + 1 \in Gated..(Gated + LaterCommits + 1) /\ head + 1 \in AllCommits /\ head + 1 >= head
      BY <1>2, <2>1, CommitNumbers DEF Push, GitHubTyped
    <3>2. PICK s \in {"none", "active"} : check' = [check EXCEPT ![head + 1] = s]
      BY <2>1 DEF Push
    <3>3. s \in RunState /\ "active" \in RunState /\ s # "success"
      BY DEF RunState
    <3> QED
      BY <1>2, <2>1, <3>1, <3>2, <3>3 DEF Push, GitHubTyped
  <2>2. CASE \E c \in 1..head, s \in RunState : RunMoves(c, s)
    <3>1. PICK c \in 1..head, s \in RunState : RunMoves(c, s)
      BY <2>2
    <3>2. c \in AllCommits
      BY <1>2, CommitNumbers DEF GitHubTyped
    <3>3. head \in Nat
      BY <1>2, CommitNumbers DEF GitHubTyped
    <3> QED
      BY <1>2, <3>1, <3>2, <3>3 DEF RunMoves, GitHubTyped
  <2> QED
    BY <2>1, <2>2 DEF GitHubMoves
<1>4. GitHubTyped'
  <2>1. readable' = readable /\ ghMoves' \in 0..MaxGitHubMoves
    BY <1>2, VerdictAssumption DEF GitHubMoves, GitHubTyped
  <2> QED
    BY <1>2, <1>3, <2>1 DEF GitHubTyped
<1>5. PICK m \in BOOLEAN : m = (p.moved \/ p.pc # "own")
  OBVIOUS
<1>6. PICK q : q = [p EXCEPT !.moved = m]
  OBVIOUS
<1>7. /\ q \in Probe /\ q.moved = m /\ q.pc = p.pc /\ q.answer = p.answer
      /\ q.later = p.later /\ q.useful = p.useful /\ q.own = p.own /\ q.read = p.read
      /\ q.actions = p.actions /\ q.active = p.active /\ q.proof = p.proof
  BY <1>6 DEF Probe
<1>8. probe' = q
  BY <1>1, <1>5, <1>6 DEF GitHubMoves
<1>9. p.pc # "done" /\ p.proof = 0
  BY <1>1 DEF GitHubMoves, Knows, ProbeFits
<1>10. ProbeFits(q)'
  <2>1. q.later \in SUBSET ((Gated + 1)..head')
    <3>1. (Gated + 1)..head \subseteq (Gated + 1)..head'
      BY <1>2, <1>3, CommitNumbers DEF GitHubTyped
    <3> QED
      BY <1>1, <1>7, <3>1 DEF Knows, ProbeFits
  <2> QED
    BY <1>1, <1>7, <2>1 DEF Knows, ProbeFits, Unfinished
<1>11. NothingFound(q)'
  BY <1>1, <1>7 DEF Knows, NothingFound, Settled
<1>12. SeenWasThere(q)'
  BY <1>1, <1>3, <1>7 DEF Knows, SeenWasThere
<1>13. StoodStill(q)'
  BY <1>5, <1>7 DEF StoodStill
<1>14. Earned(q)' /\ Documented(q)'
  BY <1>1, <1>3, <1>7, <1>9 DEF Knows, Earned, Documented
<1> QED
  BY <1>4, <1>7, <1>8, <1>10, <1>11, <1>12, <1>13, <1>14 DEF VerdictInv, Knows

-----------------------------------------------------------------------------
(* Whatever GitHub does between the requests of a poll, a gate passes only on *)
(* a success that counts for it, and when GitHub stands still the answer is   *)
(* the documented one, for every limit and number of commits                  *)
(* (evaluateGitHubGateRuns, github_checks.go).                                *)
THEOREM VerdictCorrect == VerdictSpec => []VerdictIsRight
<1>1. VerdictInit => VerdictInv
  BY VerdictStarts
<1>2. VerdictInv /\ [VerdictNext]_verdictVars => VerdictInv'
  <2> SUFFICES ASSUME VerdictInv, [VerdictNext]_verdictVars PROVE VerdictInv'
    OBVIOUS
  <2>1. CASE VerdictNext
    BY <2>1, GitHubMoved, CommitRead, LaterListed, RunsListed, CandidateRead, OwnSettled,
       EarlierRead, FailedCall DEF VerdictNext, CheckChange
  <2>2. CASE UNCHANGED verdictVars
    <3>1. GitHubTyped'
      BY <2>2 DEF VerdictInv, GitHubTyped, verdictVars
    <3>2. (ProbeFits(probe) /\ NothingFound(probe))'
      BY <2>2 DEF VerdictInv, Knows, ProbeFits, NothingFound, Settled, verdictVars
    <3>3. (SeenWasThere(probe) /\ StoodStill(probe))'
      BY <2>2 DEF VerdictInv, Knows, SeenWasThere, StoodStill, verdictVars
    <3>4. (Earned(probe) /\ Documented(probe))'
      BY <2>2 DEF VerdictInv, Knows, Earned, Documented, HeadRead, FailsEarly, NamedInVain,
                  verdictVars
    <3> QED
      BY <2>2, <3>1, <3>2, <3>3, <3>4 DEF VerdictInv, Knows, verdictVars
  <2> QED
    BY <2>1, <2>2
<1>3. VerdictInv => VerdictIsRight
  <2> SUFFICES ASSUME VerdictInv PROVE VerdictIsRight
    OBVIOUS
  <2>1. PICK p \in Probe : p = probe /\ Knows(p)
    BY Parts
  <2>2. VerdictTypeOK
    BY <2>1 DEF VerdictInv, GitHubTyped, VerdictTypeOK, Probe
  <2>3. PassIsEarned
    BY <2>1, <2>2 DEF PassIsEarned, Knows, Earned
  <2>4. VerdictAsDocumented
    BY <2>1 DEF VerdictAsDocumented, Knows, Documented, HeadRead, FailsEarly, NamedInVain, Misnamed
  <2> QED
    BY <2>3, <2>4 DEF VerdictIsRight
<1> QED
  BY <1>1, <1>2, <1>3, PTL DEF VerdictSpec

=============================================================================
