------------------------------ MODULE Runtime ------------------------------
(***************************************************************************)
(* The runtime service (runtime/internal): the table of runtime instances, *)
(* the heartbeats that keep an instance alive, the sweep loop of the       *)
(* presence process that marks silent instances stale and then dead, and   *)
(* the channel subscriptions with their read cursors.                      *)
(*                                                                         *)
(* Every database statement is one step.  A handler reads its clock before *)
(* its statement runs, so the timestamp it writes may be up to MaxLag      *)
(* behind the clock; the sweep loop reads its clock once and then runs two *)
(* statements, between which any other handler may run.                    *)
(***************************************************************************)
EXTENDS Integers

CONSTANTS
    Instances,        \* instance ids
    Channels,         \* channel ids an instance can subscribe to
    StaleThreshold,   \* heartbeat.stale_threshold
    DeadThreshold,    \* heartbeat.dead_threshold
    MaxTime,          \* bound: the clock stops here
    MaxLag,           \* bound: delay between a clock read and its statement
    MaxCursor         \* bound: largest cursor a poll presents

\* config.go:101-106 refuses to start with thresholds in another order.
ASSUME RuntimeAssumption ==
    /\ StaleThreshold \in Nat \ {0}
    /\ DeadThreshold \in Nat
    /\ DeadThreshold > StaleThreshold
    /\ MaxTime \in Nat
    /\ MaxLag \in Nat
    /\ MaxCursor \in Nat

VARIABLES
    now,       \* the clock
    instances, \* den_runtime.runtime_instances
    cursors,   \* den_runtime.channel_subscriptions: cursor_position per row
    sweep      \* the sweep loop: what it does next and the time it read

runtimeVars == <<instances, cursors, sweep>>

-----------------------------------------------------------------------------

Null == -1   \* SQL null for a timestamp or a missing subscription

\* The states the code writes; idle, busy, degraded and stopped rows would
\* have to come from outside this repository.
RuntimeState == {"absent", "starting", "active", "stale", "dead"}

Instance == [state : RuntimeState, heartbeat : Nat \cup {Null}]

Absent == [state |-> "absent", heartbeat |-> Null]

NoSweep == [pc |-> "idle", at |-> 0]

Recent == {t \in 0..MaxTime : t <= now /\ now - t <= MaxLag}

RuntimeTypeOK ==
    /\ now \in 0..MaxTime
    /\ instances \in [Instances -> Instance]
    /\ cursors \in [Instances \X Channels -> 0..MaxCursor \cup {Null}]
    /\ sweep \in [pc : {"idle", "stale", "dead"}, at : 0..MaxTime]

RuntimeInit ==
    /\ now = 0
    /\ instances = [i \in Instances |-> Absent]
    /\ cursors = [s \in Instances \X Channels |-> Null]
    /\ sweep = NoSweep

-----------------------------------------------------------------------------
(* Handlers *)

\* registerInstanceSQL: an upsert that forgets the last heartbeat.
RegisterInstance(i) ==
    /\ instances' = [instances EXCEPT ![i] =
                        [state |-> "starting", heartbeat |-> Null]]
    /\ UNCHANGED <<now, cursors, sweep>>

\* Mutant: the heartbeat revives a starting or stale instance only.
HeartbeatKeepsDead(i, at) ==
    /\ instances[i].state # "absent"
    /\ instances' = [instances EXCEPT ![i] =
          [state |-> IF @.state \in {"starting", "stale"} THEN "active" ELSE @.state,
           heartbeat |-> at]]
    /\ UNCHANGED <<now, cursors, sweep>>

\* heartbeatSQL: an unknown instance is not found.
Heartbeat(i, at) ==
    /\ instances[i].state # "absent"
    /\ instances' = [instances EXCEPT ![i] =
          [state |-> IF @.state \in {"starting", "stale", "dead"}
                       THEN "active" ELSE @.state,
           heartbeat |-> at]]
    /\ UNCHANGED <<now, cursors, sweep>>

\* CreateSubscription: an instance row is required (rows are never deleted, so
\* the separate read is stable); a second subscription keeps its cursor.
CreateSubscription(i, c) ==
    /\ instances[i].state # "absent"
    /\ cursors' = [cursors EXCEPT ![<<i, c>>] = IF @ = Null THEN 0 ELSE @]
    /\ UNCHANGED <<now, instances, sweep>>

\* Stream: the cursor a client presents only ever raises the stored one.
Stream(i, c, after) ==
    /\ cursors[<<i, c>>] # Null
    /\ cursors' = [cursors EXCEPT ![<<i, c>>] = IF @ >= after THEN @ ELSE after]
    /\ UNCHANGED <<now, instances, sweep>>

-----------------------------------------------------------------------------
(* The sweep loop of the presence process *)

SweepBegin ==
    /\ sweep.pc = "idle"
    /\ sweep' = [pc |-> "stale", at |-> now]
    /\ UNCHANGED <<now, instances, cursors>>

\* One update over every row in one of the given states whose heartbeat is
\* at least threshold older than the time the sweep read.
Mark(states, threshold, state) ==
    instances' = [i \in Instances |->
        IF /\ instances[i].state \in states
           /\ instances[i].heartbeat # Null
           /\ instances[i].heartbeat <= sweep.at - threshold
        THEN [instances[i] EXCEPT !.state = state]
        ELSE instances[i]]

MarkStale ==
    /\ sweep.pc = "stale"
    /\ Mark({"starting", "active"}, StaleThreshold, "stale")
    /\ sweep' = [sweep EXCEPT !.pc = "dead"]
    /\ UNCHANGED <<now, cursors>>

\* Mutant: the second update forgets the rows the first one just marked.
MarkDeadSkipsStale ==
    /\ sweep.pc = "dead"
    /\ Mark({"starting", "active"}, DeadThreshold, "dead")
    /\ sweep' = NoSweep
    /\ UNCHANGED <<now, cursors>>

MarkDead ==
    /\ sweep.pc = "dead"
    /\ Mark({"starting", "active", "stale"}, DeadThreshold, "dead")
    /\ sweep' = NoSweep
    /\ UNCHANGED <<now, cursors>>

\* Either statement fails, or the process restarts: the loop goes on with the
\* next tick.
SweepAbort ==
    /\ sweep.pc # "idle"
    /\ sweep' = NoSweep
    /\ UNCHANGED <<now, instances, cursors>>

-----------------------------------------------------------------------------

Tick ==
    /\ now < MaxTime
    /\ now' = now + 1
    /\ UNCHANGED runtimeVars

RuntimeHandler ==
    \E i \in Instances :
        \/ RegisterInstance(i)
        \/ \E at \in Recent : Heartbeat(i, at)
        \/ \E c \in Channels :
              \/ CreateSubscription(i, c)
              \/ \E after \in 0..MaxCursor : Stream(i, c, after)

Sweep == SweepBegin \/ MarkStale \/ MarkDead

RuntimeNext == RuntimeHandler \/ Sweep \/ SweepAbort \/ Tick

RuntimeSpec == RuntimeInit /\ [][RuntimeNext]_<<now, runtimeVars>>

\* The ticker keeps firing, time passes, and the database does not fail the
\* same statement for ever.
RuntimeFairness ==
    /\ WF_<<now, runtimeVars>>(Tick)
    /\ WF_<<now, runtimeVars>>(SweepBegin)
    /\ SF_<<now, runtimeVars>>(MarkStale)
    /\ SF_<<now, runtimeVars>>(MarkDead)

FairRuntimeSpec == RuntimeSpec /\ RuntimeFairness

-----------------------------------------------------------------------------
(* Properties *)

\* An instance is marked stale or dead only for its silence, and stays so only
\* while it is silent (Sweep, service.go:98-109; heartbeatSQL): whatever runs
\* between the sweep's clock read and its two updates, a row that says stale or
\* dead has a heartbeat that is at least that old.
SilenceIsReal ==
    /\ RuntimeTypeOK
    /\ \A i \in Instances :
          /\ instances[i].state = "stale" =>
                /\ instances[i].heartbeat # Null
                /\ now - instances[i].heartbeat >= StaleThreshold
          /\ instances[i].state = "dead" =>
                /\ instances[i].heartbeat # Null
                /\ now - instances[i].heartbeat >= DeadThreshold

\* An instance that stops heartbeating does not stay alive: dead_threshold
\* after its last heartbeat it is eventually marked dead, or it is heard of
\* again (runSweepLoop).
SilentIsMarkedDead ==
    \A i \in Instances :
        LET Overdue == instances[i].heartbeat # Null /\ now - instances[i].heartbeat >= DeadThreshold
        IN  Overdue ~> instances[i].state = "dead" \/ ~Overdue

=============================================================================
