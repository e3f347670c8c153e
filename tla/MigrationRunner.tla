--------------------------- MODULE MigrationRunner ---------------------------
(***************************************************************************)
(* The schema migrations (src/migration): every deployment runs `up`, which *)
(* walks the schemas in order and applies, one transaction each, the        *)
(* versions above the highest recorded one.  Nothing locks out a second     *)
(* runner; the primary key of schema_migrations decides.  Runners may be    *)
(* builds of different releases, may overlap and may be killed anywhere.    *)
(***************************************************************************)
EXTENDS Naturals, SequencesExt, FiniteSetsExt

CONSTANTS
    Runners,    \* concurrent invocations of the command
    Schemas,    \* the schemas, in the order of their names
    Versions,   \* runner -> schema -> the versions its build embeds
    MaxKills    \* bound: runners killed or failing

SchemaSet == { Schemas[k] : k \in DOMAIN Schemas }

\* Discover sorts the schemas by their name, and versions count from 1
\* (migration/postgres).
ASSUME RunnerAssumption ==
    /\ MaxKills \in Nat
    /\ Schemas \in Seq(SchemaSet)
    /\ \A j, k \in DOMAIN Schemas : Schemas[j] = Schemas[k] => j = k
    /\ \A r \in Runners : \A s \in SchemaSet : Versions[r][s] \subseteq Nat \ {0}

\* Releases append: a build that has a version has all that any build has
\* below it.
ASSUME ReleaseAssumption ==
    \A r, other \in Runners : \A s \in SchemaSet :
        \A v \in Versions[r][s], w \in Versions[other][s] : w < v => w \in Versions[r][s]

VARIABLES
    recorded,   \* schema -> versions in schema_migrations
    effects,    \* schema -> versions whose SQL took effect, in order of commit
    migrator,   \* the invocations
    kills       \* runners killed so far

migrationVars == <<recorded, effects, migrator, kills>>

FreshRunner == [pc |-> "start", at |-> 1, current |-> 0, tx |-> 0]

Here(r) == Schemas[migrator[r].at]

\* The versions left for a runner in the schema it is at.
Pending(r) ==
    { v \in Versions[r][Here(r)] : v > migrator[r].current }

\* Someone else has inserted this version and has not committed yet.
Blocked(r, v) ==
    \E other \in Runners \ {r} :
        migrator[other].tx = v /\ migrator[other].at = migrator[r].at

RunnerAt(r, pc) == migrator[r].pc = pc
Move(r, pc) == migrator' = [migrator EXCEPT ![r].pc = pc]

\* ensureSchema and ensureSchemaMigrationTable: both idempotent; past the
\* last schema the command is done.
ensureSchema(r) ==
    /\ RunnerAt(r, "start")
    /\ Move(r, IF migrator[r].at > Len(Schemas) THEN "done" ELSE "version")
    /\ UNCHANGED <<recorded, effects, kills>>

\* currentVersion, a statement of its own outside any transaction.
currentVersion(r) ==
    /\ RunnerAt(r, "version")
    /\ migrator' = [migrator EXCEPT ![r].pc = "up", ![r].current = Max(recorded[Here(r)] \cup {0})]
    /\ UNCHANGED <<recorded, effects, kills>>

\* Mutant of applyMigration: a version that is already recorded is not an error.
applyOnConflict(r) ==
    /\ RunnerAt(r, "up") /\ Pending(r) # {}
    /\ migrator' = [migrator EXCEPT ![r].pc = "commit", ![r].tx = Min(Pending(r))]
    /\ UNCHANGED <<recorded, effects, kills>>

\* apply: the SQL of the next version runs and the version is inserted, in one
\* transaction.  The insert waits for a transaction that holds the same key,
\* and fails when the key is there: the runner gives up.
applyMigration(r) ==
    /\ RunnerAt(r, "up") /\ Pending(r) # {}
    /\ LET v == Min(Pending(r))
       IN  /\ ~Blocked(r, v)
           /\ IF v \in recorded[Here(r)]
              THEN Move(r, "failed")
              ELSE migrator' = [migrator EXCEPT ![r].pc = "commit", ![r].tx = v]
    /\ UNCHANGED <<recorded, effects, kills>>

commitMigration(r) ==
    /\ RunnerAt(r, "commit")
    /\ recorded' = [recorded EXCEPT ![Here(r)] = @ \cup {migrator[r].tx}]
    /\ effects' = [effects EXCEPT ![Here(r)] = Append(@, migrator[r].tx)]
    /\ migrator' = [migrator EXCEPT ![r].pc = "up", ![r].current = migrator[r].tx, ![r].tx = 0]
    /\ UNCHANGED kills

nextSchema(r) ==
    /\ RunnerAt(r, "up") /\ Pending(r) = {}
    /\ migrator' = [migrator EXCEPT ![r].pc = "start", ![r].at = @ + 1]
    /\ UNCHANGED <<recorded, effects, kills>>

\* The command is killed, times out or loses the database: what it had not
\* committed is rolled back.
die(r) ==
    /\ kills < MaxKills
    /\ migrator[r].pc \notin {"done", "failed"}
    /\ migrator' = [migrator EXCEPT ![r].pc = "failed", ![r].tx = 0]
    /\ kills' = kills + 1
    /\ UNCHANGED <<recorded, effects>>

\* A command that failed is run again.
rerun(r) ==
    /\ RunnerAt(r, "failed")
    /\ migrator' = [migrator EXCEPT ![r] = FreshRunner]
    /\ UNCHANGED <<recorded, effects, kills>>

Invocation ==
    [pc : {"start", "version", "up", "commit", "done", "failed"},
     at : 1..(Len(Schemas) + 1), current : Nat, tx : Nat]

(* What is recorded, and where each runner is. *)
MigrationTypeOK ==
    /\ recorded \in [SchemaSet -> SUBSET Nat]
    /\ effects \in [SchemaSet -> Seq(Nat)]
    /\ migrator \in [Runners -> Invocation]
    /\ kills \in 0..MaxKills

MigrationInit ==
    /\ recorded = [s \in SchemaSet |-> {}]
    /\ effects = [s \in SchemaSet |-> << >>]
    /\ migrator = [r \in Runners |-> FreshRunner]
    /\ kills = 0

MigrationNext ==
    \E r \in Runners :
        \/ ensureSchema(r) \/ currentVersion(r) \/ applyMigration(r) \/ commitMigration(r)
        \/ nextSchema(r) \/ die(r) \/ rerun(r)

MigrationSpec == MigrationInit /\ [][MigrationNext]_migrationVars

-----------------------------------------------------------------------------
\* However the runners overlap and wherever they are killed, the SQL of every
\* version takes effect at most once and in version order, exactly the recorded
\* versions took effect, and a runner that reports success leaves none of its
\* versions out.  Behaviour of Runner.Up and Runner.apply
\* (src/migration/runner.go); releases only append versions.
AppliedInOrder ==
    /\ MigrationTypeOK
    /\ \A s \in SchemaSet :
          /\ \A j, k \in DOMAIN effects[s] : j < k => effects[s][j] < effects[s][k]
          /\ recorded[s] = { effects[s][k] : k \in DOMAIN effects[s] }
    /\ \A r \in Runners : RunnerAt(r, "done") =>
          \A s \in SchemaSet : Versions[r][s] \subseteq recorded[s]
=============================================================================
