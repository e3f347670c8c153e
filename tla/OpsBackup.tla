------------------------------ MODULE OpsBackup -----------------------------
(***************************************************************************)
(* The export of the ops ledger (ops/internal/backup.go, store_backup.go): *)
(* a snapshot is written beside the others and renamed, restored into a    *)
(* scratch copy, and older exports are removed only if that worked; the    *)
(* run is then reported to the ledger itself.  The service may stop after  *)
(* any step.                                                               *)
(***************************************************************************)
EXTENDS Integers, FiniteSets, FiniteSetsExt

CONSTANTS
    Keep,       \* BackupConfig.Keep
    MaxExports  \* bound: runs

\* BackupConfig refuses to keep no export (ops/internal/config.go:96).
ASSUME BackupAssumption == Keep \in Nat \ {0} /\ MaxExports \in Nat

VARIABLES
    exports,    \* the export directory: numbers of the runs that wrote them
    backup,     \* the run in progress
    backupRuns, \* ledger: runs of the backup job, by number
    proven      \* history: exports whose restore test has passed

backupVars == <<exports, backup, backupRuns, proven>>

-----------------------------------------------------------------------------

ExportIds == 1..MaxExports

NoBackup == [pc |-> "idle", n |-> 0, restored |-> FALSE, pruned |-> TRUE, written |-> FALSE]

BackupTypeOK ==
    /\ exports \subseteq ExportIds
    /\ backup.pc \in {"idle", "export", "restore", "prune", "report"}
    /\ backupRuns \in [ExportIds -> {"none", "failed", "warning", "success"}]
    /\ proven \subseteq ExportIds

BackupInit ==
    /\ exports = {}
    /\ backup = NoBackup
    /\ backupRuns = [n \in ExportIds |-> "none"]
    /\ proven = {}

BackupTo(r) == backup' = r

-----------------------------------------------------------------------------

\* Schedule: the next run; its name sorts after the names before it.
ScheduleBackup ==
    /\ backup.pc = "idle" /\ backup.n < MaxExports
    /\ BackupTo([NoBackup EXCEPT !.pc = "export", !.n = backup.n + 1])
    /\ UNCHANGED <<exports, backupRuns, proven>>

\* ExportTo writes a temporary file; what is renamed is whole.
export(ok) ==
    /\ backup.pc = "export"
    /\ exports' = IF ok THEN exports \cup {backup.n} ELSE exports
    /\ BackupTo([backup EXCEPT !.pc = IF ok THEN "restore" ELSE "report", !.written = ok])
    /\ UNCHANGED <<backupRuns, proven>>

\* Mutant: the old exports are retired before the new one is tried.
restoreTestLast(ok) ==
    /\ backup.pc = "restore"
    /\ BackupTo([backup EXCEPT !.pc = "prune", !.restored = ok])
    /\ proven' = IF ok THEN proven \cup {backup.n} ELSE proven
    /\ UNCHANGED <<exports, backupRuns>>

\* The copy opens as a ledger, is whole and its summary can be computed.
restoreTest(ok) ==
    /\ backup.pc = "restore"
    /\ BackupTo([backup EXCEPT !.pc = IF ok THEN "prune" ELSE "report", !.restored = ok])
    /\ proven' = IF ok THEN proven \cup {backup.n} ELSE proven
    /\ UNCHANGED <<exports, backupRuns>>

Oldest(S, n) == {x \in S : Cardinality({y \in S : y < x}) < n}

\* The newest Keep files stay, proven or not; a removal may fail.
prune ==
    LET surplus == Oldest(exports, Cardinality(exports) - Keep)
    IN
    /\ backup.pc = "prune"
    /\ \E gone \in SUBSET surplus :
          /\ exports' = exports \ gone
          /\ BackupTo([backup EXCEPT !.pc = "report", !.pruned = (gone = surplus)])
    /\ UNCHANGED <<backupRuns, proven>>

\* ReportRun, in the ledger that was exported.
reportBackup ==
    /\ backup.pc = "report"
    /\ backupRuns' = [backupRuns EXCEPT ![backup.n] =
          IF ~backup.written \/ ~backup.restored THEN "failed"
          ELSE IF backup.pruned THEN "success" ELSE "warning"]
    /\ BackupTo([NoBackup EXCEPT !.n = backup.n])
    /\ UNCHANGED <<exports, proven>>

\* The service stops; the next run starts over.
BackupStops ==
    /\ backup.pc # "idle"
    /\ BackupTo([NoBackup EXCEPT !.n = backup.n])
    /\ UNCHANGED <<exports, backupRuns, proven>>

BackupNext ==
    \/ ScheduleBackup \/ prune \/ reportBackup \/ BackupStops
    \/ \E ok \in BOOLEAN : export(ok) \/ restoreTest(ok)

BackupSpec == BackupInit /\ [][BackupNext]_backupVars

-----------------------------------------------------------------------------
(* Properties *)

\* Whatever fails or stops in between: the newest export that ever passed its
\* restore test is still there, a run shown as successful is of an export
\* that passed, a proven export gives way only to a newer proven one, and a
\* successful run leaves no more exports than are kept (ops/internal/backup.go:104-112, "Older exports are only retired
\* once the new one is proven restorable").
RestorePointKept ==
    /\ BackupTypeOK
    /\ proven # {} => Max(proven) \in exports
    /\ \A n \in ExportIds : backupRuns[n] \in {"success", "warning"} => n \in proven
    /\ \A n \in proven \ exports : n < Max(exports \cap proven)
    /\ \A n \in ExportIds : backupRuns[n] = "success" /\ backup.n = n /\ backup.pc = "idle"
          => Cardinality(exports) <= Keep

=============================================================================
