---------------------------- MODULE ServiceProofs ----------------------------
(***************************************************************************)
(* Proofs about the services whose state lives in two places no            *)
(* transaction covers: the export files of the ops ledger, the images      *)
(* beside their table, the repository documents are published to, the      *)
(* mappings between the Board and GitHub, and what a host runs beside the  *)
(* rows that tell of it.                                                   *)
(***************************************************************************)
EXTENDS OpsBackup, Artifacts, DocPublish, BoardRelay, Resources,
        FiniteSetTheorems, WellFoundedInduction, TLAPS

-----------------------------------------------------------------------------
(* Sets of naturals                                                          *)

Lower == {p \in Nat \X Nat : p[1] < p[2]}

LEMMA LeastNatural ==
    ASSUME NEW S \in SUBSET Nat, S # {}
    PROVE  \E x \in S : \A y \in S : x <= y
<1>1. IsWellFoundedOn(Lower, Nat)
  BY NatLessThanWellFounded DEF OpToRel, Lower
<1>2. PICK x \in S : \A y \in S : <<y, x>> \notin Lower
  BY <1>1, WFMin
<1>3. \A y \in S : x <= y
  <2> SUFFICES ASSUME NEW y \in S PROVE x <= y
    OBVIOUS
  <2>1. <<y, x>> \in Nat \X Nat /\ <<y, x>>[1] = y /\ <<y, x>>[2] = x
    OBVIOUS
  <2>2. ~(<<y, x>>[1] < <<y, x>>[2])
    BY <1>2, <2>1 DEF Lower
  <2> QED
    BY <2>1, <2>2
<1> QED
  BY <1>3

LEMMA MaxIs ==
    ASSUME NEW S \in SUBSET Nat, NEW m \in S, \A x \in S : x <= m
    PROVE  Max(S) = m
<1>1. m \in Nat /\ \A x \in S : x \in Nat /\ m >= x
  OBVIOUS
<1>2. Max(S) \in S /\ \A y \in S : Max(S) >= y
  BY <1>1 DEF Max
<1>3. Max(S) \in Nat /\ Max(S) >= m /\ m >= Max(S)
  BY <1>1, <1>2
<1> QED
  BY <1>1, <1>3

\* What is removed of a directory of n files to keep k leaves k of them, and
\* never the newest.
LEMMA SurplusIsOld ==
    ASSUME NEW S \in SUBSET Nat, IsFiniteSet(S), NEW k \in Nat \ {0},
           NEW m \in S, \A x \in S : x <= m
    PROVE  m \notin Oldest(S, Cardinality(S) - k)
<1> DEFINE old == {y \in S : y < m}
<1>0. m \in Nat /\ \A x \in S : x \in Nat
  OBVIOUS
<1>1. old = S \ {m}
  <2>1. \A y \in S : y < m <=> y # m
    BY <1>0
  <2> QED
    BY <2>1
<1>2. Cardinality(old) = Cardinality(S) - 1 /\ Cardinality(S) \in Nat
  BY <1>1, FS_RemoveElement, FS_CardinalityType
<1>3. ~(Cardinality(old) < Cardinality(S) - k)
  BY <1>2
<1> QED
  BY <1>3 DEF Oldest

LEMMA SurplusIsEnough ==
    ASSUME NEW S \in SUBSET Nat, IsFiniteSet(S), NEW k \in Nat
    PROVE  Cardinality(S \ Oldest(S, Cardinality(S) - k)) <= k
<1> DEFINE n == Cardinality(S)
           kept == S \ Oldest(S, n - k)
<1>1. kept \subseteq S /\ IsFiniteSet(kept) /\ Cardinality(kept) \in Nat /\ n \in Nat
  BY FS_Difference, FS_CardinalityType
<1>2. CASE kept = {}
  BY <1>2, FS_EmptySet
<1>3. CASE kept # {}
  <2>1. PICK x \in kept : \A y \in kept : x <= y
    BY <1>1, <1>3, LeastNatural
  <2> DEFINE old == {y \in S : y < x}
  <2>2. Cardinality(old) >= n - k /\ Cardinality(old) \in Nat /\ IsFiniteSet(old)
    <3>1. IsFiniteSet(old)
      BY FS_Subset
    <3>2. Cardinality(old) \in Nat
      BY <3>1, FS_CardinalityType
    <3>3. ~(Cardinality(old) < n - k)
      BY <2>1 DEF Oldest
    <3> QED
      BY <1>1, <3>1, <3>2, <3>3
  <2>3. old \cap kept = {}
    <3>1. x \in Nat /\ \A y \in S : y \in Nat
      BY <1>1
    <3>2. \A y \in S : y < x => y \notin kept
      <4> HIDE DEF kept
      <4> QED
        BY <2>1, <3>1
    <3> QED
      BY <3>2
  <2>4. Cardinality(old \cup kept) = Cardinality(old) + Cardinality(kept)
    BY <1>1, <2>2, <2>3, FS_Union, FS_EmptySet
  <2>5. old \cup kept \in SUBSET S
    BY <1>1
  <2>6. Cardinality(old \cup kept) <= n
    BY <2>5, FS_Subset
  <2> QED
    BY <1>1, <2>2, <2>4, <2>6
<1> QED
  BY <1>2, <1>3

-----------------------------------------------------------------------------
(* The export of the ops ledger                                              *)

BackupRun ==
    [pc : {"idle", "export", "restore", "prune", "report"}, n : 0..MaxExports,
     restored : BOOLEAN, pruned : BOOLEAN, written : BOOLEAN]

\* The runs are numbered: the files and the proofs so far are of earlier runs
\* or of this one, which has its own file since it was written, and is proven
\* since the file was restored.
BackupInv ==
    /\ exports \subseteq ExportIds
    /\ proven \subseteq ExportIds
    /\ backupRuns \in [ExportIds -> {"none", "failed", "warning", "success"}]
    /\ backup \in BackupRun
    /\ backup.pc # "idle" => backup.n \in ExportIds /\ backupRuns[backup.n] = "none"
    /\ \A n \in ExportIds : n > backup.n => backupRuns[n] = "none"
    /\ \A n \in exports \cup proven : n <= backup.n /\ (backup.pc = "export" => n < backup.n)
    /\ backup.pc \in {"restore", "prune"} => backup.n \in exports
    /\ backup.pc = "prune" => backup.n \in proven
    /\ backup.pc = "export" => ~backup.restored
    /\ backup.pc = "report" /\ backup.restored =>
          /\ backup.n \in proven \cap exports
          /\ backup.pruned => Cardinality(exports) <= Keep
    /\ proven # {} => Max(proven) \in exports
    /\ \A n \in ExportIds : backupRuns[n] \in {"success", "warning"} => n \in proven
    /\ \A n \in proven \ exports : n < Max(exports \cap proven)
    /\ \A n \in ExportIds : backupRuns[n] = "success" /\ backup.n = n /\ backup.pc = "idle"
          => Cardinality(exports) <= Keep

LEMMA BackupInitially == BackupInit => BackupInv
<1> SUFFICES ASSUME BackupInit PROVE BackupInv
  OBVIOUS
<1> USE BackupAssumption DEF BackupInit, NoBackup, ExportIds
<1>1. backup \in BackupRun
  BY DEF BackupRun
<1> QED
  BY <1>1 DEF BackupInv

LEMMA BackupStep == BackupInv /\ [BackupNext]_backupVars => BackupInv'
<1> SUFFICES ASSUME BackupInv, [BackupNext]_backupVars PROVE BackupInv'
  OBVIOUS
<1> USE BackupAssumption
<1>0. ExportIds \subseteq Nat /\ exports \in SUBSET Nat /\ IsFiniteSet(exports) /\ backup.n \in Nat
  <2>1. exports \in SUBSET ExportIds
    BY DEF BackupInv
  <2>2. IsFiniteSet(ExportIds)
    BY FS_Interval DEF ExportIds
  <2>3. IsFiniteSet(exports)
    BY <2>1, <2>2, FS_Subset
  <2>4. backup.n \in Nat
    BY DEF BackupInv, BackupRun
  <2>5. ExportIds \subseteq Nat
    BY DEF ExportIds
  <2> QED
    BY <2>1, <2>3, <2>4, <2>5
<1>1. CASE ScheduleBackup
  <2>0. backup' = [pc |-> "export", n |-> backup.n + 1, restored |-> FALSE, pruned |-> TRUE, written |-> FALSE]
    BY <1>1 DEF ScheduleBackup, BackupTo, NoBackup
  <2>2. backup.n + 1 \in ExportIds /\ backup.n + 1 \in 0..MaxExports
    <3>1. backup.n \in Nat /\ backup.n < MaxExports
      BY <1>0, <1>1 DEF ScheduleBackup
    <3> QED
      BY <3>1 DEF ExportIds
  <2>1. backup'.pc = "export" /\ backup'.n = backup.n + 1 /\ backup'.restored = FALSE /\ backup' \in BackupRun
    BY <2>0, <2>2 DEF BackupRun
  <2> QED
    BY <1>0, <1>1, <2>1, <2>2 DEF ScheduleBackup, BackupInv
<1>2. ASSUME NEW ok \in BOOLEAN, export(ok) PROVE BackupInv'
  <2>1. backup'.n = backup.n /\ backup'.restored = backup.restored /\ backup' \in BackupRun
        /\ backup'.pc = IF ok THEN "restore" ELSE "report"
    BY <1>2 DEF export, BackupTo, BackupInv, BackupRun
  <2>2. exports' = (IF ok THEN exports \cup {backup.n} ELSE exports) /\ proven' = proven /\ backupRuns' = backupRuns
    BY <1>2 DEF export
  <2>3. backup.pc = "export" /\ backup.n \in ExportIds /\ ~backup.restored
    BY <1>2 DEF export, BackupInv
  <2>4. backup.n \notin proven
    BY <1>0, <2>3 DEF BackupInv
  <2>5. exports' \cap proven' = exports \cap proven /\ proven' \ exports' = proven \ exports
    BY <2>2, <2>4
  <2>6. exports' \subseteq ExportIds /\ (backup'.pc = "restore" => backup.n \in exports')
    BY <2>1, <2>2, <2>3 DEF BackupInv
  <2>7. \A n \in exports' \cup proven' : n <= backup.n
    BY <1>0, <2>2, <2>3 DEF BackupInv
  <2>8. proven' # {} => Max(proven') \in exports'
    BY <2>2 DEF BackupInv
  <2>9. \A n \in proven' \ exports' : n < Max(exports' \cap proven')
    BY <2>5 DEF BackupInv
  <2>10. backup'.pc \in {"restore", "report"} /\ ~backup'.restored
    BY <2>1, <2>3
  <2> QED
    BY <1>0, <2>1, <2>2, <2>3, <2>6, <2>7, <2>8, <2>9, <2>10 DEF BackupInv
<1>3. ASSUME NEW ok \in BOOLEAN, restoreTest(ok) PROVE BackupInv'
  <2>1. backup'.n = backup.n /\ backup'.restored = ok /\ backup' \in BackupRun
        /\ backup'.pc = IF ok THEN "prune" ELSE "report"
    BY <1>3 DEF restoreTest, BackupTo, BackupInv, BackupRun
  <2>2. proven' = (IF ok THEN proven \cup {backup.n} ELSE proven) /\ exports' = exports /\ backupRuns' = backupRuns
    BY <1>3 DEF restoreTest
  <2>3. backup.pc = "restore" /\ backup.n \in ExportIds /\ backup.n \in exports
    BY <1>3 DEF restoreTest, BackupInv
  <2>4. CASE ~ok
    BY <1>0, <2>1, <2>2, <2>3, <2>4 DEF BackupInv
  <2>5. CASE ok
    <3>1. Max(proven') = backup.n
      <4>1. proven' \in SUBSET Nat /\ backup.n \in proven' /\ \A x \in proven' : x <= backup.n
        <5>1. proven \subseteq Nat /\ \A x \in proven : x <= backup.n
          BY <1>0 DEF BackupInv
        <5>2. proven' = proven \cup {backup.n}
          BY <2>2, <2>5
        <5>3. \A x \in proven' : x \in Nat /\ x <= backup.n
          BY <1>0, <5>1, <5>2
        <5>4. proven' \subseteq Nat
          BY <5>3
        <5> QED
          BY <5>2, <5>3, <5>4
      <4> QED
        BY <4>1, MaxIs
    <3>2. Max(exports' \cap proven') = backup.n
      <4>1. exports' \cap proven' \in SUBSET Nat /\ backup.n \in exports' \cap proven'
            /\ \A x \in exports' \cap proven' : x <= backup.n
        BY <1>0, <2>2, <2>3, <2>5 DEF BackupInv
      <4> QED
        BY <4>1, MaxIs
    <3>3. \A n \in proven' \ exports' : n < backup.n
      BY <1>0, <2>2, <2>3, <2>5 DEF BackupInv
    <3> QED
      BY <1>0, <2>1, <2>2, <2>3, <2>5, <3>1, <3>2, <3>3 DEF BackupInv
  <2> QED
    BY <2>4, <2>5
<1>4. CASE prune
  <2> DEFINE surplus == Oldest(exports, Cardinality(exports) - Keep)
  <2>1. PICK gone \in SUBSET surplus :
          exports' = exports \ gone /\ backup' = [backup EXCEPT !.pc = "report", !.pruned = (gone = surplus)]
    BY <1>4 DEF prune, BackupTo
  <2>2. proven' = proven /\ backupRuns' = backupRuns
    BY <1>4 DEF prune
  <2>3. backup.pc = "prune" /\ backup.n \in ExportIds /\ backup.n \in exports /\ backup.n \in proven
    BY <1>4 DEF prune, BackupInv
  <2>4. backup.n \notin surplus
    BY <1>0, <2>3, SurplusIsOld DEF BackupInv
  <2>5. backup'.n = backup.n /\ backup'.pc = "report" /\ (backup'.pruned <=> gone = surplus) /\ backup' \in BackupRun
    BY <2>1 DEF BackupInv, BackupRun
  <2>6. backup'.pruned => Cardinality(exports') <= Keep
    BY <1>0, <2>1, <2>5, SurplusIsEnough
  <2>7. Max(proven) = backup.n
    <3>1. proven \in SUBSET Nat /\ \A x \in proven : x <= backup.n
      BY <1>0 DEF BackupInv
    <3> QED
      BY <2>3, <3>1, MaxIs
  <2>8. Max(exports' \cap proven') = backup.n
    <3>1. exports' \cap proven' \in SUBSET Nat /\ \A x \in exports' \cap proven' : x <= backup.n
      BY <1>0, <2>1, <2>2 DEF BackupInv
    <3>2. backup.n \in exports' \cap proven'
      BY <2>1, <2>2, <2>3, <2>4
    <3> QED
      BY <3>1, <3>2, MaxIs
  <2>9. backup.n \in exports' /\ \A n \in proven' \ exports' : n < backup.n
    BY <1>0, <2>1, <2>2, <2>3, <2>4 DEF BackupInv
  <2> QED
    BY <1>0, <2>1, <2>2, <2>3, <2>5, <2>6, <2>7, <2>8, <2>9 DEF BackupInv
<1>5. CASE reportBackup
  <2> DEFINE status == IF ~backup.written \/ ~backup.restored THEN "failed"
                       ELSE IF backup.pruned THEN "success" ELSE "warning"
  <2>1. backupRuns' = [backupRuns EXCEPT ![backup.n] = status] /\ exports' = exports /\ proven' = proven
        /\ backup.pc = "report"
    BY <1>5 DEF reportBackup
  <2>2. backup'.n = backup.n /\ backup'.pc = "idle" /\ ~backup'.restored /\ backup' \in BackupRun
    BY <1>5 DEF reportBackup, BackupTo, NoBackup, BackupInv, BackupRun
  <2>3. status \in {"failed", "warning", "success"}
    OBVIOUS
  <2>4. backup.n \in ExportIds /\ backupRuns' \in [ExportIds -> {"none", "failed", "warning", "success"}]
        /\ \A n \in ExportIds : backupRuns'[n] = IF n = backup.n THEN status ELSE backupRuns[n]
    BY <2>1, <2>3 DEF BackupInv
  <2>5. status \in {"success", "warning"} => backup.n \in proven /\ (status = "success" => Cardinality(exports) <= Keep)
    BY <2>1 DEF BackupInv
  <2> HIDE DEF status
  <2> QED
    BY <1>0, <2>1, <2>2, <2>4, <2>5 DEF BackupInv
<1>6. CASE BackupStops
  <2>1. backup'.n = backup.n /\ backup'.pc = "idle" /\ ~backup'.restored /\ backup' \in BackupRun
    BY <1>6 DEF BackupStops, BackupTo, NoBackup, BackupInv, BackupRun
  <2>2. backup.n \in ExportIds /\ backupRuns[backup.n] = "none"
    BY <1>6 DEF BackupStops, BackupInv
  <2> QED
    BY <1>0, <1>6, <2>1, <2>2 DEF BackupStops, BackupInv
<1>7. CASE UNCHANGED backupVars
  BY <1>7 DEF backupVars, BackupInv
<1> QED
  BY <1>1, <1>2, <1>3, <1>4, <1>5, <1>6, <1>7 DEF BackupNext

\* For every number of exports to keep and whatever fails or stops: the newest
\* proven export is there, and only a newer proven one replaced an older
\* (Backup.Run, ops/internal/backup.go:104).
THEOREM RestorePointCorrect == BackupSpec => []RestorePointKept
<1>1. BackupInv => RestorePointKept
  BY DEF BackupInv, RestorePointKept, BackupTypeOK, BackupRun
<1> QED
  BY BackupInitially, BackupStep, <1>1, PTL DEF BackupSpec

-----------------------------------------------------------------------------
(* The image store                                                           *)

Image == [pc : {"idle", "stat", "temp", "saved", "new", "done"}, name : Names \cup {"none"},
          sha : Contents \cup {"none"}, stamp : Nat]
ArtifactRow == [name : Names \cup {"none"}, sha : Contents \cup {"none"}, deleted : {"none", "api_delete"}]
Reading == [id : ImageUploads \cup {0}, sha : Contents \cup {"none"},
            body : Contents \cup {"none", "missing"}]

Holds(h) == h \in Contents /\ blobs[h] = h

UploadFits(u) ==
    /\ upload[u].pc \in {"idle", "stat", "temp", "saved"} => upload[u].stamp = 0
    /\ upload[u].pc \in {"stat", "temp"} => upload[u].sha \in Contents
    /\ upload[u].pc \in {"saved", "new"} => Holds(upload[u].sha)

Stamped == {u \in ImageUploads : upload[u].stamp # 0}

ImagesTyped ==
    /\ blobs \in [Contents -> Contents \cup {"none"}]
    /\ upload \in [ImageUploads -> Image]
    /\ artifacts \in [ImageUploads -> ArtifactRow]
    /\ reading \in Reading

\* A blob that is there is whole; whoever has gone past its installation, or
\* names it in a row or is about to read it, finds it; and every time that was
\* drawn is the time of an upload of its own.
ImagesInv ==
    /\ ImagesTyped
    /\ \A h \in Contents : blobs[h] \in {"none", h}
    /\ \A u \in ImageUploads : UploadFits(u)
    /\ \A u \in ImageUploads : artifacts[u] = NoArtifact \/ Holds(artifacts[u].sha)
    /\ created = Cardinality(Stamped)
    /\ reading = NoReading \/ (Holds(reading.sha) /\ reading.body \in {"none", reading.sha})

LEMMA ImagesInitially == ArtifactsInit => ImagesInv
<1> SUFFICES ASSUME ArtifactsInit PROVE ImagesInv
  OBVIOUS
<1>1. \A u \in ImageUploads : upload[u] = NoImage /\ artifacts[u] = NoArtifact
  BY DEF ArtifactsInit
<1>2. NoImage \in Image /\ NoArtifact \in ArtifactRow /\ NoReading \in Reading
  BY DEF NoImage, Image, NoArtifact, ArtifactRow, NoReading, Reading
<1>3. ImagesTyped
  BY <1>2 DEF ArtifactsInit, ImagesTyped
<1>4. Stamped = {}
  BY <1>1 DEF Stamped, NoImage
<1>5. created = Cardinality(Stamped)
  BY <1>4, FS_EmptySet DEF ArtifactsInit
<1>6. \A u \in ImageUploads : UploadFits(u)
  BY <1>1 DEF UploadFits, NoImage
<1> QED
  BY <1>1, <1>3, <1>5, <1>6 DEF ImagesInv, ArtifactsInit

\* A step of one upload that keeps the blobs that are there and its own time.
LEMMA UploadMoves ==
    ASSUME ImagesInv, NEW u \in ImageUploads, NEW r \in Image, ImageTo(u, r),
           r.stamp = upload[u].stamp, created' = created,
           \A h \in Contents : blobs[h] = h => blobs'[h] = h,
           UploadFits(u)'
    PROVE  /\ upload' \in [ImageUploads -> Image]
           /\ \A v \in ImageUploads : UploadFits(v)'
           /\ created' = Cardinality(Stamped')
           /\ \A h : Holds(h) => Holds(h)'
<1>1. upload' = [upload EXCEPT ![u] = r] /\ upload \in [ImageUploads -> Image]
  BY DEF ImageTo, ImagesInv, ImagesTyped
<1>2. \A v \in ImageUploads : upload'[v] = IF v = u THEN r ELSE upload[v]
  BY <1>1
<1>3. \A h : Holds(h) => Holds(h)'
  BY DEF Holds
<1>4. \A v \in ImageUploads : UploadFits(v)'
  <2> SUFFICES ASSUME NEW v \in ImageUploads, v # u PROVE UploadFits(v)'
    OBVIOUS
  <2>1. upload'[v] = upload[v] /\ UploadFits(v)
    BY <1>2 DEF ImagesInv
  <2> QED
    BY <1>3, <2>1 DEF UploadFits
<1>5. Stamped' = Stamped
  BY <1>2 DEF Stamped
<1> QED
  BY <1>1, <1>3, <1>4, <1>5 DEF ImagesInv

LEMMA ImagesStep == ImagesInv /\ [ArtifactsNext]_artifactVars => ImagesInv'
<1> SUFFICES ASSUME ImagesInv, [ArtifactsNext]_artifactVars PROVE ImagesInv'
  OBVIOUS
<1> USE ArtifactsAssumption
<1>1. ASSUME NEW u \in ImageUploads, NEW n \in Names, NEW h \in Contents, Receive(u, n, h)
      PROVE  ImagesInv'
  <2> DEFINE r == [pc |-> "stat", name |-> n, sha |-> h, stamp |-> 0]
  <2>1. r \in Image /\ ImageTo(u, r) /\ UNCHANGED <<blobs, artifacts, created, reading>> /\ upload[u].pc = "idle"
    BY <1>1 DEF Receive, Image
  <2>2. r.stamp = upload[u].stamp
    BY <2>1 DEF ImagesInv, UploadFits
  <2>3. UploadFits(u)'
    BY <2>1 DEF UploadFits, ImageTo, ImagesInv, ImagesTyped
  <2> QED
    BY <2>1, <2>2, <2>3, UploadMoves DEF ImagesInv, ImagesTyped
<1>2. ASSUME NEW u \in ImageUploads, StatBlob(u) PROVE ImagesInv'
  <2> DEFINE r == [upload[u] EXCEPT !.pc = IF blobs[upload[u].sha] # "none" THEN "saved" ELSE "temp"]
  <2>1. upload[u] \in Image /\ UploadFits(u)
    BY DEF ImagesInv, ImagesTyped
  <2>2. ImageTo(u, r) /\ UNCHANGED <<blobs, artifacts, created, reading>> /\ upload[u].pc = "stat"
    BY <1>2 DEF StatBlob
  <2>3. r \in Image /\ r.stamp = upload[u].stamp /\ r.sha = upload[u].sha
        /\ r.pc = IF blobs[upload[u].sha] # "none" THEN "saved" ELSE "temp"
    BY <2>1 DEF Image
  <2>4. upload'[u] = r
    BY <2>2 DEF ImageTo, ImagesInv, ImagesTyped
  <2>5. r.stamp = 0 /\ r.sha \in Contents /\ (r.pc = "saved" => blobs[r.sha] = r.sha)
    BY <2>1, <2>2, <2>3 DEF UploadFits, ImagesInv
  <2> HIDE DEF r
  <2>6. UploadFits(u)'
    BY <2>2, <2>3, <2>4, <2>5 DEF UploadFits, Holds
  <2> QED
    BY <2>2, <2>3, <2>6, UploadMoves DEF ImagesInv, ImagesTyped
<1>3. ASSUME NEW u \in ImageUploads, InstallBlob(u) PROVE ImagesInv'
  <2> DEFINE r == [upload[u] EXCEPT !.pc = "saved"]
             sha == upload[u].sha
  <2>1. upload[u] \in Image /\ UploadFits(u)
    BY DEF ImagesInv, ImagesTyped
  <2>2. ImageTo(u, r) /\ blobs' = [blobs EXCEPT ![sha] = sha]
        /\ UNCHANGED <<artifacts, created, reading>> /\ upload[u].pc = "temp"
    BY <1>3 DEF InstallBlob
  <2>3. r \in Image /\ r.stamp = upload[u].stamp /\ r.sha = sha /\ r.pc = "saved"
    BY <2>1 DEF Image
  <2>4. upload'[u] = r
    BY <2>2 DEF ImageTo, ImagesInv, ImagesTyped
  <2>5. r.stamp = 0 /\ sha \in Contents
    BY <2>1, <2>2, <2>3 DEF UploadFits
  <2>6. blobs' \in [Contents -> Contents \cup {"none"}] /\ \A h \in Contents : blobs'[h] = IF h = sha THEN sha ELSE blobs[h]
    BY <2>2, <2>5 DEF ImagesInv, ImagesTyped
  <2> HIDE DEF r, sha
  <2>7. UploadFits(u)'
    BY <2>3, <2>4, <2>5, <2>6 DEF UploadFits, Holds
  <2>8. /\ upload' \in [ImageUploads -> Image]
        /\ \A v \in ImageUploads : UploadFits(v)'
        /\ created' = Cardinality(Stamped')
        /\ \A h : Holds(h) => Holds(h)'
    BY <2>2, <2>3, <2>6, <2>7, UploadMoves
  <2> QED
    BY <2>2, <2>6, <2>8 DEF ImagesInv, ImagesTyped
<1>4. ASSUME NEW u \in ImageUploads, NewArtifact(u) PROVE ImagesInv'
  <2> DEFINE time == created + 1
             r == [upload[u] EXCEPT !.pc = "new", !.stamp = time]
  <2>1. upload[u] \in Image /\ UploadFits(u)
    BY DEF ImagesInv, ImagesTyped
  <2>2. ImageTo(u, r) /\ created' = created + 1 /\ UNCHANGED <<blobs, artifacts, reading>> /\ upload[u].pc = "saved"
    BY <1>4 DEF NewArtifact
  <2>3. IsFiniteSet(Stamped) /\ created \in Nat
    BY FS_Subset, FS_CardinalityType DEF Stamped, ImagesInv
  <2>4. r \in Image /\ r.stamp # 0 /\ r.sha = upload[u].sha /\ r.pc = "new"
    <3>1. time \in Nat /\ time # 0
      BY <2>3
    <3> HIDE DEF time
    <3> QED
      BY <2>1, <3>1 DEF Image
  <2>5. upload' = [upload EXCEPT ![u] = r] /\ upload \in [ImageUploads -> Image]
    BY <2>2 DEF ImageTo, ImagesInv, ImagesTyped
  <2>6. upload[u].stamp = 0 /\ Holds(upload[u].sha)
    BY <2>1, <2>2 DEF UploadFits
  <2> HIDE DEF r
  <2>7. \A v \in ImageUploads : upload'[v] = IF v = u THEN r ELSE upload[v]
    BY <2>5
  <2>8. Stamped' = Stamped \cup {u} /\ u \notin Stamped
    BY <2>3, <2>4, <2>6, <2>7 DEF Stamped
  <2>9. created' = Cardinality(Stamped')
    BY <2>2, <2>3, <2>8, FS_AddElement DEF ImagesInv
  <2>10. \A h : Holds(h)' <=> Holds(h)
    BY <2>2 DEF Holds
  <2>11. \A v \in ImageUploads : UploadFits(v)'
    BY <2>4, <2>6, <2>7, <2>10 DEF UploadFits, ImagesInv
  <2>12. upload' \in [ImageUploads -> Image]
    BY <2>4, <2>5
  <2> QED
    BY <2>2, <2>9, <2>10, <2>11, <2>12 DEF ImagesInv, ImagesTyped
<1>5. ASSUME NEW u \in ImageUploads, CreateArtifact(u) PROVE ImagesInv'
  <2> DEFINE r == [upload[u] EXCEPT !.pc = "done"]
             row == [name |-> upload[u].name, sha |-> upload[u].sha, deleted |-> "none"]
  <2>1. upload[u] \in Image /\ UploadFits(u)
    BY DEF ImagesInv, ImagesTyped
  <2>2. ImageTo(u, r) /\ artifacts' = [artifacts EXCEPT ![u] = row]
        /\ UNCHANGED <<blobs, created, reading>> /\ upload[u].pc = "new"
    BY <1>5 DEF CreateArtifact
  <2>3. r \in Image /\ r.stamp = upload[u].stamp /\ r.pc = "done"
    BY <2>1 DEF Image
  <2>4. upload'[u] = r
    BY <2>2 DEF ImageTo, ImagesInv, ImagesTyped
  <2>5. row \in ArtifactRow /\ row.sha = upload[u].sha /\ Holds(row.sha)
    BY <2>1, <2>2 DEF Image, ArtifactRow, UploadFits
  <2> HIDE DEF r, row
  <2>6. UploadFits(u)'
    BY <2>3, <2>4 DEF UploadFits
  <2>7. /\ upload' \in [ImageUploads -> Image]
        /\ \A v \in ImageUploads : UploadFits(v)'
        /\ created' = Cardinality(Stamped')
        /\ \A h : Holds(h) => Holds(h)'
    BY <2>2, <2>3, <2>6, UploadMoves
  <2>8. artifacts' \in [ImageUploads -> ArtifactRow] /\ \A v \in ImageUploads : artifacts'[v] = IF v = u THEN row ELSE artifacts[v]
    BY <2>2, <2>5 DEF ImagesInv, ImagesTyped
  <2> QED
    BY <2>2, <2>5, <2>7, <2>8 DEF ImagesInv, ImagesTyped
<1>6. ASSUME NEW u \in ImageUploads, UploadStops(u) PROVE ImagesInv'
  <2> DEFINE r == [upload[u] EXCEPT !.pc = "done"]
  <2>1. upload[u] \in Image
    BY DEF ImagesInv, ImagesTyped
  <2>2. ImageTo(u, r) /\ UNCHANGED <<blobs, artifacts, created, reading>>
    BY <1>6 DEF UploadStops
  <2>3. r \in Image /\ r.stamp = upload[u].stamp /\ r.pc = "done"
    BY <2>1 DEF Image
  <2>4. upload'[u] = r
    BY <2>2 DEF ImageTo, ImagesInv, ImagesTyped
  <2> HIDE DEF r
  <2>5. UploadFits(u)'
    BY <2>3, <2>4 DEF UploadFits
  <2> QED
    BY <2>2, <2>3, <2>5, UploadMoves DEF ImagesInv, ImagesTyped
<1>7. ASSUME NEW u \in ImageUploads, TombstoneArtifact(u, "api_delete") PROVE ImagesInv'
  <2> DEFINE gone == IF artifacts[u].deleted = "none" THEN "api_delete" ELSE artifacts[u].deleted
             row == [artifacts[u] EXCEPT !.deleted = gone]
  <2>1. artifacts[u] \in ArtifactRow /\ artifacts[u] # NoArtifact /\ Holds(artifacts[u].sha)
    BY <1>7 DEF TombstoneArtifact, ImagesInv, ImagesTyped
  <2>2. artifacts' = [artifacts EXCEPT ![u] = row] /\ UNCHANGED <<blobs, upload, created, reading>>
    BY <1>7 DEF TombstoneArtifact
  <2>3. row \in ArtifactRow /\ row.sha = artifacts[u].sha
    BY <2>1 DEF ArtifactRow
  <2> HIDE DEF row
  <2>4. artifacts' \in [ImageUploads -> ArtifactRow] /\ \A v \in ImageUploads : artifacts'[v] = IF v = u THEN row ELSE artifacts[v]
    BY <2>2, <2>3 DEF ImagesInv, ImagesTyped
  <2>5. Stamped' = Stamped /\ \A h : Holds(h)' <=> Holds(h)
    BY <2>2 DEF Stamped, Holds
  <2>6. \A v \in ImageUploads : UploadFits(v)'
    BY <2>2, <2>5 DEF UploadFits, ImagesInv
  <2> QED
    BY <2>1, <2>2, <2>3, <2>4, <2>5, <2>6 DEF ImagesInv, ImagesTyped
<1>8. ASSUME NEW n \in Names, ResolveRef(n) PROVE ImagesInv'
  <2>1. PICK u \in GetArtifactByScope(n) :
           reading' = [id |-> u, sha |-> artifacts[u].sha, body |-> "none"] /\ UNCHANGED <<blobs, artifacts, upload, created>>
    BY <1>8 DEF ResolveRef
  <2>2. u \in ImageUploads /\ artifacts[u] # NoArtifact
    BY DEF GetArtifactByScope, Live
  <2>3. artifacts[u] \in ArtifactRow /\ Holds(artifacts[u].sha)
    BY <2>2 DEF ImagesInv, ImagesTyped
  <2>4. reading' \in Reading /\ reading'.sha = artifacts[u].sha /\ reading'.body = "none"
    BY <2>1, <2>2, <2>3 DEF Reading, ArtifactRow
  <2>5. Stamped' = Stamped /\ \A h : Holds(h)' <=> Holds(h)
    BY <2>1 DEF Stamped, Holds
  <2>6. \A v \in ImageUploads : UploadFits(v)'
    BY <2>1, <2>5 DEF UploadFits, ImagesInv
  <2> QED
    BY <2>1, <2>3, <2>4, <2>5, <2>6 DEF ImagesInv, ImagesTyped
<1>9. CASE OpenContent \/ ContentSent
  <2>1. UNCHANGED <<blobs, artifacts, upload, created>>
    BY <1>9 DEF OpenContent, ContentSent
  <2>2. Stamped' = Stamped /\ \A h : Holds(h)' <=> Holds(h)
    BY <2>1 DEF Stamped, Holds
  <2>3. \A v \in ImageUploads : UploadFits(v)'
    BY <2>1, <2>2 DEF UploadFits, ImagesInv
  <2>4. reading' \in Reading /\ (reading' = NoReading \/ (Holds(reading'.sha) /\ reading'.body \in {"none", reading'.sha}))
    <3>1. CASE OpenContent
      <4>1. reading \in Reading /\ reading.id # 0
        BY <3>1 DEF OpenContent, ImagesInv, ImagesTyped
      <4>2. Holds(reading.sha)
        BY <4>1 DEF ImagesInv, NoReading
      <4>3. blobs[reading.sha] = reading.sha /\ reading.sha # "none" /\ reading.sha \in Contents
        BY <4>2 DEF Holds
      <4>4. reading' = [reading EXCEPT !.body = reading.sha]
        BY <3>1, <4>3 DEF OpenContent
      <4> QED
        BY <4>1, <4>2, <4>3, <4>4 DEF Reading
    <3>2. CASE ContentSent
      BY <3>2 DEF ContentSent, Reading, NoReading
    <3> QED
      BY <1>9, <3>1, <3>2
  <2> QED
    BY <2>1, <2>2, <2>3, <2>4 DEF ImagesInv, ImagesTyped
<1>10. CASE UNCHANGED artifactVars
  <2>1. UNCHANGED <<blobs, artifacts, upload, created, reading>>
    BY <1>10 DEF artifactVars
  <2>2. Stamped' = Stamped /\ \A h : Holds(h)' <=> Holds(h)
    BY <2>1 DEF Stamped, Holds
  <2>3. \A v \in ImageUploads : UploadFits(v)'
    BY <2>1, <2>2 DEF UploadFits, ImagesInv
  <2> QED
    BY <2>1, <2>2, <2>3 DEF ImagesInv, ImagesTyped
<1> QED
  BY <1>1, <1>2, <1>3, <1>4, <1>5, <1>6, <1>7, <1>8, <1>9, <1>10 DEF ArtifactsNext

\* For every number of uploads of any contents, stopped anywhere: a live row's
\* content is installed and whole, and a reader gets what the row it found
\* names (Create and OpenContent, artifacts/internal/service.go).
THEOREM ContentsWhole == ArtifactsSpec => []ContentIsWhole
<1>1. ImagesInv => ContentIsWhole
  <2> SUFFICES ASSUME ImagesInv PROVE ContentIsWhole
    OBVIOUS
  <2>1. \A h \in Contents : blobs[h] \in {"none", "partial"} \cup Contents
    BY DEF ImagesInv, ImagesTyped
  <2>2. created \in 0..Cardinality(ImageUploads)
    <3>1. Stamped \in SUBSET ImageUploads /\ IsFiniteSet(ImageUploads)
      BY ArtifactsAssumption DEF Stamped
    <3>2. Cardinality(Stamped) <= Cardinality(ImageUploads) /\ Cardinality(Stamped) \in Nat /\ Cardinality(ImageUploads) \in Nat
      BY <3>1, FS_Subset, FS_CardinalityType
    <3> QED
      BY <3>2 DEF ImagesInv
  <2>3. \A u \in ImageUploads : Live(u) => blobs[artifacts[u].sha] = artifacts[u].sha
    BY DEF ImagesInv, Live, Holds
  <2>4. reading.body # "none" => reading.body = reading.sha
    BY DEF ImagesInv, NoReading
  <2> QED
    BY <2>1, <2>2, <2>3, <2>4 DEF ContentIsWhole, ArtifactsTypeOK
<1> QED
  BY ImagesInitially, ImagesStep, <1>1, PTL DEF ArtifactsSpec

-----------------------------------------------------------------------------
(* The publication of documents                                              *)

Changes == [file : PostPaths \cup {"images"}, source : Sources, version : Nat]

PublishCall ==
    [pc : {"idle", "fetched", "prepared", "ready", "verified", "written", "imaged", "committed",
           "saving", "failing", "done"},
     source : Sources \cup {"none"}, version : Nat, id : Nat, path : PostPaths \cup {"none"},
     overwrite : BOOLEAN, commit : Nat]

Publication ==
    [source : Sources \cup {"none"}, path : PostPaths \cup {"none"}, version : Nat,
     status : {"none", "published", "failed"}, commit : Nat]

\* The files of one publication: one version of one source, one post.
Whole(C) ==
    \A a, b \in C :
        /\ a.source = b.source /\ a.version = b.version
        /\ a.file \in PostPaths /\ b.file \in PostPaths => a = b

PostFile(r) == Change(r.path, r.source, r.version)
FilesOf(r) == {PostFile(r)} \cup (IF r.source = "page" THEN {Change("images", "page", r.version)} ELSE {})

\* A request that holds the mutex has found a clean tree: what has changed since
\* is its own, and it knows what the tree has at its path.
CallFits(r) ==
    /\ r.pc \notin {"idle", "done"} => r.source \in Sources
    /\ r.pc \notin {"idle", "fetched", "done"} => r.id \in PublicationIds /\ r.path \in PostPaths
    /\ r.pc = "verified" => uncommitted = {}
    /\ r.pc \in {"written", "imaged"} => uncommitted \subseteq FilesOf(r) /\ Tree(r.path) = {PostFile(r)}
    /\ r.pc = "committed" => r.commit = Len(log) /\ Len(log) > 0
    /\ r.pc = "saving" => r.commit \in 1..pushed
    /\ r.pc \in {"committed", "saving"} => CommittedAt(r.commit, r.path) = {PostFile(r)}

RecordFits(p) ==
    /\ p.source \in Sources => p.path \in PostPaths
    /\ p.status = "published" => p.commit \in 1..pushed /\ CommittedAt(p.commit, p.path) = {PostFile(p)}

PublishTyped ==
    /\ version \in [Sources -> 1..MaxVersion]
    /\ publications \in [PublicationIds -> Publication]
    /\ publishing \in [Publishers -> PublishCall]
    /\ log \in Seq(SUBSET Changes)
    /\ pushed \in 0..Len(log)
    /\ uncommitted \in SUBSET Changes

PublishInv ==
    /\ PublishTyped
    /\ \A c, d \in Publishers : publishing[c].pc \in InRepo /\ publishing[d].pc \in InRepo => c = d
    /\ \A c \in Publishers : CallFits(publishing[c])
    /\ \A i \in PublicationIds : RecordFits(publications[i])
    /\ \A n \in 1..Len(log) : Whole(log[n])

-----------------------------------------------------------------------------
(* The branch: what a commit has at a file does not change, and the next      *)
(* commit has what the working tree has.                                      *)

LEMMA GreatestNatural ==
    ASSUME NEW n \in Nat, NEW S \in SUBSET (1..n), S # {}
    PROVE  Max(S) \in S /\ \A y \in S : y <= Max(S)
<1> DEFINE T == {n - x : x \in S}
<1>0. \A x \in S : x \in 1..n /\ n - x \in Nat
  OBVIOUS
<1>1. T \in SUBSET Nat /\ T # {}
  BY <1>0
<1>2. PICK t \in T : \A y \in T : t <= y
  BY <1>1, LeastNatural
<1>3. PICK m \in S : t = n - m
  BY <1>2
<1>4. \A y \in S : m >= y
  <2> SUFFICES ASSUME NEW y \in S PROVE m >= y
    OBVIOUS
  <2>1. n - y \in T
    OBVIOUS
  <2>2. n - m <= n - y
    BY <1>2, <1>3, <2>1
  <2> QED
    BY <2>2
<1>5. Max(S) \in S /\ \A y \in S : Max(S) >= y
  BY <1>4 DEF Max
<1> QED
  BY <1>5

FileAt(l, n, f) ==
    LET at == {m \in 1..n : \E ch \in l[m] : ch.file = f}
    IN IF at = {} THEN {} ELSE {ch \in l[Max(at)] : ch.file = f}

LEMMA CommitKeeps ==
    ASSUME NEW l \in Seq(SUBSET Changes), NEW U \in SUBSET Changes, NEW n \in 0..Len(l), NEW f
    PROVE  FileAt(Append(l, U), n, f) = FileAt(l, n, f)
<1> DEFINE k == Append(l, U)
           at == {m \in 1..n : \E ch \in l[m] : ch.file = f}
           next == {m \in 1..n : \E ch \in k[m] : ch.file = f}
<1>1. n \in Nat /\ \A m \in 1..n : k[m] = l[m]
  OBVIOUS
<1>2. next = at
  BY <1>1
<1>3. at # {} => Max(at) \in 1..n
  <2>1. at \in SUBSET (1..n)
    OBVIOUS
  <2> HIDE DEF at
  <2>2. at # {} => Max(at) \in at
    BY <1>1, <2>1, GreatestNatural
  <2> QED
    BY <2>1, <2>2
<1>4. at # {} => k[Max(at)] = l[Max(at)]
  BY <1>1, <1>3
<1> QED
  BY <1>2, <1>4 DEF FileAt

LEMMA CommitTakes ==
    ASSUME NEW l \in Seq(SUBSET Changes), NEW U \in SUBSET Changes, NEW f
    PROVE  FileAt(Append(l, U), Len(l) + 1, f) =
              IF \E ch \in U : ch.file = f THEN {ch \in U : ch.file = f} ELSE FileAt(l, Len(l), f)
<1> DEFINE n == Len(l) + 1
           k == Append(l, U)
           next == {m \in 1..n : \E ch \in k[m] : ch.file = f}
<1>1. n \in Nat /\ n \in 1..n /\ k[n] = U /\ 1..n = 1..Len(l) \cup {n} /\ Len(l) \in 0..Len(l)
  OBVIOUS
<1>2. CASE \E ch \in U : ch.file = f
  <2>1. n \in next /\ next \in SUBSET Nat /\ \A m \in next : m <= n
    BY <1>1, <1>2
  <2>2. Max(next) = n
    <3> HIDE DEF next
    <3> QED
      BY <2>1, MaxIs
  <2> QED
    BY <1>1, <1>2, <2>1, <2>2 DEF FileAt
<1>3. CASE ~ \E ch \in U : ch.file = f
  <2>1. next = {m \in 1..Len(l) : \E ch \in k[m] : ch.file = f}
    <3>1. n \notin next
      BY <1>1, <1>3
    <3> QED
      BY <1>1, <3>1
  <2>2. FileAt(k, n, f) = FileAt(k, Len(l), f)
    BY <2>1 DEF FileAt
  <2>3. FileAt(k, Len(l), f) = FileAt(l, Len(l), f)
    BY <1>1, CommitKeeps
  <2> QED
    BY <1>3, <2>2, <2>3
<1> QED
  BY <1>2, <1>3

LEMMA CommittedIs == \A n, f : CommittedAt(n, f) = FileAt(log, n, f)
BY DEF CommittedAt, FileAt

\* What a commit has at a file is what it or the last one before it wrote.
LEMMA FileOf ==
    ASSUME NEW l \in Seq(SUBSET Changes), \A m \in 1..Len(l) : Whole(l[m]), NEW f \in PostPaths,
           NEW ch \in FileAt(l, Len(l), f)
    PROVE  FileAt(l, Len(l), f) = {ch}
<1> DEFINE at == {m \in 1..Len(l) : \E x \in l[m] : x.file = f}
<1>1. at # {} /\ at \in SUBSET (1..Len(l)) /\ Len(l) \in Nat
  BY DEF FileAt
<1>2. Max(at) \in 1..Len(l)
  <2> HIDE DEF at
  <2> QED
    BY <1>1, GreatestNatural
<1>3. FileAt(l, Len(l), f) = {x \in l[Max(at)] : x.file = f}
  BY <1>1 DEF FileAt
<1> DEFINE C == l[Max(at)]
<1>4. \A x \in FileAt(l, Len(l), f) : x = ch
  <2>0. Whole(C)
    BY <1>2
  <2>1. FileAt(l, Len(l), f) = {x \in C : x.file = f}
    BY <1>3
  <2> HIDE DEF C
  <2> SUFFICES ASSUME NEW x \in FileAt(l, Len(l), f) PROVE x = ch
    OBVIOUS
  <2>2. x \in C /\ ch \in C /\ x.file = f /\ ch.file = f
    BY <2>1
  <2>3. \A a, b \in C : a.file \in PostPaths /\ b.file \in PostPaths => a = b
    BY <2>0 DEF Whole
  <2>4. x.file \in PostPaths /\ ch.file \in PostPaths
    BY <2>2
  <2> QED
    BY <2>2, <2>3, <2>4
<1> QED
  BY <1>4

Grows == log' = log \/ \E U \in SUBSET Changes : log' = Append(log, U)

LEMMA BranchKeeps ==
    ASSUME PublishTyped, Grows
    PROVE  \A f : \A n \in 0..Len(log) : CommittedAt(n, f)' = CommittedAt(n, f)
<1> SUFFICES ASSUME NEW n \in 0..Len(log), NEW f PROVE CommittedAt(n, f)' = CommittedAt(n, f)
  OBVIOUS
<1>1. CommittedAt(n, f) = FileAt(log, n, f) /\ CommittedAt(n, f)' = FileAt(log', n, f)
  BY DEF CommittedAt, FileAt
<1>2. log \in Seq(SUBSET Changes)
  BY DEF PublishTyped
<1>3. FileAt(log', n, f) = FileAt(log, n, f)
  BY <1>2, CommitKeeps DEF Grows
<1> QED
  BY <1>1, <1>3

\* What holds of a request outside the repository, and of a record, still holds
\* when another request has written, committed or pushed.
LEMMA CallKeeps ==
    ASSUME PublishTyped, Grows, pushed' \in Nat, pushed <= pushed',
           NEW r \in PublishCall, CallFits(r), r.pc \notin InRepo
    PROVE  CallFits(r)'
<1>1. r.pc = "saving" => r.commit \in 1..pushed' /\ CommittedAt(r.commit, r.path)' = {PostFile(r)}
  <2> SUFFICES ASSUME r.pc = "saving" PROVE r.commit \in 1..pushed' /\ CommittedAt(r.commit, r.path)' = {PostFile(r)}
    OBVIOUS
  <2>1. r.commit \in 1..pushed /\ CommittedAt(r.commit, r.path) = {PostFile(r)}
    BY DEF CallFits
  <2>2. pushed \in Nat /\ Len(log) \in Nat /\ pushed <= Len(log)
    BY DEF PublishTyped
  <2>3. r.commit \in 0..Len(log) /\ r.commit \in 1..pushed'
    BY <2>1, <2>2
  <2> QED
    BY <2>1, <2>3, BranchKeeps
<1> QED
  BY <1>1 DEF CallFits, InRepo

LEMMA RecordKeeps ==
    ASSUME PublishTyped, Grows, pushed' \in Nat, pushed <= pushed', NEW p \in Publication, RecordFits(p)
    PROVE  RecordFits(p)'
<1>1. p.status = "published" => p.commit \in 1..pushed' /\ CommittedAt(p.commit, p.path)' = {PostFile(p)}
  <2> SUFFICES ASSUME p.status = "published"
               PROVE  p.commit \in 1..pushed' /\ CommittedAt(p.commit, p.path)' = {PostFile(p)}
    OBVIOUS
  <2>1. p.commit \in 1..pushed /\ CommittedAt(p.commit, p.path) = {PostFile(p)}
    BY DEF RecordFits
  <2>2. pushed \in Nat /\ Len(log) \in Nat /\ pushed <= Len(log)
    BY DEF PublishTyped
  <2>3. p.commit \in 0..Len(log) /\ p.commit \in 1..pushed'
    BY <2>1, <2>2
  <2> QED
    BY <2>1, <2>3, BranchKeeps
<1> QED
  BY <1>1 DEF RecordFits

LEMMA RecordsKeep ==
    ASSUME PublishInv, Grows, pushed' \in Nat, pushed <= pushed', publications' = publications
    PROVE  \A i \in PublicationIds : RecordFits(publications[i])'
<1> SUFFICES ASSUME NEW i \in PublicationIds PROVE RecordFits(publications[i])'
  OBVIOUS
<1>1. PICK p \in Publication : p = publications[i]
  BY DEF PublishInv, PublishTyped
<1>2. RecordFits(p)'
  BY <1>1, RecordKeeps DEF PublishInv
<1> QED
  BY <1>1, <1>2

\* One request moves on, alone in the repository if it changes that.
LEMMA PublishMoves ==
    ASSUME PublishInv, NEW c \in Publishers, NEW r \in PublishCall, To(c, r),
           version' = version, publications' \in [PublicationIds -> Publication],
           \A i \in PublicationIds : RecordFits(publications[i])',
           Grows, pushed' \in 0..Len(log'), pushed <= pushed', uncommitted' \in SUBSET Changes,
           \A n \in 1..Len(log') : Whole(log'[n]),
           r.pc \in InRepo => publishing[c].pc \in InRepo \/ ~Locked,
           publishing[c].pc \in InRepo \/ UNCHANGED <<log, pushed, uncommitted>>,
           CallFits(r)'
    PROVE  PublishInv'
<1>1. PublishTyped /\ publishing \in [Publishers -> PublishCall] /\ publishing' = [publishing EXCEPT ![c] = r]
  BY DEF PublishInv, PublishTyped, To
<1>2. \A d \in Publishers : publishing'[d] = IF d = c THEN r ELSE publishing[d]
  BY <1>1
<1>3. log' \in Seq(SUBSET Changes)
  BY <1>1 DEF Grows, PublishTyped
<1>4. PublishTyped'
  BY <1>1, <1>3 DEF PublishTyped
<1>5. \A d, e \in Publishers : publishing'[d].pc \in InRepo /\ publishing'[e].pc \in InRepo => d = e
  BY <1>2 DEF PublishInv, Locked
<1>6. pushed' \in Nat
  <2>1. Len(log') \in Nat
    BY <1>3
  <2> QED
    BY <2>1
<1>7. \A d \in Publishers : CallFits(publishing[d])'
  <2> SUFFICES ASSUME NEW d \in Publishers PROVE CallFits(publishing[d])'
    OBVIOUS
  <2>1. CASE d = c
    <3>1. publishing'[d] = r
      BY <1>2, <2>1
    <3> QED
      BY <3>1
  <2>2. CASE d # c
    <3>1. PICK q \in PublishCall : q = publishing[d]
      BY <1>1
    <3>2. publishing'[d] = q /\ CallFits(q)
      BY <1>2, <2>2, <3>1 DEF PublishInv
    <3>3. CASE q.pc \notin InRepo
      <4>1. CallFits(q)'
        BY <1>1, <1>6, <3>2, <3>3, CallKeeps
      <4> QED
        BY <3>2, <4>1
    <3>4. CASE UNCHANGED <<log, pushed, uncommitted>>
      <4>1. \A n, f : CommittedAt(n, f)' = CommittedAt(n, f)
        BY <3>4 DEF CommittedAt
      <4>2. \A f : Tree(f)' = Tree(f)
        BY <3>4, <4>1 DEF Tree, Committed
      <4>3. CallFits(q)'
        BY <3>2, <3>4, <4>1, <4>2 DEF CallFits
      <4> QED
        BY <3>2, <4>3
    <3> QED
      BY <2>2, <3>1, <3>3, <3>4 DEF PublishInv
  <2> QED
    BY <2>1, <2>2
<1> QED
  BY <1>4, <1>5, <1>7 DEF PublishInv

LEMMA StandsAlone ==
    ASSUME PublishInv, NEW c \in Publishers, NEW r \in PublishCall, To(c, r),
           UNCHANGED <<version, publications, log, pushed, uncommitted>>,
           r.pc \in InRepo => publishing[c].pc \in InRepo \/ ~Locked,
           CallFits(r)'
    PROVE  PublishInv'
<1>1. publications' \in [PublicationIds -> Publication] /\ pushed' \in 0..Len(log') /\ pushed <= pushed' /\ pushed' \in Nat
      /\ uncommitted' \in SUBSET Changes
  BY DEF PublishInv, PublishTyped
<1>2. \A n \in 1..Len(log') : Whole(log'[n])
  BY DEF PublishInv
<1>3. Grows
  BY DEF Grows
<1>4. \A i \in PublicationIds : RecordFits(publications[i])'
  BY <1>1, <1>3, RecordsKeep
<1> QED
  BY <1>1, <1>2, <1>3, <1>4, PublishMoves

LEMMA PublishInitially == PublishInit => PublishInv
<1> SUFFICES ASSUME PublishInit PROVE PublishInv
  OBVIOUS
<1> USE PublishAssumption
<1>1. NoPublish \in PublishCall /\ NoPublish.pc = "idle"
  BY DEF NoPublish, PublishCall
<1>2. NoPublication \in Publication /\ NoPublication.status = "none" /\ NoPublication.source \notin Sources
  BY DEF NoPublication, Publication, Sources
<1>3. log = <<>> /\ pushed = 0 /\ uncommitted = {} /\ Len(log) = 0 /\ log \in Seq(SUBSET Changes)
  BY DEF PublishInit
<1>4. PublishTyped
  BY <1>1, <1>2, <1>3 DEF PublishInit, PublishTyped
<1>5. \A c \in Publishers : publishing[c].pc = "idle" /\ CallFits(publishing[c])
  BY <1>1 DEF PublishInit, CallFits
<1>6. \A i \in PublicationIds : RecordFits(publications[i])
  BY <1>2 DEF PublishInit, RecordFits
<1> QED
  BY <1>3, <1>4, <1>5, <1>6 DEF PublishInv, InRepo

LEMMA Found ==
    ASSUME PublishInv, NEW s \in Sources, FindBySource(s) # 0
    PROVE  FindBySource(s) \in PublicationIds /\ publications[FindBySource(s)].path \in PostPaths
<1> DEFINE same == {i \in PublicationIds : publications[i].source = s}
<1>1. same # {} /\ same \in SUBSET PublicationIds /\ same \in SUBSET Nat
  BY DEF FindBySource, PublicationIds
<1>2. PICK m \in same : \A i \in same : m <= i
  <2> HIDE DEF same
  <2> QED
    BY <1>1, LeastNatural
<1>3. Min(same) \in same
  <2> HIDE DEF same
  <2> QED
    BY <1>2 DEF Min
<1>4. FindBySource(s) = Min(same)
  BY <1>1 DEF FindBySource
<1>5. FindBySource(s) \in PublicationIds /\ publications[FindBySource(s)].source = s
  BY <1>3, <1>4
<1> QED
  BY <1>5 DEF PublishInv, RecordFits

LEMMA Answers == Answered \in PublishCall /\ Answered.pc = "done"
BY DEF Answered, NoPublish, PublishCall

LEMMA Preparations ==
    ASSUME PublishInv, NEW c \in Publishers
    PROVE  /\ \A s \in Sources, o \in BOOLEAN : documentForRequest(c, s, o) => PublishInv'
           /\ prepare(c) => PublishInv'
           /\ fetchAssets(c) => PublishInv'
           /\ verifyRepo(c) => PublishInv'
<1> USE PublishAssumption
<1>0. PICK r \in PublishCall : r = publishing[c] /\ CallFits(r)
  BY DEF PublishInv, PublishTyped
<1>1. ASSUME NEW s \in Sources, NEW o \in BOOLEAN, documentForRequest(c, s, o) PROVE PublishInv'
  <2>2. PICK v \in Nat : v = version[s]
    BY DEF PublishInv, PublishTyped
  <2> DEFINE q == [NoPublish EXCEPT !.pc = "fetched", !.source = s, !.version = v, !.overwrite = o]
  <2>1. To(c, q) /\ UNCHANGED <<version, publications, log, pushed, uncommitted>>
    BY <1>1, <2>2 DEF documentForRequest
  <2>3. q \in PublishCall /\ q.pc = "fetched" /\ q.source = s
    BY <2>2 DEF NoPublish, PublishCall
  <2> HIDE DEF q
  <2>4. CallFits(q)'
    BY <2>3 DEF CallFits
  <2> QED
    BY <2>1, <2>3, <2>4, StandsAlone DEF InRepo
<1>2. ASSUME prepare(c) PROVE PublishInv'
  <2> DEFINE prev == FindBySource(r.source)
             taken == {i \in PublicationIds : publications[i] # NoPublication} \cup {publishing[d].id : d \in Publishers}
  <2>1. PICK p \in render(r.source, prev) :
          /\ r.pc = "fetched"
          /\ IF prev = 0 /\ HasTree(p) /\ ~r.overwrite
             THEN To(c, Answered)
             ELSE \E i \in IF prev = 0 THEN PublicationIds \ taken ELSE {prev} :
                    To(c, [r EXCEPT !.pc = "prepared", !.id = i, !.path = p])
          /\ UNCHANGED <<version, publications, log, pushed, uncommitted>>
    BY <1>0, <1>2 DEF prepare
  <2>2. r.source \in Sources
    BY <1>0, <2>1 DEF CallFits
  <2>3. p \in PostPaths /\ (prev # 0 => prev \in PublicationIds)
    BY <2>2, Found DEF render
  <2>4. CASE To(c, Answered)
    <3>1. CallFits(Answered)'
      BY Answers DEF CallFits
    <3> QED
      BY <2>1, <2>4, <3>1, Answers, StandsAlone DEF InRepo
  <2>5. ASSUME NEW i \in PublicationIds, To(c, [r EXCEPT !.pc = "prepared", !.id = i, !.path = p]) PROVE PublishInv'
    <3> DEFINE q == [r EXCEPT !.pc = "prepared", !.id = i, !.path = p]
    <3>1. q \in PublishCall /\ q.pc = "prepared" /\ q.source = r.source /\ q.id = i /\ q.path = p
      <4>1. i \in Nat
        BY DEF PublicationIds
      <4> QED
        BY <2>3, <4>1 DEF PublishCall
    <3> HIDE DEF q
    <3>2. CallFits(q)'
      BY <2>2, <2>3, <3>1 DEF CallFits
    <3>3. To(c, q)
      BY <2>5 DEF q
    <3> QED
      BY <2>1, <3>1, <3>2, <3>3, StandsAlone DEF InRepo
  <2> QED
    BY <2>1, <2>3, <2>4, <2>5
<1>3. ASSUME fetchAssets(c) PROVE PublishInv'
  <2>1. r.pc = "prepared" /\ UNCHANGED <<version, publications, log, pushed, uncommitted>>
    BY <1>0, <1>3 DEF fetchAssets
  <2>2. CASE To(c, Answered)
    <3>1. CallFits(Answered)'
      BY Answers DEF CallFits
    <3> QED
      BY <2>1, <2>2, <3>1, Answers, StandsAlone DEF InRepo
  <2>3. ASSUME NEW o \in BOOLEAN, To(c, [r EXCEPT !.pc = "ready", !.overwrite = o]) PROVE PublishInv'
    <3> DEFINE q == [r EXCEPT !.pc = "ready", !.overwrite = o]
    <3>1. q \in PublishCall /\ q.pc = "ready" /\ q.source = r.source /\ q.id = r.id /\ q.path = r.path
      BY DEF PublishCall
    <3> HIDE DEF q
    <3>2. CallFits(q)'
      BY <1>0, <2>1, <3>1 DEF CallFits
    <3>3. To(c, q)
      BY <2>3 DEF q
    <3> QED
      BY <2>1, <3>1, <3>2, <3>3, StandsAlone DEF InRepo
  <2>4. To(c, Answered) \/ \E o \in BOOLEAN : To(c, [r EXCEPT !.pc = "ready", !.overwrite = o])
    <3>1. r.overwrite \in BOOLEAN
      BY DEF PublishCall
    <3> DEFINE o == r.overwrite \/ FindBySource(r.source) # 0
    <3>2. To(c, Answered) \/ To(c, [r EXCEPT !.pc = "ready", !.overwrite = o])
      BY <1>0, <1>3 DEF fetchAssets
    <3>3. o \in BOOLEAN
      OBVIOUS
    <3> HIDE DEF o
    <3> QED
      BY <3>2, <3>3
  <2> QED
    BY <2>2, <2>3, <2>4
<1>4. ASSUME verifyRepo(c) PROVE PublishInv'
  <2>1. r.pc = "ready" /\ ~Locked /\ UNCHANGED <<version, publications, log, pushed, uncommitted>>
    BY <1>0, <1>4 DEF verifyRepo
  <2>2. ASSUME NEW pc \in {"failing", "verified"}, pc = "verified" => uncommitted = {},
               To(c, [r EXCEPT !.pc = pc]) PROVE PublishInv'
    <3> DEFINE q == [r EXCEPT !.pc = pc]
    <3>1. q \in PublishCall /\ q.pc = pc /\ q.source = r.source /\ q.id = r.id /\ q.path = r.path
      BY <2>2 DEF PublishCall
    <3>2. To(c, q)
      BY <2>2
    <3> HIDE DEF q
    <3>3. CallFits(q)'
      BY <1>0, <2>1, <2>2, <3>1 DEF CallFits
    <3> QED
      BY <2>1, <3>1, <3>2, <3>3, StandsAlone
  <2> QED
    BY <1>0, <1>4, <2>2 DEF verifyRepo, Fails
<1> QED
  BY <1>1, <1>2, <1>3, <1>4

LEMMA FilesFit ==
    ASSUME NEW r \in PublishCall, r.path \in PostPaths, r.source \in Sources
    PROVE  /\ FilesOf(r) \in SUBSET Changes /\ Whole(FilesOf(r)) /\ PostFile(r) \in FilesOf(r)
           /\ PostFile(r).file = r.path
<1> USE PublishAssumption
<1>1. PostFile(r) \in Changes /\ PostFile(r).file = r.path /\ PostFile(r).source = r.source /\ PostFile(r).version = r.version
  BY DEF PostFile, Change, Changes, PublishCall
<1>2. CASE r.source = "page"
  <2> DEFINE i == Change("images", "page", r.version)
  <2>1. i \in Changes /\ i.file = "images" /\ i.source = "page" /\ i.version = r.version
    BY <1>2 DEF Change, Changes, PublishCall, Sources
  <2>2. FilesOf(r) = {PostFile(r), i}
    BY <1>2 DEF FilesOf
  <2> HIDE DEF i
  <2> QED
    BY <1>1, <1>2, <2>1, <2>2 DEF Whole
<1>3. CASE r.source # "page"
  <2>1. FilesOf(r) = {PostFile(r)}
    BY <1>3 DEF FilesOf
  <2> QED
    BY <1>1, <2>1 DEF Whole
<1> QED
  BY <1>2, <1>3

LEMMA WholePart == ASSUME NEW C, NEW D \in SUBSET C, Whole(C) PROVE Whole(D)
BY DEF Whole

\* The steps under the mutex that leave the branch alone.
LEMMA Writes ==
    ASSUME PublishInv, NEW c \in Publishers
    PROVE  \A ok \in BOOLEAN : writePost(c, ok) \/ writeAssets(c, ok) => PublishInv'
<1> USE PublishAssumption
<1>0. PICK r \in PublishCall : r = publishing[c] /\ CallFits(r)
  BY DEF PublishInv, PublishTyped
<1> SUFFICES ASSUME NEW ok \in BOOLEAN, writePost(c, ok) \/ writeAssets(c, ok) PROVE PublishInv'
  OBVIOUS
<1>1. r.pc \in {"verified", "written"} /\ UNCHANGED <<version, publications, log, pushed>>
  BY <1>0 DEF writePost, writeAssets
<1>2. r.path \in PostPaths /\ r.source \in Sources /\ r.id \in PublicationIds
  BY <1>0, <1>1 DEF CallFits
<1>3. FilesOf(r) \in SUBSET Changes /\ Whole(FilesOf(r)) /\ PostFile(r) \in FilesOf(r) /\ PostFile(r).file = r.path
  BY <1>2, FilesFit
<1>4. log \in Seq(SUBSET Changes) /\ \A m \in 1..Len(log) : Whole(log[m])
  BY DEF PublishInv, PublishTyped
<1>5. uncommitted' \in SUBSET FilesOf(r) /\ Tree(r.path)' = {PostFile(r)}
  <2>1. \A f : Committed(f) = FileAt(log, Len(log), f)
    BY DEF Committed, CommittedAt, FileAt
  <2>2. \A f : Committed(f)' = Committed(f)
    BY <1>1 DEF Committed, CommittedAt
  <2>3. CASE writePost(c, ok)
    <3>1. r.pc = "verified" /\ uncommitted' = WrittenWith(PostFile(r)) /\ uncommitted = {}
      BY <1>0, <2>3 DEF writePost, PostFile, CallFits
    <3>2. uncommitted' = {PostFile(r)} \ Committed(r.path)
      BY <1>3, <3>1 DEF WrittenWith
    <3>3. CASE PostFile(r) \in Committed(r.path)
      <4>1. uncommitted' = {}
        BY <3>2, <3>3
      <4>2. Committed(r.path) = {PostFile(r)}
        BY <1>2, <1>4, <2>1, <3>3, FileOf
      <4>3. Tree(r.path)' = Committed(r.path)'
        BY <4>1 DEF Tree
      <4> QED
        BY <2>2, <4>1, <4>2, <4>3
    <3>4. CASE PostFile(r) \notin Committed(r.path)
      <4>1. uncommitted' = {PostFile(r)}
        BY <3>2, <3>4
      <4>2. Tree(r.path)' = {PostFile(r)}
        BY <1>3, <4>1 DEF Tree
      <4> QED
        BY <1>3, <4>1, <4>2
    <3> QED
      BY <3>3, <3>4
  <2>4. CASE writeAssets(c, ok)
    <3> DEFINE i == Change("images", "page", r.version)
    <3>1. r.pc = "written" /\ uncommitted \subseteq FilesOf(r) /\ Tree(r.path) = {PostFile(r)}
      BY <1>0, <2>4 DEF writeAssets, CallFits
    <3>2. CASE uncommitted' = uncommitted
      <4>1. Tree(r.path)' = Tree(r.path)
        BY <2>2, <3>2 DEF Tree
      <4> QED
        BY <3>1, <3>2, <4>1
    <3>3. CASE r.source = "page" /\ uncommitted' = WrittenWith(i)
      <4>1. i.file = "images" /\ i \in FilesOf(r) /\ r.path # "images"
        BY <1>2, <3>3 DEF FilesOf, Change
      <4> HIDE DEF i
      <4>2. uncommitted' = {x \in uncommitted : x.file # "images"} \cup ({i} \ Committed("images"))
        BY <3>3, <4>1 DEF WrittenWith
      <4>3. \A x : x.file = r.path => (x \in uncommitted' <=> x \in uncommitted)
        BY <4>1, <4>2
      <4>4. Tree(r.path)' = Tree(r.path)
        BY <2>2, <4>3 DEF Tree
      <4> QED
        BY <3>1, <4>1, <4>2, <4>4
    <3> QED
      BY <1>0, <2>4, <3>2, <3>3 DEF writeAssets
  <2> QED
    BY <2>3, <2>4
<1>6. PICK pc \in {"written", "imaged", "failing"} : To(c, [r EXCEPT !.pc = pc])
  BY <1>0 DEF writePost, writeAssets, Fails
<1> DEFINE q == [r EXCEPT !.pc = pc]
<1>7. q \in PublishCall /\ q.pc = pc /\ q.source = r.source /\ q.id = r.id /\ q.path = r.path /\ q.version = r.version
  BY DEF PublishCall
<1>8. To(c, q)
  BY <1>6
<1> HIDE DEF q
<1>9. PostFile(q) = PostFile(r) /\ FilesOf(q) = FilesOf(r)
  BY <1>7 DEF PostFile, FilesOf
<1>10. CallFits(q)'
  <2>1. q.pc \in {"written", "imaged"} => uncommitted' \subseteq FilesOf(q) /\ Tree(q.path)' = {PostFile(q)}
    BY <1>5, <1>7, <1>9
  <2> QED
    BY <1>2, <1>7, <2>1 DEF CallFits
<1>11. pushed' \in 0..Len(log') /\ pushed <= pushed' /\ Grows /\ pushed' \in Nat
  BY <1>1 DEF PublishInv, PublishTyped, Grows
<1>12. \A k \in PublicationIds : RecordFits(publications[k])'
  BY <1>1, <1>11, RecordsKeep
<1>13. uncommitted' \in SUBSET Changes
  BY <1>3, <1>5
<1>14. publishing[c].pc \in InRepo /\ publications' \in [PublicationIds -> Publication]
  BY <1>0, <1>1 DEF InRepo, PublishInv, PublishTyped
<1>15. \A n \in 1..Len(log') : Whole(log'[n])
  BY <1>1, <1>4
<1> QED
  BY <1>1, <1>7, <1>8, <1>10, <1>11, <1>12, <1>13, <1>14, <1>15, PublishMoves

LEMMA Commits ==
    ASSUME PublishInv, NEW c \in Publishers, NEW done \in BOOLEAN, NEW ok \in BOOLEAN, commit(c, done, ok)
    PROVE  PublishInv'
<1> USE PublishAssumption
<1>0. PICK r \in PublishCall : r = publishing[c] /\ CallFits(r)
  BY DEF PublishInv, PublishTyped
<1>1. /\ r.pc = "imaged" /\ (ok => done) /\ UNCHANGED <<version, publications, pushed>>
      /\ log' = IF done THEN Append(log, uncommitted) ELSE log
      /\ uncommitted' = IF done THEN {} ELSE uncommitted
      /\ IF ok THEN To(c, [r EXCEPT !.pc = "committed", !.commit = Len(log')]) ELSE To(c, [r EXCEPT !.pc = "failing"])
  BY <1>0 DEF commit, Fails
<1>2. r.path \in PostPaths /\ r.source \in Sources /\ r.id \in PublicationIds
      /\ uncommitted \in SUBSET FilesOf(r) /\ Tree(r.path) = {PostFile(r)}
  BY <1>0, <1>1 DEF CallFits
<1>3. Whole(uncommitted) /\ uncommitted \in SUBSET Changes
  BY <1>2, FilesFit, WholePart
<1>4. log \in Seq(SUBSET Changes) /\ \A m \in 1..Len(log) : Whole(log[m])
  BY DEF PublishInv, PublishTyped
<1>5. /\ log' \in Seq(SUBSET Changes) /\ Len(log') \in Nat /\ Grows
      /\ Len(log') = IF done THEN Len(log) + 1 ELSE Len(log)
  BY <1>1, <1>3, <1>4 DEF Grows
<1>6. \A m \in 1..Len(log') : Whole(log'[m])
  <2>1. CASE done
    <3>1. log' = Append(log, uncommitted)
      BY <1>1, <2>1
    <3>2. \A m \in 1..Len(log') : log'[m] = IF m = Len(log) + 1 THEN uncommitted ELSE log[m]
      BY <1>3, <1>4, <3>1
    <3>3. \A m \in 1..Len(log') : m # Len(log) + 1 => m \in 1..Len(log)
      BY <1>4, <1>5, <2>1
    <3> QED
      BY <1>3, <1>4, <3>2, <3>3
  <2>2. CASE ~done
    BY <1>1, <1>4, <2>2
  <2> QED
    BY <2>1, <2>2
<1>7. /\ pushed' \in 0..Len(log') /\ pushed <= pushed' /\ pushed' \in Nat /\ uncommitted' \in SUBSET Changes
      /\ publications' \in [PublicationIds -> Publication] /\ publishing[c].pc \in InRepo
  <2>1. pushed \in 0..Len(log) /\ Len(log) \in Nat
    BY DEF PublishInv, PublishTyped
  <2> QED
    BY <1>0, <1>1, <1>3, <1>5, <2>1 DEF PublishInv, PublishTyped, InRepo
<1>8. \A k \in PublicationIds : RecordFits(publications[k])'
  BY <1>1, <1>5, <1>7, RecordsKeep
<1>9. ASSUME NEW q \in PublishCall, To(c, q), CallFits(q)' PROVE PublishInv'
  BY <1>1, <1>5, <1>6, <1>7, <1>8, <1>9, PublishMoves
<1>10. CASE ok
  <2>1. PICK n \in Nat : n = Len(log')
    BY <1>5
  <2> DEFINE q == [r EXCEPT !.pc = "committed", !.commit = n]
  <2>2. q \in PublishCall /\ q.pc = "committed" /\ q.source = r.source /\ q.id = r.id /\ q.path = r.path
        /\ q.version = r.version /\ q.commit = n
    BY DEF PublishCall
  <2>3. To(c, q)
    BY <1>1, <1>10, <2>1
  <2> HIDE DEF q
  <2>4. log' = Append(log, uncommitted) /\ n = Len(log) + 1 /\ n > 0
    BY <1>1, <1>4, <1>5, <1>10, <2>1
  <2>5. FileAt(log', n, r.path) = Tree(r.path)
    <3>1. Committed(r.path) = FileAt(log, Len(log), r.path)
      BY DEF Committed, CommittedAt, FileAt
    <3>2. FileAt(log', n, r.path) = IF \E ch \in uncommitted : ch.file = r.path
                                   THEN {ch \in uncommitted : ch.file = r.path} ELSE FileAt(log, Len(log), r.path)
      BY <1>3, <1>4, <2>4, CommitTakes
    <3> QED
      BY <3>1, <3>2 DEF Tree
  <2>6. CommittedAt(q.commit, q.path)' = {PostFile(q)}
    <3>1. CommittedAt(q.commit, q.path)' = FileAt(log', q.commit, q.path)
      BY DEF CommittedAt, FileAt
    <3>2. PostFile(q) = PostFile(r)
      BY <2>2 DEF PostFile
    <3> QED
      BY <1>2, <2>2, <2>5, <3>1, <3>2
  <2>7. CallFits(q)'
    BY <1>2, <2>1, <2>2, <2>4, <2>6 DEF CallFits
  <2> QED
    BY <1>9, <2>2, <2>3, <2>7
<1>11. CASE ~ok
  <2> DEFINE q == [r EXCEPT !.pc = "failing"]
  <2>1. q \in PublishCall /\ q.pc = "failing" /\ q.source = r.source /\ q.id = r.id /\ q.path = r.path
    BY DEF PublishCall
  <2>2. To(c, q)
    BY <1>1, <1>11
  <2> HIDE DEF q
  <2>3. CallFits(q)'
    BY <1>2, <2>1 DEF CallFits
  <2> QED
    BY <1>9, <2>1, <2>2, <2>3
<1> QED
  BY <1>10, <1>11

LEMMA Pushes ==
    ASSUME PublishInv, NEW c \in Publishers, NEW done \in BOOLEAN, NEW ok \in BOOLEAN, push(c, done, ok)
    PROVE  PublishInv'
<1> USE PublishAssumption
<1>0. PICK r \in PublishCall : r = publishing[c] /\ CallFits(r)
  BY DEF PublishInv, PublishTyped
<1>1. /\ r.pc = "committed" /\ (ok => done) /\ UNCHANGED <<version, publications, log, uncommitted>>
      /\ pushed' = IF done THEN Len(log) ELSE pushed
      /\ To(c, [r EXCEPT !.pc = IF ok THEN "saving" ELSE "failing"])
  BY <1>0 DEF push, Fails
<1>2. r.path \in PostPaths /\ r.source \in Sources /\ r.id \in PublicationIds
      /\ r.commit = Len(log) /\ Len(log) > 0 /\ CommittedAt(r.commit, r.path) = {PostFile(r)}
  BY <1>0, <1>1 DEF CallFits
<1>3. pushed \in 0..Len(log) /\ Len(log) \in Nat
  BY DEF PublishInv, PublishTyped
<1>4. pushed' \in 0..Len(log') /\ pushed <= pushed' /\ pushed' \in Nat
  BY <1>1, <1>3
<1>5. Grows /\ uncommitted' \in SUBSET Changes /\ publications' \in [PublicationIds -> Publication]
      /\ publishing[c].pc \in InRepo /\ \A n \in 1..Len(log') : Whole(log'[n])
  BY <1>0, <1>1 DEF Grows, PublishInv, PublishTyped, InRepo
<1>6. \A k \in PublicationIds : RecordFits(publications[k])'
  BY <1>1, <1>4, <1>5, RecordsKeep
<1> DEFINE pc == IF ok THEN "saving" ELSE "failing"
           q == [r EXCEPT !.pc = pc]
<1>7. pc \in {"saving", "failing"} /\ (pc = "saving" => ok)
  OBVIOUS
<1>8. To(c, q)
  BY <1>1
<1>9. q \in PublishCall /\ q.pc = pc /\ q.source = r.source /\ q.id = r.id /\ q.path = r.path
      /\ q.version = r.version /\ q.commit = r.commit
  BY <1>7 DEF PublishCall
<1> HIDE DEF q, pc
<1>10. CallFits(q)'
  <2>1. CommittedAt(q.commit, q.path)' = {PostFile(q)}
    <3>1. CommittedAt(q.commit, q.path)' = CommittedAt(q.commit, q.path)
      BY <1>1 DEF CommittedAt
    <3>2. PostFile(q) = PostFile(r)
      BY <1>9 DEF PostFile
    <3> QED
      BY <1>2, <1>9, <3>1, <3>2
  <2>2. q.pc = "saving" => q.commit \in 1..pushed'
    BY <1>1, <1>2, <1>3, <1>7, <1>9
  <2> QED
    BY <1>2, <1>7, <1>9, <2>1, <2>2 DEF CallFits
<1> QED
  BY <1>1, <1>4, <1>5, <1>6, <1>8, <1>9, <1>10, PublishMoves

LEMMA Saves ==
    ASSUME PublishInv, NEW c \in Publishers, Save(c)
    PROVE  PublishInv'
<1> USE PublishAssumption
<1>0. PICK r \in PublishCall : r = publishing[c] /\ CallFits(r)
  BY DEF PublishInv, PublishTyped
<1> DEFINE row == [source |-> r.source, path |-> r.path, version |-> r.version,
                   status |-> IF r.pc = "saving" THEN "published" ELSE "failed",
                   commit |-> IF r.pc = "saving" THEN r.commit ELSE 0]
<1>1. /\ r.pc \in {"saving", "failing"} /\ UNCHANGED <<version, log, pushed, uncommitted>>
      /\ publications' = [publications EXCEPT ![r.id] = row] /\ To(c, Answered)
  BY <1>0 DEF Save
<1>2. r.path \in PostPaths /\ r.source \in Sources /\ r.id \in PublicationIds
  BY <1>0, <1>1 DEF CallFits
<1>3. row \in Publication /\ row.path = r.path /\ row.source = r.source /\ row.version = r.version
      /\ (row.status = "published" => r.pc = "saving" /\ row.commit = r.commit)
  BY DEF Publication, PublishCall
<1> HIDE DEF row
<1>4. RecordFits(row)
  <2>1. PostFile(row) = PostFile(r)
    BY <1>3 DEF PostFile
  <2> QED
    BY <1>0, <1>2, <1>3, <2>1 DEF RecordFits, CallFits
<1>5. /\ publications' \in [PublicationIds -> Publication]
      /\ \A i \in PublicationIds : publications'[i] = IF i = r.id THEN row ELSE publications[i]
  BY <1>1, <1>2, <1>3 DEF PublishInv, PublishTyped
<1>6. \A p : RecordFits(p)' <=> RecordFits(p)
  BY <1>1 DEF RecordFits, CommittedAt
<1>7. \A i \in PublicationIds : RecordFits(publications[i])'
  <2> SUFFICES ASSUME NEW i \in PublicationIds PROVE RecordFits(publications[i])'
    OBVIOUS
  <2>1. PICK p : p = publications'[i]
    OBVIOUS
  <2>2. RecordFits(p)
    BY <1>4, <1>5, <2>1 DEF PublishInv
  <2>3. RecordFits(p)'
    BY <1>6, <2>2
  <2> QED
    BY <2>1, <2>3
<1>8. pushed' \in 0..Len(log') /\ pushed <= pushed' /\ Grows /\ uncommitted' \in SUBSET Changes
      /\ \A n \in 1..Len(log') : Whole(log'[n])
  BY <1>1 DEF PublishInv, PublishTyped, Grows
<1>9. CallFits(Answered)'
  BY Answers DEF CallFits
<1> QED
  BY <1>1, <1>5, <1>7, <1>8, <1>9, Answers, PublishMoves DEF InRepo

LEMMA PublishStep == PublishInv /\ [PublishNext]_publishVars => PublishInv'
<1> SUFFICES ASSUME PublishInv, [PublishNext]_publishVars PROVE PublishInv'
  OBVIOUS
<1> USE PublishAssumption
<1>0. ASSUME UNCHANGED <<publications, log, pushed>>, version' \in [Sources -> 1..MaxVersion],
             uncommitted' \in SUBSET Changes, publishing' \in [Publishers -> PublishCall],
             \A c \in Publishers : /\ publishing'[c].pc \in InRepo => publishing'[c] = publishing[c]
                                  /\ CallFits(publishing[c])'
      PROVE  PublishInv'
  <2>1. PublishTyped'
    BY <1>0 DEF PublishInv, PublishTyped
  <2>2. \A i \in PublicationIds : RecordFits(publications[i])'
    BY <1>0 DEF PublishInv, RecordFits, CommittedAt
  <2> QED
    BY <1>0, <2>1, <2>2 DEF PublishInv
<1>1. CASE PublisherStops
  <2>1. UNCHANGED <<version, publications, log, pushed, uncommitted>>
        /\ publishing' = [c \in Publishers |-> IF c \in Active THEN Answered ELSE publishing[c]]
    BY <1>1 DEF PublisherStops
  <2>2. \A c \in Publishers : publishing'[c] \in {Answered, publishing[c]}
    BY <2>1
  <2>3. ASSUME NEW c \in Publishers PROVE CallFits(publishing[c])'
    <3>1. PICK q : q = publishing'[c]
      OBVIOUS
    <3>2. q = Answered \/ CallFits(q)
      BY <2>2, <3>1 DEF PublishInv
    <3>3. CallFits(q)'
      <4>1. CASE q = Answered
        BY <4>1, Answers DEF CallFits
      <4>2. CASE CallFits(q)
        BY <2>1, <4>2 DEF CallFits, CommittedAt, Tree, Committed
      <4> QED
        BY <3>2, <4>1, <4>2
    <3> QED
      BY <3>1, <3>3
  <2>4. publishing' \in [Publishers -> PublishCall] /\ version' \in [Sources -> 1..MaxVersion] /\ uncommitted' \in SUBSET Changes
    BY <2>1, Answers DEF PublishInv, PublishTyped
  <2> QED
    BY <1>0, <2>1, <2>2, <2>3, <2>4, Answers DEF InRepo
<1>2. CASE Restore
  <2>1. UNCHANGED <<version, publications, log, pushed, publishing>> /\ uncommitted' = {} /\ ~Locked
    BY <1>2 DEF Restore
  <2>2. ASSUME NEW c \in Publishers PROVE CallFits(publishing[c])'
    <3>1. PICK q : q = publishing[c]
      OBVIOUS
    <3>2. CallFits(q) /\ q.pc \notin InRepo
      BY <2>1, <3>1 DEF PublishInv, Locked
    <3>3. CallFits(q)'
      BY <2>1, <3>2 DEF CallFits, CommittedAt, InRepo
    <3> QED
      BY <2>1, <3>1, <3>3
  <2>3. publishing' \in [Publishers -> PublishCall] /\ version' \in [Sources -> 1..MaxVersion] /\ uncommitted' \in SUBSET Changes
    BY <2>1 DEF PublishInv, PublishTyped
  <2> QED
    BY <1>0, <2>1, <2>2, <2>3
<1>3. ASSUME UNCHANGED <<publications, log, pushed, uncommitted, publishing>>, version' \in [Sources -> 1..MaxVersion]
      PROVE  PublishInv'
  <2>2. ASSUME NEW c \in Publishers PROVE CallFits(publishing[c])'
    <3>1. PICK q : q = publishing[c]
      OBVIOUS
    <3>2. CallFits(q)
      BY <3>1 DEF PublishInv
    <3>3. CallFits(q)'
      BY <1>3, <3>2 DEF CallFits, CommittedAt, Tree, Committed
    <3> QED
      BY <1>3, <3>1, <3>3
  <2>3. publishing' \in [Publishers -> PublishCall] /\ uncommitted' \in SUBSET Changes
    BY <1>3 DEF PublishInv, PublishTyped
  <2> QED
    BY <1>0, <1>3, <2>2, <2>3
<1>4. ASSUME NEW s \in Sources, EditSource(s) PROVE PublishInv'
  <2>1. version[s] \in Nat /\ version[s] < MaxVersion /\ version' = [version EXCEPT ![s] = version[s] + 1]
    BY <1>4 DEF EditSource, PublishInv, PublishTyped
  <2>2. version[s] + 1 \in 1..MaxVersion
    BY <2>1
  <2>3. version' \in [Sources -> 1..MaxVersion]
    BY <2>1, <2>2 DEF PublishInv, PublishTyped
  <2> QED
    BY <1>3, <1>4, <2>3 DEF EditSource
<1>5. CASE UNCHANGED publishVars
  BY <1>3, <1>5 DEF publishVars, PublishInv, PublishTyped
<1> QED
  BY <1>1, <1>2, <1>4, <1>5, Preparations, Writes, Commits, Pushes, Saves DEF PublishNext

\* For any number of requests, paths and versions, whichever git command fails,
\* takes effect unnoticed or is cut off: no commit mixes publications, and a
\* record that says published is backed by what origin has (GitPublisher.Publish,
\* doc-publish/internal/git.go; Service.Publish, service.go).
THEOREM PublicationsBacked == PublishSpec => []PublicationsAreBacked
<1>1. PublishInv => PublicationsAreBacked
  <2> SUFFICES ASSUME PublishInv PROVE PublicationsAreBacked
    OBVIOUS
  <2> DEFINE holders == {c \in Publishers : publishing[c].pc \in InRepo}
  <2>1. Cardinality(holders) <= 1
    <3>1. CASE holders = {}
      BY <3>1, FS_EmptySet
    <3>2. CASE holders # {}
      <4>1. PICK c : holders = {c}
        BY <3>2 DEF PublishInv
      <4>2. Cardinality({c}) = 1
        BY FS_Singleton
      <4> HIDE DEF holders
      <4> QED
        BY <4>1, <4>2
    <3> QED
      BY <3>1, <3>2
  <2>2. PublishTypeOK
    BY <2>1 DEF PublishTypeOK, PublishInv, PublishTyped
  <2>3. CommitsAreWhole
    <3> SUFFICES ASSUME NEW n \in DOMAIN log
                 PROVE  /\ \A a, b \in log[n] : a.source = b.source /\ a.version = b.version
                        /\ Cardinality({ch \in log[n] : ch.file \in PostPaths}) <= 1
      BY DEF CommitsAreWhole
    <3> DEFINE C == log[n]
               postFiles == {ch \in C : ch.file \in PostPaths}
    <3>1. Whole(C)
      BY DEF PublishInv, PublishTyped
    <3> HIDE DEF C
    <3>2. CASE postFiles = {}
      BY <3>1, <3>2, FS_EmptySet DEF Whole, C
    <3>3. CASE postFiles # {}
      <4>1. PICK ch : postFiles = {ch}
        BY <3>1, <3>3 DEF Whole
      <4>2. Cardinality(postFiles) <= 1
        BY <4>1, FS_Singleton
      <4> QED
        BY <3>1, <4>2 DEF Whole, C
    <3> QED
      BY <3>2, <3>3
  <2>4. \A i \in PublicationIds : RecordFits(publications[i])
    BY DEF PublishInv
  <2> QED
    BY <2>2, <2>3, <2>4 DEF PublicationsAreBacked, RecordFits, PostFile
<1> QED
  BY PublishInitially, PublishStep, <1>1, PTL DEF PublishSpec

-----------------------------------------------------------------------------
(* The relay between Board and GitHub                                        *)

\* The operator runs one sync at a time (docs/board-github-relay.md:3, "manually
\* triggered"); nothing in the service keeps a second one out.
OneSync == \A s, t \in Syncs : s = t

Linked(p, i) == issues[i] = p \/ postKey[p] = i

\* Issues and posts pair up, mappings are of pairs, a comment and an issue comment
\* that belong together are on a pair.
RelayShape ==
    /\ RelayTypeOK
    /\ \A p \in Posts, i, j \in Issues : Linked(p, i) /\ Linked(p, j) => i = j
    /\ \A p, q \in Posts, i \in Issues : Linked(p, i) /\ Linked(q, i) => p = q
    /\ \A p \in Posts : postKey[p] \in Issues => issues[postKey[p]] = External
    /\ \A p \in Posts, i \in Issues : posts[p] = "absent" => ~Linked(p, i)
    /\ \A p \in Posts, i \in Issues : <<p, i>> \in postMap => Linked(p, i)
    /\ \A c \in Comments, r \in Remotes : commentKey[c] = r => <<comments[c], remotes[r]>> \in postMap
    /\ \A c \in Comments, r \in Remotes : <<c, r>> \in commentMap =>
          /\ remoteMark[r] = c \/ commentKey[c] = r
          /\ <<comments[c], remotes[r]>> \in postMap

Importing == {"importIssues", "createPost", "savePost"}
Exporting == {"exportPosts", "createIssue", "saveIssue", "listComments", "exportComments",
              "createRemote", "saveRemote"}
OnPair == {"listComments", "exportComments", "createRemote", "saveRemote",
           "importRemotes", "recover", "createComment", "saveComment"}

\* An issue the relay made before this sync was listed by it; when the export
\* starts, every imported post has its mapping.
ListsFit(y) ==
    /\ y.pc \in Importing =>
          /\ \A j \in Issues : issues[j] \in Posts => j \in y.listed
          /\ \A i \in y.left : issues[i] = External
          /\ \A p \in Posts : postKey[p] \in Issues =>
                <<p, postKey[p]>> \in postMap \/ postKey[p] \in y.left \/ (y.pc # "importIssues" /\ y.issue = postKey[p])
    /\ y.pc \in Exporting =>
          /\ \A p \in Posts : postKey[p] \in Issues => <<p, postKey[p]>> \in postMap
          /\ \A j \in Issues : issues[j] \in Posts =>
                j \in y.listed \/ <<issues[j], j>> \in postMap \/ (y.pc = "saveIssue" /\ y.issue = j)

\* The items in hand.
HandFits(y) ==
    /\ y.pc = "createPost" => y.issue \in Issues /\ issues[y.issue] = External
    /\ y.pc = "savePost" => y.post \in Posts /\ y.issue \in Issues /\ postKey[y.post] = y.issue
    /\ y.pc = "createIssue" => y.post \in Posts /\ posts[y.post] # "absent" /\ \A i \in Issues : ~Linked(y.post, i)
    /\ y.pc = "saveIssue" => y.post \in Posts /\ y.issue \in Issues /\ issues[y.issue] = y.post
    /\ y.pc \in OnPair => y.post \in Posts /\ y.issue \in Issues /\ <<y.post, y.issue>> \in postMap
    /\ y.pc \in {"exportComments", "createRemote", "saveRemote"} => \A c \in y.comments : comments[c] = y.post
    /\ y.pc \in {"createRemote", "saveRemote"} => y.comment \in Comments /\ comments[y.comment] = y.post
    /\ y.pc \in {"importRemotes", "recover", "createComment", "saveComment"} => \A r \in y.remotes : remotes[r] = y.issue
    /\ y.pc \in {"saveRemote", "recover", "createComment", "saveComment"} => y.remote \in Remotes /\ remotes[y.remote] = y.issue
    /\ y.pc \in {"saveRemote", "recover"} => y.comment \in Comments /\ remoteMark[y.remote] = y.comment
    /\ y.pc = "saveComment" => /\ y.comment \in Comments /\ comments[y.comment] = y.post
                               /\ remoteMark[y.remote] = y.comment \/ commentKey[y.comment] = y.remote

SyncFits(y) == ListsFit(y) /\ HandFits(y)

RelayInv == OneSync /\ RelayShape /\ \A s \in Syncs : SyncFits(sync[s])

RelayTables == <<boardVars, githubVars, postMap, commentMap>>

LEMMA IdleFits == NoSync \in Sync /\ NoSync.pc = "idle" /\ SyncFits(NoSync) /\ SyncFits(NoSync)'
<1>1. NoSync \in Sync /\ NoSync.pc = "idle"
  BY DEF NoSync, Sync
<1> QED
  BY <1>1 DEF SyncFits, ListsFit, HandFits, Importing, Exporting, OnPair

LEMMA RelayInitially == OneSync /\ RelayInit => RelayInv
<1> SUFFICES ASSUME OneSync, RelayInit PROVE RelayInv
  OBVIOUS
<1> USE RelayAssumption
<1>1. RelayTypeOK
  BY IdleFits DEF RelayInit, RelayTypeOK
<1>2. \A p \in Posts, i \in Issues : ~Linked(p, i)
  BY DEF RelayInit, Linked
<1>3. RelayShape
  BY <1>1, <1>2 DEF RelayInit, RelayShape
<1> QED
  BY <1>3, IdleFits DEF RelayInit, RelayInv

\* The one sync becomes y.
LEMMA Moves ==
    ASSUME RelayInv, NEW s \in Syncs, NEW y \in Sync, Becomes(s, y), RelayShape', SyncFits(y)'
    PROVE  RelayInv'
<1>1. sync' = [sync EXCEPT ![s] = y] /\ sync \in [Syncs -> Sync]
  BY DEF Becomes, RelayInv, RelayShape, RelayTypeOK
<1>2. \A t \in Syncs : sync'[t] = y
  BY <1>1 DEF RelayInv, OneSync
<1> QED
  BY <1>2 DEF RelayInv, OneSync

\* A step of the sync that only reads.
LEMMA Reads ==
    ASSUME RelayInv, NEW s \in Syncs, NEW y \in Sync, Becomes(s, y), UNCHANGED RelayTables,
           faults' \in 0..MaxFaults, SyncFits(y)
    PROVE  RelayInv'
<1>1. UNCHANGED <<posts, postKey, comments, purged, commentKey, issues, remotes, remoteMark, postMap, commentMap>>
  BY DEF RelayTables, boardVars, githubVars
<1>2. sync' \in [Syncs -> Sync]
  BY DEF Becomes, RelayInv, RelayShape, RelayTypeOK
<1>3. RelayShape'
  <2>1. RelayTypeOK'
    BY <1>1, <1>2 DEF RelayInv, RelayShape, RelayTypeOK
  <2> QED
    BY <1>1, <2>1 DEF RelayInv, RelayShape, Linked
<1>4. SyncFits(y)'
  <2>1. ListsFit(y)'
    BY <1>1 DEF SyncFits, ListsFit
  <2>2. HandFits(y)'
    BY <1>1 DEF SyncFits, HandFits, Linked
  <2> QED
    BY <2>1, <2>2 DEF SyncFits
<1> QED
  BY <1>3, <1>4, Moves

LEMMA Ended ==
    ASSUME RelayInv, NEW s \in Syncs, Ends(s), UNCHANGED RelayTables, faults' \in 0..MaxFaults
    PROVE  RelayInv'
BY IdleFits, Reads DEF Ends

LEMMA Faults == RelayInv => faults \in 0..MaxFaults
BY DEF RelayInv, RelayShape, RelayTypeOK

LEMMA MappedTo ==
    ASSUME NEW A, NEW B, NEW M \in SUBSET (A \X B)
    PROVE  /\ \A g : MappedGitHub(M, g) => g \in B /\ \E a \in A : <<a, g>> \in M
           /\ \A b : MappedBoard(M, b) => b \in A /\ \E g \in B : <<b, g>> \in M
<1>1. \A m \in M : m = <<m[1], m[2]>> /\ m[1] \in A /\ m[2] \in B
  OBVIOUS
<1> QED
  BY <1>1 DEF MappedGitHub, MappedBoard

LEMMA Lists ==
    ASSUME RelayInv, NEW s \in Syncs
    PROVE  /\ ListIssues(s) => RelayInv'
           /\ \A i \in Issues : ImportIssue(s, i) => RelayInv'
           /\ ListPosts(s) => RelayInv'
           /\ \A p \in Posts : ExportPost(s, p) => RelayInv'
           /\ ExportedAll(s) => RelayInv'
<1> USE RelayAssumption
<1>0. PICK y \in Sync : y = sync[s] /\ SyncFits(y)
  BY DEF RelayInv, RelayShape, RelayTypeOK
<1>1. ASSUME ListIssues(s) PROVE RelayInv'
  <2>1. PICK L \in SUBSET Issues : L = {i \in Issues : issues[i] # NoItem}
    OBVIOUS
  <2>2. PICK E \in SUBSET Issues : E = {i \in L : issues[i] = External}
    OBVIOUS
  <2> DEFINE z == [NoSync EXCEPT !.pc = "importIssues", !.listed = L, !.left = E]
  <2>3. Becomes(s, z) /\ UNCHANGED RelayTables /\ faults' = faults
    BY <1>1, <2>1, <2>2 DEF ListIssues, RelayTables
  <2>4. z \in Sync /\ z.pc = "importIssues" /\ z.listed = L /\ z.left = E
    BY DEF NoSync, Sync
  <2> HIDE DEF z
  <2>5. ListsFit(z)
    <3>1. \A j \in Issues : issues[j] \in Posts => j \in L
      BY <2>1
    <3>2. \A p \in Posts : postKey[p] \in Issues => postKey[p] \in E
      BY <2>1, <2>2 DEF RelayInv, RelayShape
    <3> QED
      BY <2>2, <2>4, <3>1, <3>2 DEF ListsFit, Exporting
  <2>6. HandFits(z)
    BY <2>4 DEF HandFits, OnPair
  <2> QED
    BY <2>3, <2>4, <2>5, <2>6, Faults, Reads DEF SyncFits
<1>2. ASSUME NEW i \in Issues, ImportIssue(s, i) PROVE RelayInv'
  <2> DEFINE u == [y EXCEPT !.left = @ \ {i}]
             v == [u EXCEPT !.pc = "createPost", !.issue = i]
  <2>1. y.pc = "importIssues" /\ i \in y.left /\ UNCHANGED RelayTables /\ faults' = faults
        /\ Becomes(s, IF MappedGitHub(postMap, i) THEN u ELSE v)
    BY <1>0, <1>2 DEF ImportIssue, At, RelayTables
  <2>2. /\ \A j \in Issues : issues[j] \in Posts => j \in y.listed
        /\ \A j \in y.left : issues[j] = External
        /\ \A p \in Posts : postKey[p] \in Issues => <<p, postKey[p]>> \in postMap \/ postKey[p] \in y.left
    BY <1>0, <2>1 DEF SyncFits, ListsFit, Importing
  <2>3. CASE MappedGitHub(postMap, i)
    <3>1. u \in Sync /\ u.pc = "importIssues" /\ u.listed = y.listed /\ u.left = y.left \ {i}
      BY <2>1 DEF Sync
    <3>2. Becomes(s, u)
      BY <2>1, <2>3
    <3> HIDE DEF u
    <3>3. \A p \in Posts : postKey[p] = i => <<p, i>> \in postMap
      <4>1. PICK q \in Posts : <<q, i>> \in postMap
        BY <2>3, MappedTo DEF RelayInv, RelayShape, RelayTypeOK
      <4> QED
        BY <4>1 DEF RelayInv, RelayShape, Linked
    <3>4. ListsFit(u)
      BY <2>2, <3>1, <3>3 DEF ListsFit, Exporting
    <3>5. HandFits(u)
      BY <3>1 DEF HandFits, OnPair
    <3> QED
      BY <2>1, <3>1, <3>2, <3>4, <3>5, Faults, Reads DEF SyncFits
  <2>4. CASE ~MappedGitHub(postMap, i)
    <3>1. v \in Sync /\ v.pc = "createPost" /\ v.listed = y.listed /\ v.left = y.left \ {i} /\ v.issue = i
      BY <2>1 DEF Sync
    <3>2. Becomes(s, v)
      BY <2>1, <2>4
    <3> HIDE DEF v
    <3>4. ListsFit(v)
      BY <2>2, <3>1 DEF ListsFit, Exporting
    <3>5. HandFits(v)
      BY <2>1, <2>2, <3>1 DEF HandFits, OnPair
    <3> QED
      BY <2>1, <3>1, <3>2, <3>4, <3>5, Faults, Reads DEF SyncFits
  <2> QED
    BY <2>3, <2>4
<1>3. ASSUME ListPosts(s) PROVE RelayInv'
  <2>1. PICK P \in SUBSET Posts : P = {p \in Posts : posts[p] = "active"}
    OBVIOUS
  <2> DEFINE z == [y EXCEPT !.pc = "exportPosts", !.posts = P]
  <2>2. y.pc = "importIssues" /\ y.left = {} /\ UNCHANGED RelayTables /\ faults' = faults /\ Becomes(s, z)
    BY <1>0, <1>3, <2>1 DEF ListPosts, At, RelayTables
  <2>3. z \in Sync /\ z.pc = "exportPosts" /\ z.listed = y.listed
    BY DEF Sync
  <2> HIDE DEF z
  <2>4. ListsFit(z)
    BY <1>0, <2>2, <2>3 DEF SyncFits, ListsFit, Importing
  <2>5. HandFits(z)
    BY <2>3 DEF HandFits, OnPair
  <2> QED
    BY <2>2, <2>3, <2>4, <2>5, Faults, Reads DEF SyncFits
<1>4. ASSUME NEW p \in Posts, ExportPost(s, p) PROVE RelayInv'
  <2> DEFINE u == [y EXCEPT !.posts = @ \ {p}]
             marked == {i \in y.listed : issues[i] = p}
  <2>1. /\ y.pc = "exportPosts" /\ UNCHANGED RelayTables /\ faults' = faults
        /\ IF posts[p] # "active" THEN Ends(s)
           ELSE IF MappedBoard(postMap, p)
           THEN Becomes(s, [u EXCEPT !.pc = "listComments", !.post = p, !.issue = IssueOf(p)])
           ELSE IF marked # {}
           THEN \E i \in marked : Becomes(s, [u EXCEPT !.pc = "saveIssue", !.post = p, !.issue = i])
           ELSE Becomes(s, [u EXCEPT !.pc = "createIssue", !.post = p])
    BY <1>0, <1>4 DEF ExportPost, At, RelayTables
  <2>2. /\ \A q \in Posts : postKey[q] \in Issues => <<q, postKey[q]>> \in postMap
        /\ \A j \in Issues : issues[j] \in Posts => j \in y.listed \/ <<issues[j], j>> \in postMap
    BY <1>0, <2>1 DEF SyncFits, ListsFit, Exporting
  <2>3. CASE posts[p] # "active"
    BY <2>1, <2>3, Faults, Ended
  <2>4. CASE posts[p] = "active" /\ MappedBoard(postMap, p)
    <3>1. PICK i \in Issues : i = IssueOf(p) /\ <<p, i>> \in postMap
      <4>0. postMap \in SUBSET (Posts \X Issues)
        BY DEF RelayInv, RelayShape, RelayTypeOK
      <4>1. \E i \in Issues : <<p, i>> \in postMap
        BY <2>4, <4>0, MappedTo
      <4> QED
        BY <4>1 DEF IssueOf
    <3> DEFINE z == [u EXCEPT !.pc = "listComments", !.post = p, !.issue = i]
    <3>2. z \in Sync /\ z.pc = "listComments" /\ z.listed = y.listed /\ z.post = p /\ z.issue = i
      BY DEF Sync
    <3>3. Becomes(s, z)
      BY <2>1, <2>4, <3>1
    <3> HIDE DEF z
    <3>4. ListsFit(z)
      BY <2>2, <3>2 DEF ListsFit, Importing
    <3>5. HandFits(z)
      BY <3>1, <3>2 DEF HandFits, OnPair
    <3> QED
      BY <2>1, <3>2, <3>3, <3>4, <3>5, Faults, Reads DEF SyncFits
  <2>5. CASE posts[p] = "active" /\ ~MappedBoard(postMap, p) /\ marked # {}
    <3>1. PICK i \in marked : Becomes(s, [u EXCEPT !.pc = "saveIssue", !.post = p, !.issue = i])
      BY <2>1, <2>5
    <3> DEFINE z == [u EXCEPT !.pc = "saveIssue", !.post = p, !.issue = i]
    <3>2. i \in Issues /\ issues[i] = p
      BY DEF Sync
    <3>3. z \in Sync /\ z.pc = "saveIssue" /\ z.listed = y.listed /\ z.post = p /\ z.issue = i
      BY <3>2 DEF Sync
    <3>4. Becomes(s, z)
      BY <3>1
    <3> HIDE DEF z
    <3>5. ListsFit(z)
      BY <2>2, <3>3 DEF ListsFit, Importing
    <3>6. HandFits(z)
      BY <3>2, <3>3 DEF HandFits, OnPair
    <3> QED
      BY <2>1, <3>3, <3>4, <3>5, <3>6, Faults, Reads DEF SyncFits
  <2>6. CASE posts[p] = "active" /\ ~MappedBoard(postMap, p) /\ marked = {}
    <3> DEFINE z == [u EXCEPT !.pc = "createIssue", !.post = p]
    <3>1. z \in Sync /\ z.pc = "createIssue" /\ z.listed = y.listed /\ z.post = p
      BY DEF Sync
    <3>2. Becomes(s, z)
      BY <2>1, <2>6
    <3> HIDE DEF z
    <3>3. \A i \in Issues : ~Linked(p, i)
      <4> SUFFICES ASSUME NEW i \in Issues, Linked(p, i) PROVE FALSE
        OBVIOUS
      <4>1. \A j : <<p, j>> \notin postMap
        <5> SUFFICES ASSUME NEW j, <<p, j>> \in postMap PROVE FALSE
          OBVIOUS
        <5>1. <<p, j>>[1] = p
          OBVIOUS
        <5> QED
          BY <2>6, <5>1 DEF MappedBoard
      <4>2. issues[i] # p
        BY <2>2, <2>6, <4>1
      <4>3. postKey[p] # i
        BY <2>2, <4>1
      <4> QED
        BY <4>2, <4>3 DEF Linked
    <3>4. ListsFit(z)
      BY <2>2, <3>1 DEF ListsFit, Importing
    <3>5. HandFits(z)
      BY <2>6, <3>1, <3>3 DEF HandFits, OnPair
    <3> QED
      BY <2>1, <3>1, <3>2, <3>4, <3>5, Faults, Reads DEF SyncFits
  <2> QED
    BY <2>3, <2>4, <2>5, <2>6
<1>5. ASSUME ExportedAll(s) PROVE RelayInv'
  <2> DEFINE z == [y EXCEPT !.pc = "importComments", !.left = y.listed]
  <2>1. UNCHANGED RelayTables /\ faults' = faults /\ Becomes(s, z)
    BY <1>0, <1>5 DEF ExportedAll, RelayTables
  <2>2. z \in Sync /\ z.pc = "importComments"
    BY DEF Sync
  <2> HIDE DEF z
  <2>3. SyncFits(z)
    BY <2>2 DEF SyncFits, ListsFit, HandFits, Importing, Exporting, OnPair
  <2> QED
    BY <2>1, <2>2, <2>3, Faults, Reads
<1> QED
  BY <1>1, <1>2, <1>3, <1>4, <1>5

LEMMA CommentLists ==
    ASSUME RelayInv, NEW s \in Syncs
    PROVE  /\ ListComments(s) => RelayInv'
           /\ \A c \in Comments : ExportComment(s, c) => RelayInv'
           /\ ExportedPost(s) => RelayInv'
           /\ \A i \in Issues : ListIssueComments(s, i) => RelayInv'
           /\ \A r \in Remotes : ImportRemote(s, r) => RelayInv'
           /\ RecoverCommentMapping(s) => RelayInv'
           /\ ImportedIssue(s) => RelayInv'
<1> USE RelayAssumption
<1>0. PICK y \in Sync : y = sync[s] /\ SyncFits(y)
  BY DEF RelayInv, RelayShape, RelayTypeOK
<1>1. ASSUME ListComments(s) PROVE RelayInv'
  <2>1. PICK C \in SUBSET Comments : C = {c \in Comments \ purged : comments[c] = y.post}
    OBVIOUS
  <2> DEFINE z == [y EXCEPT !.pc = "exportComments", !.comments = C]
  <2>2. y.pc = "listComments" /\ UNCHANGED RelayTables /\ faults' = faults
        /\ IF posts[y.post] # "active" THEN Ends(s) ELSE Becomes(s, z)
    BY <1>0, <1>1, <2>1 DEF ListComments, At, RelayTables
  <2>3. z \in Sync /\ z.pc = "exportComments" /\ z.comments = C /\ z.post = y.post /\ z.issue = y.issue /\ z.listed = y.listed
    BY DEF Sync
  <2> HIDE DEF z
  <2>4. ListsFit(z)
    BY <1>0, <2>2, <2>3 DEF SyncFits, ListsFit, Importing, Exporting
  <2>5. HandFits(z)
    BY <1>0, <2>1, <2>2, <2>3 DEF SyncFits, HandFits, OnPair
  <2> QED
    BY <2>2, <2>3, <2>4, <2>5, Faults, Reads, Ended DEF SyncFits
<1>2. ASSUME NEW c \in Comments, ExportComment(s, c) PROVE RelayInv'
  <2>0. PICK z : z = IF MappedBoard(commentMap, c) THEN [y EXCEPT !.comments = @ \ {c}]
                     ELSE [y EXCEPT !.comments = @ \ {c}, !.pc = "createRemote", !.comment = c]
    OBVIOUS
  <2>1. y.pc = "exportComments" /\ c \in y.comments /\ UNCHANGED RelayTables /\ faults' = faults
    BY <1>0, <1>2 DEF ExportComment, At, RelayTables
  <2>2. Becomes(s, z)
    BY <1>0, <1>2, <2>0 DEF ExportComment
  <2>3. z \in Sync /\ z.pc \in {"exportComments", "createRemote"} /\ z.comments \subseteq y.comments /\ z.post = y.post
        /\ z.issue = y.issue /\ z.listed = y.listed /\ (z.pc = "createRemote" => z.comment = c)
    BY <2>0, <2>1 DEF Sync
  <2>4. ListsFit(z)
    BY <1>0, <2>1, <2>3 DEF SyncFits, ListsFit, Importing, Exporting
  <2>5. HandFits(z)
    BY <1>0, <2>1, <2>3 DEF SyncFits, HandFits, OnPair
  <2> QED
    BY <2>1, <2>2, <2>3, <2>4, <2>5, Faults, Reads DEF SyncFits
<1>3. ASSUME ExportedPost(s) PROVE RelayInv'
  <2> DEFINE z == [y EXCEPT !.pc = "exportPosts", !.post = NoItem, !.issue = NoItem]
  <2>1. y.pc = "exportComments" /\ UNCHANGED RelayTables /\ faults' = faults /\ Becomes(s, z)
    BY <1>0, <1>3 DEF ExportedPost, At, RelayTables
  <2>2. z \in Sync /\ z.pc = "exportPosts" /\ z.listed = y.listed
    BY DEF Sync
  <2> HIDE DEF z
  <2>3. ListsFit(z)
    BY <1>0, <2>1, <2>2 DEF SyncFits, ListsFit, Importing, Exporting
  <2>4. HandFits(z)
    BY <2>2 DEF HandFits, OnPair
  <2> QED
    BY <2>1, <2>2, <2>3, <2>4, Faults, Reads DEF SyncFits
<1>4. ASSUME NEW i \in Issues, ListIssueComments(s, i) PROVE RelayInv'
  <2>1. PICK R \in SUBSET Remotes : R = {r \in Remotes : remotes[r] = i}
    OBVIOUS
  <2> DEFINE u == [y EXCEPT !.left = @ \ {i}]
  <2>2. y.pc = "importComments" /\ UNCHANGED RelayTables /\ faults' = faults
    BY <1>0, <1>4 DEF ListIssueComments, At, RelayTables
  <2>3. CASE ~MappedGitHub(postMap, i)
    <3>1. u \in Sync /\ u.pc = "importComments"
      BY <2>2 DEF Sync
    <3>2. Becomes(s, u)
      BY <1>0, <1>4, <2>3 DEF ListIssueComments
    <3> HIDE DEF u
    <3>3. SyncFits(u)
      BY <3>1 DEF SyncFits, ListsFit, HandFits, Importing, Exporting, OnPair
    <3> QED
      BY <2>2, <3>1, <3>2, <3>3, Faults, Reads
  <2>4. CASE MappedGitHub(postMap, i)
    <3>1. PICK p \in Posts : p = PostOf(i) /\ <<p, i>> \in postMap
      <4>1. \E p \in Posts : <<p, i>> \in postMap
        BY <2>4, MappedTo DEF RelayInv, RelayShape, RelayTypeOK
      <4> QED
        BY <4>1 DEF PostOf
    <3> DEFINE z == [u EXCEPT !.pc = "importRemotes", !.issue = i, !.post = p, !.remotes = R]
    <3>2. z \in Sync /\ z.pc = "importRemotes" /\ z.issue = i /\ z.post = p /\ z.remotes = R
      BY DEF Sync
    <3>3. Becomes(s, z)
      BY <1>0, <1>4, <2>1, <2>4, <3>1 DEF ListIssueComments
    <3> HIDE DEF z
    <3>4. ListsFit(z)
      BY <3>2 DEF ListsFit, Importing, Exporting
    <3>5. HandFits(z)
      BY <2>1, <3>1, <3>2 DEF HandFits, OnPair
    <3> QED
      BY <2>2, <3>2, <3>3, <3>4, <3>5, Faults, Reads DEF SyncFits
  <2> QED
    BY <2>3, <2>4
<1>5. ASSUME NEW r \in Remotes, ImportRemote(s, r) PROVE RelayInv'
  <2>0. PICK z : z = IF MappedGitHub(commentMap, r) THEN [y EXCEPT !.remotes = @ \ {r}]
                     ELSE IF remoteMark[r] # NoItem
                     THEN [y EXCEPT !.remotes = @ \ {r}, !.pc = "recover", !.remote = r, !.comment = remoteMark[r]]
                     ELSE [y EXCEPT !.remotes = @ \ {r}, !.pc = "createComment", !.remote = r]
    OBVIOUS
  <2>1. y.pc = "importRemotes" /\ r \in y.remotes /\ UNCHANGED RelayTables /\ faults' = faults
    BY <1>0, <1>5 DEF ImportRemote, At, RelayTables
  <2>2. Becomes(s, z)
    BY <1>0, <1>5, <2>0 DEF ImportRemote
  <2>3. remoteMark[r] \in Comments \cup {NoItem}
    BY DEF RelayInv, RelayShape, RelayTypeOK
  <2>4. /\ z \in Sync /\ z.pc \in {"importRemotes", "recover", "createComment"} /\ z.remotes \subseteq y.remotes
        /\ z.post = y.post /\ z.issue = y.issue /\ (z.pc # "importRemotes" => z.remote = r)
        /\ z.pc = "recover" => z.comment = remoteMark[r] /\ remoteMark[r] # NoItem
    BY <2>0, <2>1, <2>3 DEF Sync
  <2>5. ListsFit(z)
    BY <2>4 DEF ListsFit, Importing, Exporting
  <2>6. HandFits(z)
    BY <1>0, <2>1, <2>3, <2>4 DEF SyncFits, HandFits, OnPair
  <2> QED
    BY <2>1, <2>2, <2>4, <2>5, <2>6, Faults, Reads DEF SyncFits
<1>6. ASSUME RecoverCommentMapping(s) PROVE RelayInv'
  <2> DEFINE z == [y EXCEPT !.pc = "saveComment"]
  <2>1. y.pc = "recover" /\ UNCHANGED RelayTables /\ faults' = faults
        /\ IF posts[y.post] # "active" \/ y.comment \in purged \/ comments[y.comment] # y.post THEN Ends(s) ELSE Becomes(s, z)
    BY <1>0, <1>6 DEF RecoverCommentMapping, At, RelayTables
  <2>2. CASE comments[y.comment] # y.post \/ posts[y.post] # "active" \/ y.comment \in purged
    BY <2>1, <2>2, Faults, Ended
  <2>3. CASE Becomes(s, z) /\ comments[y.comment] = y.post
    <3>1. z \in Sync /\ z.pc = "saveComment" /\ z.remotes = y.remotes /\ z.post = y.post /\ z.issue = y.issue
          /\ z.remote = y.remote /\ z.comment = y.comment
      BY DEF Sync
    <3>2. Becomes(s, z)
      BY <2>3
    <3> HIDE DEF z
    <3>3. ListsFit(z)
      BY <3>1 DEF ListsFit, Importing, Exporting
    <3>4. HandFits(z)
      BY <1>0, <2>1, <2>3, <3>1 DEF SyncFits, HandFits, OnPair
    <3> QED
      BY <2>1, <3>1, <3>2, <3>3, <3>4, Faults, Reads DEF SyncFits
  <2> QED
    BY <2>1, <2>2, <2>3
<1>7. ASSUME ImportedIssue(s) PROVE RelayInv'
  <2> DEFINE z == [y EXCEPT !.pc = "importComments", !.post = NoItem, !.issue = NoItem]
  <2>1. UNCHANGED RelayTables /\ faults' = faults /\ Becomes(s, z)
    BY <1>0, <1>7 DEF ImportedIssue, RelayTables
  <2>2. z \in Sync /\ z.pc = "importComments"
    BY DEF Sync
  <2> HIDE DEF z
  <2>3. SyncFits(z)
    BY <2>2 DEF SyncFits, ListsFit, HandFits, Importing, Exporting, OnPair
  <2> QED
    BY <2>1, <2>2, <2>3, Faults, Reads
<1> QED
  BY <1>1, <1>2, <1>3, <1>4, <1>5, <1>6, <1>7

LEMMA Endings ==
    ASSUME RelayInv, NEW s \in Syncs, CreateCommentRefused(s) \/ SyncDone(s) \/ SyncFails(s)
    PROVE  RelayInv'
<1>1. Ends(s) /\ UNCHANGED RelayTables
  BY DEF CreateCommentRefused, SyncDone, SyncFails, RelayTables
<1>2. MaxFaults \in Nat /\ faults \in 0..MaxFaults
  BY RelayAssumption, Faults
<1>3. faults' = faults \/ (faults > 0 /\ faults' = faults - 1)
  BY DEF CreateCommentRefused, SyncDone, SyncFails
<1>4. faults' \in 0..MaxFaults
  BY <1>2, <1>3
<1> QED
  BY <1>1, <1>4, Ended

-----------------------------------------------------------------------------
(* The steps that write                                                      *)

\* A mapping of a linked pair never takes the place of another one.
LEMMA PostMapGrows ==
    ASSUME RelayInv, NEW p \in Posts, NEW i \in Issues, Linked(p, i)
    PROVE  /\ Saved(postMap, p, i) = postMap \cup {<<p, i>>}
           /\ \A q \in Posts, j \in Issues : <<q, j>> \in Saved(postMap, p, i) => Linked(q, j)
<1>1. \A m \in postMap : m \in Posts \X Issues
  BY DEF RelayInv, RelayShape, RelayTypeOK
<1>2. \A m \in postMap : m[2] = i => m = <<p, i>>
  <2> SUFFICES ASSUME NEW m \in postMap, m[2] = i PROVE m = <<p, i>>
    OBVIOUS
  <2>1. PICK q \in Posts, j \in Issues : m = <<q, j>>
    BY <1>1
  <2>2. j = i
    BY <2>1
  <2>3. Linked(q, i)
    BY <2>1, <2>2 DEF RelayInv, RelayShape
  <2>4. q = p
    BY <2>3 DEF RelayInv, RelayShape
  <2> QED
    BY <2>1, <2>2, <2>4
<1>3. Saved(postMap, p, i) = postMap \cup {<<p, i>>}
  BY <1>2 DEF Saved, Rest
<1>4. \A q \in Posts, j \in Issues : <<q, j>> \in postMap \cup {<<p, i>>} => Linked(q, j)
  BY DEF RelayInv, RelayShape
<1> QED
  BY <1>3, <1>4

\* The mapping of a linked pair is saved, or was there.
LEMMA PostSaved ==
    ASSUME RelayInv, NEW s \in Syncs, NEW y \in Sync, y.post \in Posts, y.issue \in Issues, Linked(y.post, y.issue),
           NEW z \in Sync, Becomes(s, z), postMap' = Saved(postMap, y.post, y.issue),
           UNCHANGED <<boardVars, githubVars, commentMap, faults>>,
           SyncFits(z)'
    PROVE  RelayInv'
<1> DEFINE p == y.post
           i == y.issue
<1>1. UNCHANGED <<posts, postKey, comments, purged, commentKey, issues, remotes, remoteMark, commentMap, faults>>
  BY DEF boardVars, githubVars
<1>2. postMap' = postMap \cup {<<p, i>>} /\ \A q \in Posts, j \in Issues : <<q, j>> \in postMap' => Linked(q, j)
  BY PostMapGrows
<1>3. sync' \in [Syncs -> Sync]
  BY DEF Becomes, RelayInv, RelayShape, RelayTypeOK
<1>4. postMap' \subseteq Posts \X Issues /\ postMap \subseteq postMap'
  <2>1. <<p, i>> \in Posts \X Issues
    OBVIOUS
  <2> QED
    BY <1>2, <2>1 DEF RelayInv, RelayShape, RelayTypeOK
<1>5. RelayTypeOK'
  BY <1>1, <1>3, <1>4 DEF RelayInv, RelayShape, RelayTypeOK
<1>6. \A q, j : Linked(q, j)' <=> Linked(q, j)
  BY <1>1 DEF Linked
<1>7. RelayShape'
  BY <1>1, <1>2, <1>4, <1>5, <1>6 DEF RelayInv, RelayShape
<1> QED
  BY <1>7, Moves

LEMMA Mappings ==
    ASSUME RelayInv, NEW s \in Syncs
    PROVE  SavePost(s) \/ SaveIssue(s) => RelayInv'
<1> USE RelayAssumption
<1>0. PICK y \in Sync : y = sync[s] /\ SyncFits(y)
  BY DEF RelayInv, RelayShape, RelayTypeOK
<1>1. ASSUME UNCHANGED postMap, Ends(s), UNCHANGED <<boardVars, githubVars, commentMap, faults>> PROVE RelayInv'
  BY <1>1, Faults, Ended DEF RelayTables
<1>2. ASSUME SavePost(s) PROVE RelayInv'
  <2> DEFINE z == [y EXCEPT !.pc = "importIssues", !.post = NoItem, !.issue = NoItem]
  <2>1. y.pc = "savePost" /\ UNCHANGED <<boardVars, githubVars, commentMap, faults>>
        /\ \/ Ends(s) /\ UNCHANGED postMap
           \/ postMap' = Saved(postMap, y.post, y.issue) /\ Becomes(s, z)
    BY <1>0, <1>2 DEF SavePost, At
  <2>2. CASE postMap' = Saved(postMap, y.post, y.issue) /\ Becomes(s, z)
    <3>1. z \in Sync /\ z.pc = "importIssues" /\ z.listed = y.listed /\ z.left = y.left
      BY DEF Sync
    <3>2. Becomes(s, z)
      BY <2>2
    <3> HIDE DEF z
    <3>3. y.post \in Posts /\ y.issue \in Issues /\ postKey[y.post] = y.issue /\ Linked(y.post, y.issue)
      BY <1>0, <2>1 DEF SyncFits, HandFits, Linked
    <3>4. postMap' = postMap \cup {<<y.post, y.issue>>}
      BY <2>2, <3>3, PostMapGrows
    <3>5. UNCHANGED <<issues, postKey>>
      BY <2>1 DEF boardVars, githubVars
    <3>6. \A p \in Posts : postKey[p] = y.issue => p = y.post
      BY <3>3 DEF RelayInv, RelayShape, Linked
    <3>7. ListsFit(z)'
      <4>1. /\ \A j \in Issues : issues[j] \in Posts => j \in y.listed
            /\ \A i \in y.left : issues[i] = External
            /\ \A p \in Posts : postKey[p] \in Issues =>
                  <<p, postKey[p]>> \in postMap \/ postKey[p] \in y.left \/ y.issue = postKey[p]
        BY <1>0, <2>1 DEF SyncFits, ListsFit, Importing
      <4>2. \A p \in Posts : postKey[p] \in Issues => <<p, postKey[p]>> \in postMap' \/ postKey[p] \in y.left
        BY <3>4, <3>6, <4>1
      <4> QED
        BY <3>1, <3>5, <4>1, <4>2 DEF ListsFit, Exporting
    <3>8. HandFits(z)'
      BY <3>1 DEF HandFits, OnPair
    <3> QED
      BY <2>1, <2>2, <3>1, <3>2, <3>3, <3>7, <3>8, PostSaved DEF SyncFits
  <2> QED
    BY <1>1, <2>1, <2>2
<1>3. ASSUME SaveIssue(s) PROVE RelayInv'
  <2> DEFINE z == [y EXCEPT !.pc = "listComments"]
  <2>1. y.pc = "saveIssue" /\ UNCHANGED <<boardVars, githubVars, commentMap, faults>>
        /\ \/ Ends(s) /\ UNCHANGED postMap
           \/ postMap' = Saved(postMap, y.post, y.issue) /\ Becomes(s, z)
    BY <1>0, <1>3 DEF SaveIssue, At
  <2>2. CASE postMap' = Saved(postMap, y.post, y.issue) /\ Becomes(s, z)
    <3>1. z \in Sync /\ z.pc = "listComments" /\ z.listed = y.listed /\ z.post = y.post /\ z.issue = y.issue
      BY DEF Sync
    <3>2. Becomes(s, z)
      BY <2>2
    <3> HIDE DEF z
    <3>3. y.post \in Posts /\ y.issue \in Issues /\ issues[y.issue] = y.post /\ Linked(y.post, y.issue)
      BY <1>0, <2>1 DEF SyncFits, HandFits, Linked
    <3>4. postMap' = postMap \cup {<<y.post, y.issue>>}
      BY <2>2, <3>3, PostMapGrows
    <3>5. UNCHANGED <<issues, postKey>>
      BY <2>1 DEF boardVars, githubVars
    <3>6. ListsFit(z)'
      <4>1. /\ \A p \in Posts : postKey[p] \in Issues => <<p, postKey[p]>> \in postMap
            /\ \A j \in Issues : issues[j] \in Posts =>
                  j \in y.listed \/ <<issues[j], j>> \in postMap \/ y.issue = j
        BY <1>0, <2>1 DEF SyncFits, ListsFit, Exporting
      <4>2. \A j \in Issues : issues[j] \in Posts => j \in y.listed \/ <<issues[j], j>> \in postMap'
        BY <3>3, <3>4, <4>1
      <4>3. \A p \in Posts : postKey[p] \in Issues => <<p, postKey[p]>> \in postMap'
        BY <3>4, <4>1
      <4> QED
        BY <3>1, <3>5, <4>2, <4>3 DEF ListsFit, Importing
    <3>7. HandFits(z)'
      BY <3>1, <3>3, <3>4 DEF HandFits, OnPair
    <3> QED
      BY <2>1, <2>2, <3>1, <3>2, <3>3, <3>6, <3>7, PostSaved DEF SyncFits
  <2> QED
    BY <1>1, <2>1, <2>2
<1> QED
  BY <1>2, <1>3

LEMMA CommentSaved ==
    ASSUME RelayInv, NEW s \in Syncs, NEW y \in Sync, y.pc \in {"saveRemote", "saveComment"}, SyncFits(y),
           NEW z \in Sync, Becomes(s, z), commentMap' = Saved(commentMap, y.comment, y.remote),
           UNCHANGED <<boardVars, githubVars, postMap, faults>>,
           SyncFits(z)
    PROVE  RelayInv'
<1> DEFINE c == y.comment
           r == y.remote
<1>1. UNCHANGED <<posts, postKey, comments, purged, commentKey, issues, remotes, remoteMark, postMap, faults>>
  BY DEF boardVars, githubVars
<1>2. /\ c \in Comments /\ r \in Remotes /\ (remoteMark[r] = c \/ commentKey[c] = r)
      /\ <<comments[c], remotes[r]>> \in postMap
  BY DEF SyncFits, HandFits, OnPair
<1>3. commentMap' \subseteq commentMap \cup {<<c, r>>}
  BY DEF Saved, Rest
<1>4. commentMap' \subseteq Comments \X Remotes
  <2>1. <<c, r>> \in Comments \X Remotes
    BY <1>2
  <2> QED
    BY <1>3, <2>1 DEF RelayInv, RelayShape, RelayTypeOK
<1>5. sync' \in [Syncs -> Sync]
  BY DEF Becomes, RelayInv, RelayShape, RelayTypeOK
<1>6. RelayTypeOK'
  BY <1>1, <1>4, <1>5 DEF RelayInv, RelayShape, RelayTypeOK
<1>7. \A d \in Comments, q \in Remotes : <<d, q>> \in commentMap' =>
          /\ remoteMark[q] = d \/ commentKey[d] = q
          /\ <<comments[d], remotes[q]>> \in postMap
  <2> SUFFICES ASSUME NEW d \in Comments, NEW q \in Remotes, <<d, q>> \in commentMap'
               PROVE  /\ remoteMark[q] = d \/ commentKey[d] = q
                      /\ <<comments[d], remotes[q]>> \in postMap
    OBVIOUS
  <2>1. <<d, q>> \in commentMap \/ (d = c /\ q = r)
    BY <1>3
  <2> QED
    BY <1>2, <2>1 DEF RelayInv, RelayShape
<1>8. RelayShape'
  BY <1>1, <1>6, <1>7 DEF RelayInv, RelayShape, Linked
<1>9. SyncFits(z)'
  <2>1. ListsFit(z)'
    BY <1>1 DEF SyncFits, ListsFit
  <2>2. HandFits(z)'
    BY <1>1 DEF SyncFits, HandFits, Linked
  <2> QED
    BY <2>1, <2>2 DEF SyncFits
<1> QED
  BY <1>8, <1>9, Moves

LEMMA CommentMappings ==
    ASSUME RelayInv, NEW s \in Syncs
    PROVE  SaveRemote(s) \/ SaveComment(s) => RelayInv'
<1> USE RelayAssumption
<1>0. PICK y \in Sync : y = sync[s] /\ SyncFits(y)
  BY DEF RelayInv, RelayShape, RelayTypeOK
<1>1. ASSUME UNCHANGED commentMap, Ends(s), UNCHANGED <<boardVars, githubVars, postMap, faults>> PROVE RelayInv'
  BY <1>1, Faults, Ended DEF RelayTables
<1>2. ASSUME SaveRemote(s) PROVE RelayInv'
  <2> DEFINE z == [y EXCEPT !.pc = "exportComments", !.comment = NoItem, !.remote = NoItem]
  <2>1. y.pc = "saveRemote" /\ UNCHANGED <<boardVars, githubVars, postMap, faults>>
        /\ \/ Ends(s) /\ UNCHANGED commentMap
           \/ commentMap' = Saved(commentMap, y.comment, y.remote) /\ Becomes(s, z)
    BY <1>0, <1>2 DEF SaveRemote, At
  <2>2. CASE commentMap' = Saved(commentMap, y.comment, y.remote) /\ Becomes(s, z)
    <3>1. z \in Sync /\ z.pc = "exportComments" /\ z.listed = y.listed /\ z.comments = y.comments
          /\ z.post = y.post /\ z.issue = y.issue
      BY DEF Sync
    <3>2. Becomes(s, z)
      BY <2>2
    <3> HIDE DEF z
    <3>3. ListsFit(z)
      BY <1>0, <2>1, <3>1 DEF SyncFits, ListsFit, Importing, Exporting
    <3>4. HandFits(z)
      BY <1>0, <2>1, <3>1 DEF SyncFits, HandFits, OnPair
    <3> QED
      BY <1>0, <2>1, <2>2, <3>1, <3>2, <3>3, <3>4, CommentSaved DEF SyncFits
  <2> QED
    BY <1>1, <2>1, <2>2
<1>3. ASSUME SaveComment(s) PROVE RelayInv'
  <2> DEFINE z == [y EXCEPT !.pc = "importRemotes", !.comment = NoItem, !.remote = NoItem]
  <2>1. y.pc = "saveComment" /\ UNCHANGED <<boardVars, githubVars, postMap, faults>>
        /\ \/ Ends(s) /\ UNCHANGED commentMap
           \/ commentMap' = Saved(commentMap, y.comment, y.remote) /\ Becomes(s, z)
    BY <1>0, <1>3 DEF SaveComment, At
  <2>2. CASE commentMap' = Saved(commentMap, y.comment, y.remote) /\ Becomes(s, z)
    <3>1. z \in Sync /\ z.pc = "importRemotes" /\ z.remotes = y.remotes /\ z.post = y.post /\ z.issue = y.issue
      BY DEF Sync
    <3>2. Becomes(s, z)
      BY <2>2
    <3> HIDE DEF z
    <3>3. ListsFit(z)
      BY <3>1 DEF ListsFit, Importing, Exporting
    <3>4. HandFits(z)
      BY <1>0, <2>1, <3>1 DEF SyncFits, HandFits, OnPair
    <3> QED
      BY <1>0, <2>1, <2>2, <3>1, <3>2, <3>3, <3>4, CommentSaved DEF SyncFits
  <2> QED
    BY <1>1, <2>1, <2>2
<1> QED
  BY <1>2, <1>3

LEMMA NewPosts ==
    ASSUME RelayInv, NEW s \in Syncs, NEW p \in Posts, CreatePost(s, p)
    PROVE  RelayInv'
<1> USE RelayAssumption
<1>0. PICK y \in Sync : y = sync[s] /\ SyncFits(y)
  BY DEF RelayInv, RelayShape, RelayTypeOK
<1> DEFINE i == y.issue
           z == [y EXCEPT !.pc = "savePost", !.post = p]
           again == \E q \in Posts : postKey[q] = i
<1>1. /\ y.pc = "createPost" /\ Becomes(s, z)
      /\ IF again THEN postKey[p] = i ELSE posts[p] = "absent"
      /\ posts' = IF again THEN posts ELSE [posts EXCEPT ![p] = "active"]
      /\ postKey' = [postKey EXCEPT ![p] = i]
      /\ UNCHANGED <<comments, purged, commentKey, issues, remotes, remoteMark, postMap, commentMap, faults>>
  BY <1>0 DEF CreatePost, At, githubVars
<1>2. i \in Issues /\ issues[i] = External
  BY <1>0, <1>1 DEF SyncFits, HandFits
<1>3. z \in Sync /\ z.pc = "savePost" /\ z.post = p /\ z.issue = i /\ z.listed = y.listed /\ z.left = y.left
  BY DEF Sync
<1> HIDE DEF z
<1>4. /\ posts \in [Posts -> {"absent", "active", "deleted"}] /\ postKey \in [Posts -> Issues \cup {NoItem}]
      /\ issues \in [Issues -> Posts \cup {External, NoItem}]
  BY DEF RelayInv, RelayShape, RelayTypeOK
<1>5. /\ postKey' \in [Posts -> Issues \cup {NoItem}] /\ \A q \in Posts : postKey'[q] = IF q = p THEN i ELSE postKey[q]
      /\ posts' \in [Posts -> {"absent", "active", "deleted"}]
  BY <1>1, <1>2, <1>4
<1>6. ListsFit(z)'
  <2>1. /\ \A j \in Issues : issues[j] \in Posts => j \in y.listed
        /\ \A j \in y.left : issues[j] = External
        /\ \A q \in Posts : postKey[q] \in Issues =>
              <<q, postKey[q]>> \in postMap \/ postKey[q] \in y.left \/ y.issue = postKey[q]
    BY <1>0, <1>1 DEF SyncFits, ListsFit, Importing
  <2>2. \A q \in Posts : postKey'[q] \in Issues =>
           <<q, postKey'[q]>> \in postMap \/ postKey'[q] \in y.left \/ y.issue = postKey'[q]
    BY <1>5, <2>1
  <2> QED
    BY <1>1, <1>3, <2>1, <2>2 DEF ListsFit, Exporting
<1>7. HandFits(z)'
  BY <1>2, <1>3, <1>5 DEF HandFits, OnPair
<1>8. RelayTypeOK'
  <2>1. sync' \in [Syncs -> Sync]
    BY <1>1, <1>3 DEF Becomes, RelayInv, RelayShape, RelayTypeOK
  <2> QED
    BY <1>1, <1>5, <2>1 DEF RelayInv, RelayShape, RelayTypeOK
<1>9. CASE again
  <2>1. postKey' = postKey /\ posts' = posts
    BY <1>1, <1>4, <1>5, <1>9
  <2> QED
    BY <1>1, <1>3, <1>6, <1>7, <1>8, <2>1, Moves DEF SyncFits, RelayInv, RelayShape, Linked
<1>10. CASE ~again
  <2>1. posts' = [posts EXCEPT ![p] = "active"] /\ posts[p] = "absent"
    BY <1>1, <1>10
  <2>2. \A j \in Issues : issues[j] # p /\ postKey[p] # j
    BY <2>1 DEF RelayInv, RelayShape, Linked
  <2>3. \A q \in Posts, j \in Issues : Linked(q, j)' <=> Linked(q, j) \/ (q = p /\ j = i)
    BY <1>1, <1>5, <2>2 DEF Linked
  <2>4. \A q \in Posts : ~Linked(q, i)
    BY <1>2, <1>10 DEF Linked
  <2>5. \A j \in Issues : ~Linked(p, j)
    BY <2>2 DEF Linked
  <2>6. RelayShape'
    <3>1. \A q \in Posts, j, k \in Issues : Linked(q, j)' /\ Linked(q, k)' => j = k
      BY <2>3, <2>5 DEF RelayInv, RelayShape
    <3>2. \A q, t \in Posts, j \in Issues : Linked(q, j)' /\ Linked(t, j)' => q = t
      BY <2>3, <2>4 DEF RelayInv, RelayShape
    <3>3. \A q \in Posts : postKey'[q] \in Issues => issues'[postKey'[q]] = External
      BY <1>1, <1>2, <1>5 DEF RelayInv, RelayShape
    <3>4. \A q \in Posts, j \in Issues : posts'[q] = "absent" => ~Linked(q, j)'
      BY <1>4, <2>1, <2>3 DEF RelayInv, RelayShape
    <3>5. \A q \in Posts, j \in Issues : <<q, j>> \in postMap' => Linked(q, j)'
      BY <1>1, <2>3 DEF RelayInv, RelayShape
    <3>6. /\ \A c \in Comments, r \in Remotes : commentKey'[c] = r => <<comments'[c], remotes'[r]>> \in postMap'
          /\ \A c \in Comments, r \in Remotes : <<c, r>> \in commentMap' =>
                /\ remoteMark'[r] = c \/ commentKey'[c] = r
                /\ <<comments'[c], remotes'[r]>> \in postMap'
      BY <1>1 DEF RelayInv, RelayShape
    <3> QED
      BY <1>8, <3>1, <3>2, <3>3, <3>4, <3>5, <3>6 DEF RelayShape
  <2> QED
    BY <1>1, <1>3, <1>6, <1>7, <2>6, Moves DEF SyncFits
<1> QED
  BY <1>9, <1>10

LEMMA NewIssues ==
    ASSUME RelayInv, NEW s \in Syncs, NEW i \in Issues, CreateIssue(s, i)
    PROVE  RelayInv'
<1> USE RelayAssumption
<1>0. PICK y \in Sync : y = sync[s] /\ SyncFits(y)
  BY DEF RelayInv, RelayShape, RelayTypeOK
<1> DEFINE p == y.post
           z == [y EXCEPT !.pc = "saveIssue", !.issue = i]
<1>1. /\ y.pc = "createIssue" /\ Becomes(s, z) /\ issues[i] = NoItem
      /\ issues' = [issues EXCEPT ![i] = IF postKey[p] = NoItem THEN p ELSE External]
      /\ UNCHANGED <<posts, postKey, comments, purged, commentKey, remotes, remoteMark, postMap, commentMap, faults>>
  BY <1>0 DEF CreateIssue, At, boardVars
<1>2. p \in Posts /\ posts[p] # "absent" /\ \A j \in Issues : ~Linked(p, j)
  BY <1>0, <1>1 DEF SyncFits, HandFits
<1>3. z \in Sync /\ z.pc = "saveIssue" /\ z.post = p /\ z.issue = i /\ z.listed = y.listed
  BY DEF Sync
<1> HIDE DEF z
<1>4. /\ postKey \in [Posts -> Issues \cup {NoItem}]
      /\ issues \in [Issues -> Posts \cup {External, NoItem}]
  BY DEF RelayInv, RelayShape, RelayTypeOK
<1>5. postKey[p] = NoItem
  BY <1>2, <1>4 DEF Linked
<1>6. /\ issues' \in [Issues -> Posts \cup {External, NoItem}]
      /\ \A j \in Issues : issues'[j] = IF j = i THEN p ELSE issues[j]
  BY <1>1, <1>2, <1>4, <1>5
<1>7. ListsFit(z)'
  <2>1. /\ \A q \in Posts : postKey[q] \in Issues => <<q, postKey[q]>> \in postMap
        /\ \A j \in Issues : issues[j] \in Posts => j \in y.listed \/ <<issues[j], j>> \in postMap
    BY <1>0, <1>1 DEF SyncFits, ListsFit, Exporting
  <2>2. \A j \in Issues : issues'[j] \in Posts => j \in y.listed \/ <<issues'[j], j>> \in postMap \/ i = j
    BY <1>6, <2>1
  <2> QED
    BY <1>1, <1>3, <2>1, <2>2 DEF ListsFit, Importing
<1>8. HandFits(z)'
  BY <1>2, <1>3, <1>6 DEF HandFits, OnPair
<1>9. RelayTypeOK'
  <2>1. sync' \in [Syncs -> Sync]
    BY <1>1, <1>3 DEF Becomes, RelayInv, RelayShape, RelayTypeOK
  <2> QED
    BY <1>1, <1>6, <2>1 DEF RelayInv, RelayShape, RelayTypeOK
<1>10. \A q \in Posts, j \in Issues : Linked(q, j)' <=> Linked(q, j) \/ (q = p /\ j = i)
  BY <1>1, <1>6 DEF Linked
<1>11. \A q \in Posts : ~Linked(q, i)
  <2>1. \A q \in Posts : postKey[q] # i
    BY <1>1 DEF RelayInv, RelayShape
  <2> QED
    BY <1>1, <2>1 DEF Linked
<1>12. RelayShape'
  <2>1. \A q \in Posts, j, k \in Issues : Linked(q, j)' /\ Linked(q, k)' => j = k
    BY <1>2, <1>10 DEF RelayInv, RelayShape
  <2>2. \A q, t \in Posts, j \in Issues : Linked(q, j)' /\ Linked(t, j)' => q = t
    BY <1>10, <1>11 DEF RelayInv, RelayShape
  <2>3. \A q \in Posts : postKey'[q] \in Issues => issues'[postKey'[q]] = External
    BY <1>1, <1>6 DEF RelayInv, RelayShape
  <2>4. \A q \in Posts, j \in Issues : posts'[q] = "absent" => ~Linked(q, j)'
    BY <1>1, <1>2, <1>10 DEF RelayInv, RelayShape
  <2>5. \A q \in Posts, j \in Issues : <<q, j>> \in postMap' => Linked(q, j)'
    BY <1>1, <1>10 DEF RelayInv, RelayShape
  <2>6. /\ \A c \in Comments, r \in Remotes : commentKey'[c] = r => <<comments'[c], remotes'[r]>> \in postMap'
        /\ \A c \in Comments, r \in Remotes : <<c, r>> \in commentMap' =>
              /\ remoteMark'[r] = c \/ commentKey'[c] = r
              /\ <<comments'[c], remotes'[r]>> \in postMap'
    BY <1>1 DEF RelayInv, RelayShape
  <2> QED
    BY <1>9, <2>1, <2>2, <2>3, <2>4, <2>5, <2>6 DEF RelayShape
<1> QED
  BY <1>1, <1>3, <1>7, <1>8, <1>12, Moves DEF SyncFits

\* A new item of GitHub or Board is on no pair of comments yet.
LEMMA FreshRemote ==
    ASSUME RelayInv, NEW r \in Remotes, remotes[r] = NoItem
    PROVE  \A c \in Comments : commentKey[c] # r /\ <<c, r>> \notin commentMap
<1>1. \A p : <<p, NoItem>> \notin postMap
  BY RelayAssumption DEF RelayInv, RelayShape, RelayTypeOK
<1> QED
  BY <1>1 DEF RelayInv, RelayShape

LEMMA FreshComment ==
    ASSUME RelayInv, NEW c \in Comments, comments[c] = NoItem
    PROVE  \A r \in Remotes : commentKey[c] # r /\ <<c, r>> \notin commentMap
<1>1. \A i : <<NoItem, i>> \notin postMap
  BY RelayAssumption DEF RelayInv, RelayShape, RelayTypeOK
<1>2. \A r \in Remotes : <<comments[c], remotes[r]>> \notin postMap
  BY <1>1
<1> QED
  BY <1>2 DEF RelayInv, RelayShape

LEMMA NewRemotes ==
    ASSUME RelayInv, NEW s \in Syncs, NEW r \in Remotes, CreateIssueComment(s, r)
    PROVE  RelayInv'
<1> USE RelayAssumption
<1>0. PICK y \in Sync : y = sync[s] /\ SyncFits(y)
  BY DEF RelayInv, RelayShape, RelayTypeOK
<1> DEFINE z == [y EXCEPT !.pc = "saveRemote", !.remote = r]
<1>1. /\ y.pc = "createRemote" /\ Becomes(s, z) /\ remotes[r] = NoItem
      /\ remotes' = [remotes EXCEPT ![r] = y.issue]
      /\ remoteMark' = [remoteMark EXCEPT ![r] = y.comment]
      /\ UNCHANGED <<posts, postKey, comments, purged, commentKey, issues, postMap, commentMap, faults>>
  BY <1>0 DEF CreateIssueComment, At, boardVars
<1>2. /\ y.post \in Posts /\ y.issue \in Issues /\ <<y.post, y.issue>> \in postMap
      /\ y.comment \in Comments /\ comments[y.comment] = y.post
      /\ \A c \in y.comments : comments[c] = y.post
  BY <1>0, <1>1 DEF SyncFits, HandFits, OnPair
<1>3. z \in Sync /\ z.pc = "saveRemote" /\ z.post = y.post /\ z.issue = y.issue /\ z.listed = y.listed
      /\ z.comment = y.comment /\ z.comments = y.comments /\ z.remote = r
  BY DEF Sync
<1> HIDE DEF z
<1>4. /\ remotes \in [Remotes -> Issues \cup {NoItem}]
      /\ remoteMark \in [Remotes -> Comments \cup {NoItem}]
  BY DEF RelayInv, RelayShape, RelayTypeOK
<1>5. /\ remotes' \in [Remotes -> Issues \cup {NoItem}] /\ remoteMark' \in [Remotes -> Comments \cup {NoItem}]
      /\ remotes'[r] = y.issue /\ remoteMark'[r] = y.comment
      /\ \A q \in Remotes \ {r} : remotes'[q] = remotes[q] /\ remoteMark'[q] = remoteMark[q]
  BY <1>1, <1>2, <1>4
<1>6. ListsFit(z)'
  BY <1>0, <1>1, <1>3 DEF SyncFits, ListsFit, Exporting, Importing
<1>7. HandFits(z)'
  BY <1>1, <1>2, <1>3, <1>5 DEF HandFits, OnPair
<1>8. RelayTypeOK'
  <2>1. sync' \in [Syncs -> Sync]
    BY <1>1, <1>3 DEF Becomes, RelayInv, RelayShape, RelayTypeOK
  <2> QED
    BY <1>1, <1>5, <2>1 DEF RelayInv, RelayShape, RelayTypeOK
<1>9. \A c \in Comments : commentKey[c] # r /\ <<c, r>> \notin commentMap
  BY <1>1, FreshRemote
<1>10. RelayShape'
  <2>1. \A c \in Comments, q \in Remotes : commentKey'[c] = q => <<comments'[c], remotes'[q]>> \in postMap'
    BY <1>1, <1>5, <1>9 DEF RelayInv, RelayShape
  <2>2. \A c \in Comments, q \in Remotes : <<c, q>> \in commentMap' =>
           /\ remoteMark'[q] = c \/ commentKey'[c] = q
           /\ <<comments'[c], remotes'[q]>> \in postMap'
    <3> SUFFICES ASSUME NEW c \in Comments, NEW q \in Remotes, <<c, q>> \in commentMap
                 PROVE  /\ remoteMark'[q] = c \/ commentKey'[c] = q
                        /\ <<comments'[c], remotes'[q]>> \in postMap'
      BY <1>1
    <3>1. q # r
      BY <1>9
    <3> QED
      BY <1>1, <1>5, <3>1 DEF RelayInv, RelayShape
  <2> QED
    BY <1>1, <1>8, <2>1, <2>2 DEF RelayInv, RelayShape, Linked
<1> QED
  BY <1>1, <1>3, <1>6, <1>7, <1>10, Moves DEF SyncFits

LEMMA NewComments ==
    ASSUME RelayInv, NEW s \in Syncs, NEW c \in Comments, CreateComment(s, c)
    PROVE  RelayInv'
<1> USE RelayAssumption
<1>0. PICK y \in Sync : y = sync[s] /\ SyncFits(y)
  BY DEF RelayInv, RelayShape, RelayTypeOK
<1> DEFINE r == y.remote
           z == [y EXCEPT !.pc = "saveComment", !.comment = c]
           again == \E d \in Comments : commentKey[d] = r
<1>1. /\ y.pc = "createComment" /\ Becomes(s, z)
      /\ IF again THEN commentKey[c] = r ELSE comments[c] = NoItem
      /\ comments' = IF again THEN comments ELSE [comments EXCEPT ![c] = y.post]
      /\ commentKey' = [commentKey EXCEPT ![c] = r]
      /\ UNCHANGED <<posts, postKey, purged, issues, remotes, remoteMark, postMap, commentMap, faults>>
  BY <1>0 DEF CreateComment, At, githubVars
<1>2. /\ y.post \in Posts /\ y.issue \in Issues /\ <<y.post, y.issue>> \in postMap
      /\ \A q \in y.remotes : remotes[q] = y.issue
      /\ r \in Remotes /\ remotes[r] = y.issue
  BY <1>0, <1>1 DEF SyncFits, HandFits, OnPair
<1>3. z \in Sync /\ z.pc = "saveComment" /\ z.post = y.post /\ z.issue = y.issue /\ z.remote = r
      /\ z.comment = c /\ z.remotes = y.remotes
  BY DEF Sync
<1> HIDE DEF z
<1>4. /\ comments \in [Comments -> Posts \cup {NoItem}]
      /\ commentKey \in [Comments -> Remotes \cup {NoItem}]
  BY DEF RelayInv, RelayShape, RelayTypeOK
<1>5. /\ comments' \in [Comments -> Posts \cup {NoItem}] /\ commentKey' \in [Comments -> Remotes \cup {NoItem}]
      /\ commentKey'[c] = r
      /\ \A d \in Comments \ {c} : comments'[d] = comments[d] /\ commentKey'[d] = commentKey[d]
  BY <1>1, <1>2, <1>4
<1>6. comments'[c] = y.post
  <2>1. CASE again
    <3>1. <<comments[c], y.issue>> \in postMap
      BY <1>1, <1>2, <2>1 DEF RelayInv, RelayShape
    <3>2. comments[c] \in Posts
      BY <3>1 DEF RelayInv, RelayShape, RelayTypeOK
    <3>3. Linked(comments[c], y.issue) /\ Linked(y.post, y.issue)
      BY <1>2, <3>1, <3>2 DEF RelayInv, RelayShape
    <3>4. comments[c] = y.post
      BY <1>2, <3>2, <3>3 DEF RelayInv, RelayShape
    <3> QED
      BY <1>1, <2>1, <3>4
  <2>2. CASE ~again
    BY <1>1, <1>4, <2>2
  <2> QED
    BY <2>1, <2>2
<1>7. ListsFit(z)'
  BY <1>3 DEF ListsFit, Exporting, Importing
<1>8. HandFits(z)'
  BY <1>1, <1>2, <1>3, <1>5, <1>6 DEF HandFits, OnPair
<1>9. RelayTypeOK'
  <2>1. sync' \in [Syncs -> Sync]
    BY <1>1, <1>3 DEF Becomes, RelayInv, RelayShape, RelayTypeOK
  <2> QED
    BY <1>1, <1>5, <2>1 DEF RelayInv, RelayShape, RelayTypeOK
<1>10. \A q \in Remotes : <<c, q>> \in commentMap => comments[c] # NoItem
  BY FreshComment
<1>11. \A q \in Remotes : <<c, q>> \in commentMap => commentKey[c] = r
  BY <1>1, <1>10
<1>12. RelayShape'
  <2>1. \A d \in Comments, q \in Remotes : commentKey'[d] = q => <<comments'[d], remotes'[q]>> \in postMap'
    BY <1>1, <1>2, <1>5, <1>6 DEF RelayInv, RelayShape
  <2>2. \A d \in Comments, q \in Remotes : <<d, q>> \in commentMap' =>
           /\ remoteMark'[q] = d \/ commentKey'[d] = q
           /\ <<comments'[d], remotes'[q]>> \in postMap'
    <3> SUFFICES ASSUME NEW d \in Comments, NEW q \in Remotes, <<d, q>> \in commentMap
                 PROVE  /\ remoteMark'[q] = d \/ commentKey'[d] = q
                        /\ <<comments'[d], remotes'[q]>> \in postMap'
      BY <1>1
    <3>1. (remoteMark[q] = d \/ commentKey[d] = q) /\ <<comments[d], remotes[q]>> \in postMap
      BY DEF RelayInv, RelayShape
    <3>2. CASE d # c
      BY <1>1, <1>5, <3>1, <3>2
    <3>3. CASE d = c
      <4>1. again /\ comments' = comments
        BY <1>1, <1>11, <3>3
      <4>2. commentKey' = commentKey
        BY <1>1, <1>4, <1>11, <3>3
      <4> QED
        BY <1>1, <3>1, <4>1, <4>2
    <3> QED
      BY <3>2, <3>3
  <2> QED
    BY <1>1, <1>9, <2>1, <2>2 DEF RelayInv, RelayShape, Linked
<1> QED
  BY <1>1, <1>3, <1>7, <1>8, <1>12, Moves DEF SyncFits

\* A step of Board or GitHub alone, which what the sync holds survives.
LEMMA Apart ==
    ASSUME RelayInv, sync' = sync, RelayShape', \A y \in Sync : SyncFits(y) => SyncFits(y)'
    PROVE  RelayInv'
<1>1. (\A t \in Syncs : SyncFits(sync[t]))'
  <2> SUFFICES ASSUME NEW t \in Syncs PROVE SyncFits(sync[t])'
    OBVIOUS
  <2>1. PICK y \in Sync : y = sync[t] /\ SyncFits(y)
    BY DEF RelayInv, RelayShape, RelayTypeOK
  <2>2. SyncFits(y)' /\ sync'[t] = y
    BY <2>1
  <2> QED
    BY <2>2
<1> QED
  BY <1>1 DEF RelayInv, OneSync

LEMMA OutsideKeeps == RelayInv /\ Outside => RelayInv'
<1> SUFFICES ASSUME RelayInv, Outside PROVE RelayInv'
  OBVIOUS
<1> USE RelayAssumption
<1>0. RelayTypeOK
  BY DEF RelayInv, RelayShape
<1>1. ASSUME NEW p \in Posts, NewPost(p) \/ PurgePost(p) PROVE RelayInv'
  <2>1. /\ UNCHANGED <<postKey, comments, commentKey, issues, remotes, remoteMark, postMap, commentMap, sync, faults>>
        /\ posts' \in [Posts -> {"absent", "active", "deleted"}]
        /\ purged' \subseteq Comments
        /\ \A q \in Posts : posts'[q] = "absent" => posts[q] = "absent"
    BY <1>0, <1>1 DEF NewPost, PurgePost, RelayTypeOK, githubVars
  <2>2. RelayShape'
    BY <1>0, <2>1 DEF RelayInv, RelayShape, RelayTypeOK, Linked
  <2>3. ASSUME NEW y \in Sync, SyncFits(y) PROVE SyncFits(y)'
    <3>1. ListsFit(y)'
      BY <2>1, <2>3 DEF SyncFits, ListsFit
    <3>2. HandFits(y)'
      BY <2>1, <2>3 DEF SyncFits, HandFits, Linked
    <3> QED
      BY <3>1, <3>2 DEF SyncFits
  <2> QED
    BY <2>1, <2>2, <2>3, Apart
<1>2. ASSUME NEW c \in Comments, PurgeComment(c) PROVE RelayInv'
  <2>1. /\ UNCHANGED <<posts, postKey, comments, commentKey, issues, remotes, remoteMark, postMap, commentMap, sync, faults>>
        /\ purged' \subseteq Comments
    BY <1>0, <1>2 DEF PurgeComment, RelayTypeOK, githubVars
  <2>2. RelayShape'
    BY <1>0, <2>1 DEF RelayInv, RelayShape, RelayTypeOK, Linked
  <2>3. ASSUME NEW y \in Sync, SyncFits(y) PROVE SyncFits(y)'
    <3>1. ListsFit(y)'
      BY <2>1, <2>3 DEF SyncFits, ListsFit
    <3>2. HandFits(y)'
      BY <2>1, <2>3 DEF SyncFits, HandFits, Linked
    <3> QED
      BY <3>1, <3>2 DEF SyncFits
  <2> QED
    BY <2>1, <2>2, <2>3, Apart
<1>3. ASSUME NEW c \in Comments, NEW p \in Posts, NewComment(c, p) PROVE RelayInv'
  <2>1. /\ UNCHANGED <<posts, postKey, purged, commentKey, issues, remotes, remoteMark, postMap, commentMap, sync, faults>>
        /\ comments[c] = NoItem
        /\ comments' \in [Comments -> Posts \cup {NoItem}]
        /\ \A d \in Comments \ {c} : comments'[d] = comments[d]
    BY <1>0, <1>3 DEF NewComment, RelayTypeOK, githubVars
  <2>2. RelayShape'
    <3>1. RelayTypeOK'
      BY <1>0, <2>1 DEF RelayTypeOK
    <3>2. \A r \in Remotes : commentKey[c] # r /\ <<c, r>> \notin commentMap
      BY <2>1, FreshComment
    <3>3. \A d \in Comments, r \in Remotes : commentKey'[d] = r => <<comments'[d], remotes'[r]>> \in postMap'
      BY <2>1, <3>2 DEF RelayInv, RelayShape
    <3>4. \A d \in Comments, r \in Remotes : <<d, r>> \in commentMap' =>
             /\ remoteMark'[r] = d \/ commentKey'[d] = r
             /\ <<comments'[d], remotes'[r]>> \in postMap'
      BY <2>1, <3>2 DEF RelayInv, RelayShape
    <3> QED
      BY <2>1, <3>1, <3>3, <3>4 DEF RelayInv, RelayShape, Linked
  <2>3. ASSUME NEW y \in Sync, SyncFits(y) PROVE SyncFits(y)'
    <3>1. ListsFit(y)'
      BY <2>1, <2>3 DEF SyncFits, ListsFit
    <3>2. \A d \in Comments : comments[d] = y.post /\ y.post \in Posts => comments'[d] = y.post
      BY <2>1
    <3>3. y.comments \subseteq Comments
      BY DEF Sync
    <3>4. HandFits(y)'
      BY <2>1, <2>3, <3>2, <3>3 DEF SyncFits, HandFits, Linked, OnPair
    <3> QED
      BY <3>1, <3>4 DEF SyncFits
  <2> QED
    BY <2>1, <2>2, <2>3, Apart
<1>4. ASSUME NEW i \in Issues, NewIssue(i) PROVE RelayInv'
  <2>1. /\ UNCHANGED <<posts, postKey, comments, purged, commentKey, remotes, remoteMark, postMap, commentMap, sync, faults>>
        /\ issues[i] = NoItem /\ issues'[i] = External
        /\ issues' \in [Issues -> Posts \cup {External, NoItem}]
        /\ \A j \in Issues \ {i} : issues'[j] = issues[j]
    BY <1>0, <1>4 DEF NewIssue, RelayTypeOK, boardVars
  <2>2. \A p \in Posts, j \in Issues : Linked(p, j)' <=> Linked(p, j)
    BY <2>1 DEF Linked
  <2>3. RelayShape'
    <3>1. RelayTypeOK'
      BY <1>0, <2>1 DEF RelayTypeOK
    <3>2. \A p \in Posts : postKey'[p] \in Issues => issues'[postKey'[p]] = External
      BY <2>1 DEF RelayInv, RelayShape
    <3> QED
      BY <2>1, <2>2, <3>1, <3>2 DEF RelayInv, RelayShape
  <2>4. ASSUME NEW y \in Sync, SyncFits(y) PROVE SyncFits(y)'
    <3>1. /\ \A j \in Issues : issues'[j] \in Posts => issues'[j] = issues[j]
          /\ \A j \in Issues : issues[j] \in Posts \cup {External} => issues'[j] = issues[j]
          /\ y.left \subseteq Issues
      BY <2>1 DEF Sync
    <3>2. ListsFit(y)'
      BY <2>1, <2>4, <3>1 DEF SyncFits, ListsFit
    <3>3. HandFits(y)'
      BY <2>1, <2>2, <2>4, <3>1 DEF SyncFits, HandFits
    <3> QED
      BY <3>2, <3>3 DEF SyncFits
  <2> QED
    BY <2>1, <2>3, <2>4, Apart
<1>5. ASSUME NEW i \in Issues, NEW r \in Remotes, NewIssueComment(r, i) PROVE RelayInv'
  <2>1. /\ UNCHANGED <<posts, postKey, comments, purged, commentKey, issues, remoteMark, postMap, commentMap, sync, faults>>
        /\ remotes[r] = NoItem
        /\ remotes' \in [Remotes -> Issues \cup {NoItem}]
        /\ \A q \in Remotes \ {r} : remotes'[q] = remotes[q]
    BY <1>0, <1>5 DEF NewIssueComment, RelayTypeOK, boardVars
  <2>2. RelayShape'
    <3>1. RelayTypeOK'
      BY <1>0, <2>1 DEF RelayTypeOK
    <3>2. \A c \in Comments : commentKey[c] # r /\ <<c, r>> \notin commentMap
      BY <2>1, FreshRemote
    <3>3. \A d \in Comments, q \in Remotes : commentKey'[d] = q => <<comments'[d], remotes'[q]>> \in postMap'
      BY <2>1, <3>2 DEF RelayInv, RelayShape
    <3>4. \A d \in Comments, q \in Remotes : <<d, q>> \in commentMap' =>
             /\ remoteMark'[q] = d \/ commentKey'[d] = q
             /\ <<comments'[d], remotes'[q]>> \in postMap'
      BY <2>1, <3>2 DEF RelayInv, RelayShape
    <3> QED
      BY <2>1, <3>1, <3>3, <3>4 DEF RelayInv, RelayShape, Linked
  <2>3. ASSUME NEW y \in Sync, SyncFits(y) PROVE SyncFits(y)'
    <3>1. ListsFit(y)'
      BY <2>1, <2>3 DEF SyncFits, ListsFit
    <3>2. \A q \in Remotes : remotes[q] = y.issue /\ y.issue \in Issues => remotes'[q] = y.issue
      BY <2>1
    <3>3. y.remotes \subseteq Remotes
      BY DEF Sync
    <3>4. HandFits(y)'
      BY <2>1, <2>3, <3>2, <3>3 DEF SyncFits, HandFits, Linked, OnPair
    <3> QED
      BY <3>1, <3>4 DEF SyncFits
  <2> QED
    BY <2>1, <2>2, <2>3, Apart
<1> QED
  BY <1>1, <1>2, <1>3, <1>4, <1>5 DEF Outside

LEMMA RelayStep == RelayInv /\ [RelayNext]_relayVars => RelayInv'
<1> SUFFICES ASSUME RelayInv, [RelayNext]_relayVars PROVE RelayInv'
  OBVIOUS
<1>1. ASSUME NEW s \in Syncs, ListIssues(s) \/ SyncSteps(s) \/ SyncFails(s) PROVE RelayInv'
  BY <1>1, Lists, CommentLists, Endings, Mappings, CommentMappings, NewPosts, NewIssues, NewRemotes, NewComments
     DEF SyncSteps
<1>2. CASE UNCHANGED relayVars
  <2>1. UNCHANGED <<posts, postKey, comments, purged, commentKey, issues, remotes, remoteMark, postMap, commentMap, sync, faults>>
    BY <1>2 DEF relayVars
  <2>2. RelayShape'
    BY <2>1 DEF RelayInv, RelayShape, RelayTypeOK, Linked
  <2>3. ASSUME NEW y \in Sync, SyncFits(y) PROVE SyncFits(y)'
    BY <2>1, <2>3 DEF SyncFits, ListsFit, HandFits, Linked
  <2> QED
    BY <2>1, <2>2, <2>3, Apart
<1> QED
  BY <1>1, <1>2, OutsideKeeps DEF RelayNext

LEMMA RelayMeans == RelayInv => OneIssuePerPost
<1> SUFFICES ASSUME RelayInv PROVE OneIssuePerPost
  OBVIOUS
<1>1. \A p \in Posts, i \in Issues : i \in IssuesOf(p) => Linked(p, i)
  BY DEF RelayInv, RelayShape, IssuesOf, Linked
<1>2. \A p \in Posts : IssuesOf(p) \subseteq Issues
  BY DEF IssuesOf
<1>3. ASSUME NEW p \in Posts PROVE Cardinality(IssuesOf(p)) <= 1
  <2>1. PICK S : S = IssuesOf(p)
    OBVIOUS
  <2>2. \A i, j \in S : i = j
    BY <1>1, <1>2, <2>1 DEF RelayInv, RelayShape
  <2>3. CASE S = {}
    BY <2>1, <2>3, FS_EmptySet
  <2>4. CASE S # {}
    <3>1. PICK i : S = {i}
      BY <2>2, <2>4
    <3>2. Cardinality({i}) = 1
      BY FS_Singleton
    <3> QED
      BY <2>1, <3>1, <3>2
  <2> QED
    BY <2>3, <2>4
<1>4. ASSUME NEW p \in Posts, NEW q \in Posts, p # q PROVE IssuesOf(p) \cap IssuesOf(q) = {}
  BY <1>1, <1>2, <1>4 DEF RelayInv, RelayShape
<1>5. \A m \in postMap : issues[m[2]] = m[1] \/ postKey[m[1]] = m[2]
  <2> SUFFICES ASSUME NEW m \in postMap PROVE issues[m[2]] = m[1] \/ postKey[m[1]] = m[2]
    OBVIOUS
  <2>1. PICK p \in Posts, i \in Issues : m = <<p, i>>
    BY DEF RelayInv, RelayShape, RelayTypeOK
  <2>2. Linked(p, i)
    BY <2>1 DEF RelayInv, RelayShape
  <2> QED
    BY <2>1, <2>2 DEF Linked
<1>6. \A m \in commentMap :
        /\ remoteMark[m[2]] = m[1] \/ commentKey[m[1]] = m[2]
        /\ <<comments[m[1]], remotes[m[2]]>> \in postMap
  <2> SUFFICES ASSUME NEW m \in commentMap
               PROVE  /\ remoteMark[m[2]] = m[1] \/ commentKey[m[1]] = m[2]
                      /\ <<comments[m[1]], remotes[m[2]]>> \in postMap
    OBVIOUS
  <2>1. PICK c \in Comments, r \in Remotes : m = <<c, r>>
    BY DEF RelayInv, RelayShape, RelayTypeOK
  <2>2. (remoteMark[r] = c \/ commentKey[c] = r) /\ <<comments[c], remotes[r]>> \in postMap
    BY <2>1 DEF RelayInv, RelayShape
  <2> QED
    BY <2>1, <2>2
<1> QED
  BY <1>3, <1>4, <1>5, <1>6 DEF OneIssuePerPost, RelayInv, RelayShape

\* While one sync runs at a time, a post and an issue are never doubled, wherever
\* a sync stops and whatever Board and GitHub do in between: a post has at most one
\* issue, no issue belongs to two posts, every mapping is backed by what its two
\* items say of themselves, and mapped comments are on a mapped pair (Sync,
\* board-relay/internal/service.go:35).
THEOREM OneIssueCorrect == OneSync /\ RelaySpec => []OneIssuePerPost
<1>1. OneSync /\ RelayInit => RelayInv
  BY RelayInitially
<1>2. RelayInv /\ [RelayNext]_relayVars => RelayInv'
  BY RelayStep
<1>3. RelayInv => OneIssuePerPost
  BY RelayMeans
<1> QED
  BY <1>1, <1>2, <1>3, PTL DEF RelaySpec

-----------------------------------------------------------------------------
(* The board of hosts (Resources).  The inductive invariant ties the row of a *)
(* command that runs to its check-ins, and every request to what had happened *)
(* when it was sent.                                                          *)

WorkStates == {"queued", "running", "completed", "failed", "cancelled"}

Request == [op : {"update", "report"}, job : Jobs, state : WorkStates \cup {"same"}, observed : ResTimes]

WorkRow == [state : WorkStates \cup {"none"}, updated : ResTimes, expires : Nat,
            started : ResTimes, ended : ResTimes]

Entry == [known : BOOLEAN, lastUsed : ResTimes, activity : ResTimes]

Mirror == [pc : Files \cup {"idle", "listed"}, active : SUBSET Files, mtime : ResTimes]

ResourcesTyped ==
    /\ resNow \in 1..ResMaxTime
    /\ host \in [known : BOOLEAN, sampled : ResTimes, busy : BOOLEAN, error : BOOLEAN,
                 apps : Queues \cup {"none"}, appsChecked : ResTimes]
    /\ res \in Entry
    /\ work \in [Jobs -> WorkRow]
    /\ runner \in [Commands -> [pc : {"idle", "running", "ended"}, id : BOOLEAN, renewed : ResTimes]]
    /\ file \in [Files -> [state : WorkStates \cup {"none"}, mtime : ResTimes]]
    /\ mirror \in Mirror
    /\ late \in SUBSET Request

\* A row says finished exactly when it has an end, and no row is dated later
\* than now.
RowFits(w) ==
    /\ IsTerminal(w.state) <=> w.ended # 0
    /\ w.updated <= resNow

\* The row of a command that runs: not finished, and good for a time to live
\* after the last check-in that was recorded.
Renewed(w, at) ==
    /\ w.state \in {"none", "running"}
    /\ at # 0 => w.state = "running" /\ w.expires >= at + TTL

\* A request is of a time that has been; those of a command that runs are
\* check-ins.
Dated(r) ==
    /\ r.observed <= resNow
    /\ r.state = "same" => r.op = "update"
    /\ r.job \in Commands => r.observed = 0

RequestFits(r) ==
    /\ Dated(r)
    /\ r.job \in Commands /\ runner[r.job].pc # "ended" => r.state \in {"running", "same"}

ResourcesInv ==
    /\ ResourcesTyped
    /\ \A j \in Jobs : RowFits(work[j])
    /\ \A c \in Commands :
          /\ runner[c].renewed <= resNow
          /\ runner[c].pc # "ended" => Renewed(work[c], runner[c].renewed)
    /\ \A f \in Files : file[f].mtime <= resNow
    /\ mirror.mtime <= resNow
    /\ mirror.pc \in Files => file[mirror.pc].state # "none"
    /\ \A r \in late : RequestFits(r)

-----------------------------------------------------------------------------
(* One request                                                               *)

LEMMA Numbers ==
    /\ TTL \in Nat /\ StaleAfter \in Nat /\ ResMaxTime \in Nat
    /\ ResTimes \subseteq Nat /\ 0 \in ResTimes /\ 1 \in ResTimes
BY ResourcesAssumption DEF ResTimes

\* The row a report leaves.
LEMMA StateApplied ==
    ASSUME ResourcesTyped, NEW w \in WorkRow, RowFits(w), NEW s \in WorkStates,
           NEW at \in ResTimes, at # 0, at <= resNow
    PROVE  /\ applyWorkState(w, s, at) \in WorkRow
           /\ RowFits(applyWorkState(w, s, at))
           /\ applyWorkState(w, s, at).state = s
           /\ applyWorkState(w, s, at).expires = at + TTL
<1> DEFINE v == applyWorkState(w, s, at)
           e == IF IsActive(s) THEN 0 ELSE IF w.ended = 0 THEN at ELSE w.ended
           b == IF s = "running" /\ w.started = 0 THEN at ELSE w.started
<1>1. e \in ResTimes /\ b \in ResTimes /\ at + TTL \in Nat
  BY Numbers DEF WorkRow
<1>2. IsTerminal(s) <=> e # 0
  BY DEF IsActive, IsTerminal, WorkStates
<1>3. v = [state |-> s, updated |-> at, expires |-> at + TTL, started |-> b, ended |-> e]
  BY DEF applyWorkState
<1> HIDE DEF v, e, b
<1>4. v \in WorkRow
  BY <1>1, <1>3 DEF WorkRow
<1>5. v.state = s /\ v.updated = at /\ v.expires = at + TTL /\ v.ended = e
  BY <1>3
<1>6. RowFits(v)
  BY <1>2, <1>5 DEF RowFits
<1> QED
  BY <1>4, <1>5, <1>6 DEF v

\* Recording a request changes one row at most, and renews the row of a command
\* that runs.
LEMMA RequestRecorded ==
    ASSUME ResourcesInv, NEW r \in Request, Dated(r), WorkRecorded(r)
    PROVE  /\ work' \in [Jobs -> WorkRow] /\ res' \in Entry
           /\ \A j \in Jobs : RowFits(work'[j])
           /\ \A c \in Commands :
                 runner[c].pc # "ended" /\ (r.job = c => r.state \in {"running", "same"}) =>
                    /\ Renewed(work'[c], runner[c].renewed)
                    /\ r.job = c /\ ~refused(r) => Renewed(work'[c], resNow)
<1> DEFINE k == r.job
<1>1. PICK w \in WorkRow : w = work[k] /\ RowFits(w)
  BY DEF ResourcesInv, ResourcesTyped, Request
<1>2. PICK at \in ResTimes : at = observedAt(r) /\ at # 0 /\ at <= resNow /\ (k \in Commands => at = resNow)
  <2>1. resNow \in ResTimes /\ resNow # 0 /\ resNow <= resNow
    BY DEF ResourcesInv, ResourcesTyped, ResTimes
  <2> QED
    BY <2>1 DEF observedAt, Dated, Request
<1>3. PICK s : s = stateOf(r)
  OBVIOUS
<1>4. s = IF r.state = "same" THEN w.state ELSE r.state
  BY <1>1, <1>3 DEF stateOf
<1>5. CASE UNCHANGED <<work, res>> /\ (refused(r) \/ k \notin Commands \/ runner[k].pc = "ended" \/ r.state \notin {"running", "same"})
  BY <1>5 DEF ResourcesInv, ResourcesTyped
<1>6. CASE ~refused(r)
  <2>1. w.state = "none" => r.op = "report"
    BY <1>6, <1>1 DEF refused, Request
  <2>2. s \in WorkStates
    BY <1>4, <2>1 DEF Dated, Request, WorkRow
  <2>3. PICK v : v = applyWorkState(w, s, at)
    OBVIOUS
  <2>4. v \in WorkRow /\ RowFits(v) /\ v.state = s /\ v.expires = at + TTL
    BY <1>1, <1>2, <2>2, <2>3, StateApplied DEF ResourcesInv
  <2>5. \/ UNCHANGED <<work, res>> /\ ignored(w, [r EXCEPT !.state = s], at)
        \/ work' = [work EXCEPT ![k] = v] /\ res' = touchResources(v)
    BY <1>1, <1>2, <1>3, <1>6, <2>3 DEF WorkRecorded
  <2>6. ASSUME k \in Commands, runner[k].pc # "ended", r.state \in {"running", "same"}
        PROVE  /\ ~ignored(w, [r EXCEPT !.state = s], at)
               /\ Renewed(v, runner[k].renewed) /\ Renewed(v, resNow)
    <3>1. /\ r.state \in {"running", "same"} /\ at = resNow
          /\ w.state \in {"none", "running"} /\ w.updated <= resNow
          /\ runner[k].renewed <= resNow
      BY <1>1, <1>2, <2>6 DEF ResourcesInv, Renewed, RowFits
    <3>2. w.state = "none" => r.state = "running"
      BY <2>1, <3>1 DEF Dated
    <3>3. s = "running"
      BY <1>4, <3>1, <3>2
    <3>4. resNow \in Nat /\ w.updated \in Nat /\ runner[k].renewed \in Nat /\ TTL \in Nat
      <4>1. resNow \in ResTimes /\ w.updated \in ResTimes /\ runner[k].renewed \in ResTimes
        BY <2>6 DEF ResourcesInv, ResourcesTyped, WorkRow, ResTimes
      <4> QED
        BY <4>1, Numbers
    <3>5. ~ignored(w, [r EXCEPT !.state = s], at)
      BY <3>1, <3>4 DEF ignored, IsTerminal
    <3>6. v.state = "running" /\ v.expires = resNow + TTL
      BY <2>4, <3>1, <3>3
    <3> QED
      BY <3>1, <3>4, <3>5, <3>6 DEF Renewed
  <2>7. CASE UNCHANGED <<work, res>> /\ ignored(w, [r EXCEPT !.state = s], at)
    BY <1>5, <2>6, <2>7
  <2>8. CASE work' = [work EXCEPT ![k] = v] /\ res' = touchResources(v)
    <3>1. k \in Jobs
      BY DEF Request
    <3>2. work' \in [Jobs -> WorkRow] /\ \A j \in Jobs : work'[j] = IF j = k THEN v ELSE work[j]
      BY <2>4, <2>8, <3>1 DEF ResourcesInv, ResourcesTyped
    <3>3. res' \in Entry
      <4>1. UsedAt(v) \in ResTimes
        BY <2>4 DEF UsedAt, WorkRow
      <4>2. PICK e \in Entry : e = res
        BY DEF ResourcesInv, ResourcesTyped
      <4>3. [e EXCEPT !.lastUsed = UsedAt(v)] \in Entry
        BY <4>1 DEF Entry
      <4> QED
        BY <2>8, <4>2, <4>3 DEF touchResources
    <3>4. \A j \in Jobs : RowFits(work'[j])
      BY <2>4, <3>2 DEF ResourcesInv
    <3>5. \A c \in Commands : runner[c].pc # "ended" /\ (k = c => r.state \in {"running", "same"}) =>
             /\ Renewed(work'[c], runner[c].renewed)
             /\ k = c => Renewed(work'[c], resNow)
      <4> SUFFICES ASSUME NEW c \in Commands, runner[c].pc # "ended",
                          k = c => r.state \in {"running", "same"}
                   PROVE  /\ Renewed(work'[c], runner[c].renewed)
                          /\ k = c => Renewed(work'[c], resNow)
        OBVIOUS
      <4>1. c \in Jobs
        BY DEF Jobs
      <4>2. CASE c = k
        BY <2>6, <3>2, <4>1, <4>2
      <4>3. CASE c # k
        BY <3>2, <4>1, <4>3 DEF ResourcesInv
      <4> QED
        BY <4>2, <4>3
    <3> QED
      BY <3>2, <3>3, <3>4, <3>5
  <2> QED
    BY <2>5, <2>7, <2>8
<1>7. CASE refused(r)
  BY <1>5, <1>7 DEF WorkRecorded
<1> QED
  BY <1>6, <1>7

-----------------------------------------------------------------------------
(* The steps                                                                 *)

LEMMA ResourcesStart == ResourcesInit => ResourcesInv
<1> SUFFICES ASSUME ResourcesInit PROVE ResourcesInv
  OBVIOUS
<1>1. ResourcesTyped
  <2>1. NoHost \in [known : BOOLEAN, sampled : ResTimes, busy : BOOLEAN, error : BOOLEAN,
                    apps : Queues \cup {"none"}, appsChecked : ResTimes]
    BY Numbers DEF NoHost
  <2>2. NoResource \in Entry /\ NoWork \in WorkRow
    BY Numbers DEF NoResource, NoWork, Entry, WorkRow
  <2>3. NoReporter \in [pc : {"idle", "running", "ended"}, id : BOOLEAN, renewed : ResTimes]
    BY Numbers DEF NoReporter
  <2>4. [state |-> "none", mtime |-> 0] \in [state : WorkStates \cup {"none"}, mtime : ResTimes]
    BY Numbers
  <2>5. resNow \in 1..ResMaxTime /\ mirror \in Mirror
    BY Numbers, ResourcesAssumption DEF ResourcesInit, Mirror
  <2> QED
    BY <2>1, <2>2, <2>3, <2>4, <2>5 DEF ResourcesInit, ResourcesTyped
<1>2. \A j \in Jobs : RowFits(work[j])
  BY DEF ResourcesInit, RowFits, NoWork, IsTerminal
<1>3. \A c \in Commands : runner[c].renewed <= resNow /\ Renewed(work[c], runner[c].renewed)
  BY DEF ResourcesInit, NoReporter, NoWork, Renewed, Jobs
<1>4. mirror.pc \notin Files /\ mirror.mtime <= resNow
  BY ResourcesAssumption DEF ResourcesInit
<1> QED
  BY <1>1, <1>2, <1>3, <1>4 DEF ResourcesInv, ResourcesInit

\* A request that is sent is recorded, held up or lost.
LEMMA RequestSent ==
    ASSUME ResourcesInv, NEW r \in Request, Dated(r), NEW fate \in Fates, ReportSent(r, fate)
    PROVE  /\ work' \in [Jobs -> WorkRow] /\ res' \in Entry
           /\ \A j \in Jobs : RowFits(work'[j])
           /\ \A c \in Commands :
                 runner[c].pc # "ended" /\ (r.job = c => r.state \in {"running", "same"}) =>
                    /\ Renewed(work'[c], runner[c].renewed)
                    /\ r.job = c /\ ~refused(r) /\ fate \in {"answered", "unanswered"} =>
                          Renewed(work'[c], resNow)
           /\ late' \in SUBSET (late \cup {r})
<1>1. CASE WorkRecorded(r) /\ UNCHANGED late
  BY <1>1, RequestRecorded
<1>2. CASE UNCHANGED <<work, res>> /\ fate \in {"delayed", "lost"} /\ late' \in SUBSET (late \cup {r})
  BY <1>2 DEF ResourcesInv, ResourcesTyped
<1> QED
  BY <1>1, <1>2 DEF ReportSent

LEMMA ResourcesSteps ==
    ASSUME ResourcesInv, [ResourcesNext]_resourceVars
    PROVE  ResourcesInv'
<1> DEFINE Fitting(r) == r \in Request /\ RequestFits(r)
<1>1. ASSUME NEW r, Fitting(r), NEW fate \in Fates, ReportSent(r, fate),
             UNCHANGED <<resNow, host, runner, file>>,
             mirror' \in Mirror, mirror'.mtime = mirror.mtime, mirror'.pc \in {mirror.pc, "idle"}
      PROVE  ResourcesInv'
  <2>1. /\ work' \in [Jobs -> WorkRow] /\ res' \in Entry
        /\ \A j \in Jobs : RowFits(work'[j])
        /\ \A c \in Commands : runner[c].pc # "ended" => Renewed(work'[c], runner[c].renewed)
        /\ late' \in SUBSET (late \cup {r})
    BY <1>1, RequestSent DEF RequestFits
  <2>2. late' \in SUBSET Request /\ \A q \in late' : RequestFits(q)
    BY <1>1, <2>1 DEF ResourcesInv, ResourcesTyped
  <2>3. ResourcesTyped'
    BY <1>1, <2>1, <2>2 DEF ResourcesInv, ResourcesTyped
  <2>4. mirror'.pc \in Files => file[mirror'.pc].state # "none"
    BY <1>1, ResourcesAssumption DEF ResourcesInv
  <2> QED
    BY <1>1, <2>1, <2>2, <2>3, <2>4 DEF ResourcesInv, RowFits, Renewed, RequestFits, Dated
<1>2. CASE ReportWork
  <2>1. PICK r \in late : WorkRecorded(r) /\ late' = late \ {r}
    BY <1>2 DEF ReportWork
  <2>2. r \in Request /\ RequestFits(r)
    BY <2>1 DEF ResourcesInv, ResourcesTyped
  <2>3. /\ work' \in [Jobs -> WorkRow] /\ res' \in Entry
        /\ \A j \in Jobs : RowFits(work'[j])
        /\ \A c \in Commands : runner[c].pc # "ended" => Renewed(work'[c], runner[c].renewed)
    BY <2>1, <2>2, RequestRecorded DEF RequestFits
  <2>4. ResourcesTyped'
    BY <1>2, <2>1, <2>3 DEF ReportWork, ResourcesInv, ResourcesTyped
  <2> QED
    BY <1>2, <2>1, <2>3, <2>4 DEF ReportWork, ResourcesInv, RowFits, Renewed, RequestFits, Dated
<1>3. ASSUME NEW c \in Commands, checkIn(c) PROVE ResourcesInv'
  <2>1. PICK fate \in Fates :
           LET r == checkInRequest(c)
               ok == fate \in {"answered", "unanswered"} /\ ~refused(r)
           IN /\ runner[c].pc \in {"idle", "running"}
              /\ ReportSent(r, fate)
              /\ runner' = [runner EXCEPT ![c] =
                   [pc |-> "running", id |-> @.id \/ (ok /\ fate = "answered"),
                    renewed |-> IF ok THEN resNow ELSE @.renewed]]
    BY <1>3 DEF checkIn
  <2>2. PICK r : r = checkInRequest(c)
    OBVIOUS
  <2> DEFINE ok == fate \in {"answered", "unanswered"} /\ ~refused(r)
  <2>3. r \in Request /\ RequestFits(r) /\ r.job = c
    <3>1. r = IF runner[c].id THEN Update(c, "same", 0) ELSE Report(c, "running", 0)
      BY <2>2 DEF checkInRequest
    <3>2. c \in Jobs /\ 0 \in ResTimes /\ 0 <= resNow
      BY Numbers DEF Jobs, ResourcesInv, ResourcesTyped
    <3>3. CASE r = Update(c, "same", 0)
      BY <3>2, <3>3 DEF Update, Request, RequestFits, Dated
    <3>4. CASE r = Report(c, "running", 0)
      BY <3>2, <3>4 DEF Report, Request, RequestFits, Dated, WorkStates
    <3> QED
      BY <3>1, <3>3, <3>4
  <2>4. PICK n \in [pc : {"idle", "running", "ended"}, id : BOOLEAN, renewed : ResTimes] :
           /\ runner' = [runner EXCEPT ![c] = n]
           /\ n.pc = "running" /\ n.renewed = IF ok THEN resNow ELSE runner[c].renewed
    <3> DEFINE n == [pc |-> "running", id |-> runner[c].id \/ (ok /\ fate = "answered"),
                     renewed |-> IF ok THEN resNow ELSE runner[c].renewed]
    <3>1. runner' = [runner EXCEPT ![c] = n]
      BY <2>1, <2>2
    <3>2. n.pc = "running" /\ n.renewed = IF ok THEN resNow ELSE runner[c].renewed
      OBVIOUS
    <3>3. resNow \in ResTimes /\ runner[c].renewed \in ResTimes /\ runner[c].id \in BOOLEAN
      BY DEF ResourcesInv, ResourcesTyped, ResTimes
    <3>4. n.id \in BOOLEAN
      BY <3>3
    <3>5. n \in [pc : {"idle", "running", "ended"}, id : BOOLEAN, renewed : ResTimes]
      BY <3>3, <3>4
    <3> HIDE DEF n
    <3> QED
      BY <3>1, <3>2, <3>5
  <2>5. /\ work' \in [Jobs -> WorkRow] /\ res' \in Entry
        /\ \A j \in Jobs : RowFits(work'[j])
        /\ \A d \in Commands : runner[d].pc # "ended" =>
              /\ Renewed(work'[d], runner[d].renewed)
              /\ c = d /\ ok => Renewed(work'[d], resNow)
        /\ late' \in SUBSET (late \cup {r})
    BY <2>1, <2>2, <2>3, RequestSent DEF RequestFits
  <2>6. UNCHANGED <<resNow, host, file, mirror>>
    BY <1>3 DEF checkIn
  <2> HIDE DEF ok
  <2>7. runner' \in [Commands -> [pc : {"idle", "running", "ended"}, id : BOOLEAN, renewed : ResTimes]]
    BY <2>4 DEF ResourcesInv, ResourcesTyped
  <2>8. \A d \in Commands : runner'[d] = IF d = c THEN n ELSE runner[d]
    BY <2>4 DEF ResourcesInv, ResourcesTyped
  <2>9. late' \in SUBSET Request
    BY <2>3, <2>5 DEF ResourcesInv, ResourcesTyped
  <2>10. ResourcesTyped'
    BY <2>5, <2>6, <2>7, <2>9 DEF ResourcesInv, ResourcesTyped
  <2>11. ASSUME NEW q \in late' PROVE RequestFits(q)'
    <3>1. RequestFits(q)
      BY <2>3, <2>5, <2>11 DEF ResourcesInv
    <3>2. q.job \in Commands /\ runner'[q.job].pc # "ended" => runner[q.job].pc # "ended"
      BY <2>1, <2>8
    <3> QED
      BY <2>6, <3>1, <3>2 DEF RequestFits, Dated
  <2>12. ASSUME NEW d \in Commands
         PROVE  /\ runner'[d].renewed <= resNow
                /\ runner'[d].pc # "ended" => Renewed(work'[d], runner'[d].renewed)
    <3>1. CASE d = c
      <4>1. resNow <= resNow /\ runner[c].renewed <= resNow
        BY DEF ResourcesInv, ResourcesTyped
      <4>2. runner[c].pc # "ended"
        BY <2>1
      <4> QED
        BY <2>4, <2>5, <2>8, <3>1, <4>1, <4>2
    <3>2. CASE d # c
      BY <2>5, <2>8, <3>2 DEF ResourcesInv
    <3> QED
      BY <3>1, <3>2
  <2> QED
    BY <2>5, <2>6, <2>10, <2>11, <2>12 DEF ResourcesInv, RowFits, Renewed
<1>4. ASSUME NEW c \in Commands, checkOut(c) PROVE ResourcesInv'
  <2>1. PICK s \in {"completed", "failed", "cancelled"}, fate \in Fates :
           /\ runner[c].pc = "running"
           /\ IF runner[c].id THEN ReportSent(Update(c, s, 0), fate)
              ELSE UNCHANGED <<work, res, late>>
           /\ runner' = [runner EXCEPT ![c].pc = "ended"]
           /\ UNCHANGED <<resNow, host, file, mirror>>
    BY <1>4 DEF checkOut
  <2>2. PICK r : r = Update(c, s, 0)
    OBVIOUS
  <2> DEFINE Asked == r \in Request /\ r.job = c /\ r.observed = 0 /\ r.op = "update"
  <2>3. Asked
    <3>1. c \in Jobs /\ 0 \in ResTimes
      BY Numbers DEF Jobs
    <3> QED
      BY <2>2, <3>1 DEF Update, Request, WorkStates
  <2>4. /\ runner' \in [Commands -> [pc : {"idle", "running", "ended"}, id : BOOLEAN, renewed : ResTimes]]
        /\ \A d \in Commands : /\ runner'[d].renewed = runner[d].renewed
                               /\ d # c => runner'[d].pc = runner[d].pc
        /\ runner'[c].pc = "ended"
    BY <2>1 DEF ResourcesInv, ResourcesTyped
  <2>5. 0 <= resNow /\ resNow \in ResTimes /\ resNow # 0
    BY DEF ResourcesInv, ResourcesTyped, ResTimes
  <2>10. Dated(r) /\ r.state # "same"
    BY <2>2, <2>3, <2>5 DEF Dated, Update
  <2>6. /\ work' \in [Jobs -> WorkRow] /\ res' \in Entry
        /\ \A j \in Jobs : RowFits(work'[j])
        /\ \A d \in Commands : d # c /\ runner[d].pc # "ended" => Renewed(work'[d], runner[d].renewed)
        /\ late' \in SUBSET (late \cup {r})
    <3>1. CASE UNCHANGED <<work, res, late>>
      BY <3>1 DEF ResourcesInv, ResourcesTyped
    <3>2. CASE ReportSent(r, fate)
      BY <2>3, <2>5, <2>10, <3>2, RequestSent
    <3> QED
      BY <2>1, <2>2, <3>1, <3>2
  <2>7. late' \in SUBSET Request
    BY <2>3, <2>6 DEF ResourcesInv, ResourcesTyped
  <2>8. ResourcesTyped'
    BY <2>1, <2>4, <2>6, <2>7 DEF ResourcesInv, ResourcesTyped
  <2>9. ASSUME NEW q \in late' PROVE RequestFits(q)'
    <3>1. q = r \/ RequestFits(q)
      BY <2>6, <2>9 DEF ResourcesInv
    <3> QED
      BY <2>1, <2>3, <2>4, <2>10, <3>1 DEF RequestFits, Dated
  <2> QED
    BY <2>1, <2>4, <2>6, <2>8, <2>9 DEF ResourcesInv, RowFits, Renewed
<1>5. ASSUME NEW f \in Files, FileMoves(f) PROVE ResourcesInv'
  <2>1. PICK s \in WorkStates :
           /\ file' = [file EXCEPT ![f] = [state |-> s, mtime |-> resNow]]
           /\ UNCHANGED <<resNow, host, res, work, runner, mirror, late>>
    BY <1>5 DEF FileMoves, WorkStates
  <2>2. resNow \in ResTimes /\ resNow <= resNow
    BY DEF ResourcesInv, ResourcesTyped, ResTimes
  <2>3. /\ file' \in [Files -> [state : WorkStates \cup {"none"}, mtime : ResTimes]]
        /\ \A g \in Files : /\ file'[g].mtime <= resNow
                            /\ file[g].state # "none" => file'[g].state # "none"
    <3>1. \A g \in Files : file'[g] = IF g = f THEN [state |-> s, mtime |-> resNow] ELSE file[g]
      BY <2>1 DEF ResourcesInv, ResourcesTyped
    <3>2. s # "none"
      BY DEF WorkStates
    <3>3. \A g \in Files : /\ file'[g].mtime <= resNow
                           /\ file[g].state # "none" => file'[g].state # "none"
      BY <2>2, <3>1, <3>2 DEF ResourcesInv
    <3>4. file' \in [Files -> [state : WorkStates \cup {"none"}, mtime : ResTimes]]
      BY <2>1, <2>2 DEF ResourcesInv, ResourcesTyped
    <3> QED
      BY <3>3, <3>4
  <2>4. ResourcesTyped'
    BY <2>1, <2>3 DEF ResourcesInv, ResourcesTyped
  <2>5. PICK m \in Mirror : m = mirror /\ m = mirror' /\ m.mtime <= resNow
    BY <2>1 DEF ResourcesInv, ResourcesTyped
  <2>6. m.pc \in Files => file'[m.pc].state # "none"
    <3>1. m.pc \in Files => file[m.pc].state # "none"
      BY <2>5 DEF ResourcesInv
    <3> QED
      BY <2>3, <3>1
  <2>7. (mirror.pc \in Files => file[mirror.pc].state # "none")' /\ (mirror.mtime <= resNow)'
    BY <2>1, <2>5, <2>6
  <2>8. (\A r \in late : RequestFits(r))'
    BY <2>1 DEF ResourcesInv, RequestFits, Dated
  <2>9. (\A j \in Jobs : RowFits(work[j]))'
    BY <2>1 DEF ResourcesInv, RowFits
  <2>10. (\A c \in Commands :
            /\ runner[c].renewed <= resNow
            /\ runner[c].pc # "ended" => Renewed(work[c], runner[c].renewed))'
    BY <2>1 DEF ResourcesInv, Renewed
  <2>11. (\A g \in Files : file[g].mtime <= resNow)'
    BY <2>1, <2>3
  <2> QED
    BY <2>4, <2>7, <2>8, <2>9, <2>10, <2>11 DEF ResourcesInv
<1>6. ASSUME UNCHANGED <<resNow, work, runner, file, late>>, mirror' \in Mirror,
             mirror'.mtime <= resNow, UNCHANGED <<host, res>>,
             mirror'.pc \in Files => file[mirror'.pc].state # "none"
      PROVE  ResourcesInv'
  BY <1>6 DEF ResourcesInv, ResourcesTyped, RowFits, Renewed, RequestFits, Dated
<1>7. CASE workbench
  <2>1. mirror' = [pc |-> "listed", active |-> {f \in Files : IsActive(work[f].state)}, mtime |-> 0]
        /\ UNCHANGED <<resNow, host, res, work, runner, file, late>>
    BY <1>7 DEF workbench
  <2>2. 0 \in ResTimes /\ 0 <= resNow
    BY Numbers DEF ResourcesInv, ResourcesTyped
  <2>3. mirror' \in Mirror /\ mirror'.mtime = 0 /\ mirror'.pc \notin Files
    BY ResourcesAssumption, <2>1, <2>2 DEF Mirror
  <2> QED
    BY <1>6, <2>1, <2>2, <2>3
<1>8. ASSUME NEW f \in Files, statFile(f) PROVE ResourcesInv'
  <2>1. PICK m \in Mirror : m = mirror
    BY DEF ResourcesInv, ResourcesTyped
  <2>2. PICK t \in ResTimes : t = file[f].mtime /\ t <= resNow
    BY DEF ResourcesInv, ResourcesTyped
  <2>3. mirror' = [m EXCEPT !.pc = f, !.mtime = t]
    BY <1>8, <2>1, <2>2 DEF statFile
  <2>4. mirror' \in Mirror /\ mirror'.mtime = t /\ mirror'.pc = f
    BY <2>3 DEF Mirror
  <2> QED
    BY <1>6, <1>8, <2>2, <2>4 DEF statFile
<1>9. ASSUME NEW f \in Files, NEW fate \in Fates, workbenchFile(f, fate) PROVE ResourcesInv'
  <2>1. PICK m \in Mirror : m = mirror /\ m.mtime <= resNow
    BY DEF ResourcesInv, ResourcesTyped
  <2>2. PICK s \in WorkStates : s = file[f].state
    BY <1>9 DEF workbenchFile, ResourcesInv, ResourcesTyped
  <2>3. mirror' \in Mirror /\ mirror'.mtime = m.mtime /\ mirror'.pc = "idle" /\ "idle" \notin Files
    <3>1. mirror' = [m EXCEPT !.pc = "idle"]
      BY <1>9, <2>1 DEF workbenchFile
    <3> QED
      BY <3>1, ResourcesAssumption DEF Mirror
  <2>4. f \in Jobs /\ f \notin Commands /\ m.mtime \in ResTimes
    BY <2>1, ResourcesAssumption DEF Jobs, Mirror
  <2>5. CASE IsActive(s) /\ ReportSent(Report(f, s, m.mtime), fate)
    <3>1. PICK r : r = Report(f, s, m.mtime)
      OBVIOUS
    <3>2. Fitting(r)
      BY <2>1, <2>4, <2>5, <3>1 DEF Report, Request, RequestFits, Dated, IsActive, WorkStates
    <3> QED
      BY <1>1, <1>9, <2>1, <2>3, <2>5, <3>1, <3>2 DEF workbenchFile
  <2>6. CASE ReportSent(Update(f, s, m.mtime), fate)
    <3>1. PICK r : r = Update(f, s, m.mtime)
      OBVIOUS
    <3>2. Fitting(r)
      BY <2>1, <2>2, <2>4, <2>6, <3>1 DEF Update, Request, RequestFits, Dated
    <3> QED
      BY <1>1, <1>9, <2>1, <2>3, <2>6, <3>1, <3>2 DEF workbenchFile
  <2>7. CASE UNCHANGED <<work, res, late>>
    BY <1>6, <1>9, <2>1, <2>3, <2>7 DEF workbenchFile
  <2> QED
    BY <1>9, <2>1, <2>2, <2>5, <2>6, <2>7 DEF workbenchFile
<1>10. ASSUME UNCHANGED <<resNow, work, runner, file, mirror, late>>,
              res' \in Entry,
              host' \in [known : BOOLEAN, sampled : ResTimes, busy : BOOLEAN, error : BOOLEAN,
                         apps : Queues \cup {"none"}, appsChecked : ResTimes]
       PROVE  ResourcesInv'
  BY <1>10 DEF ResourcesInv, ResourcesTyped, RowFits, Renewed, RequestFits, Dated
<1>11. CASE RegisterHost
  <2>1. PICK h \in [known : BOOLEAN, sampled : ResTimes, busy : BOOLEAN, error : BOOLEAN,
                    apps : Queues \cup {"none"}, appsChecked : ResTimes] : h = host
    BY DEF ResourcesInv, ResourcesTyped
  <2>2. host' = [h EXCEPT !.known = TRUE] /\ res' \in Entry
    BY <1>11, <2>1 DEF RegisterHost, ResourcesInv, ResourcesTyped
  <2> QED
    BY <1>10, <1>11, <2>2 DEF RegisterHost
<1>12. ASSUME NEW touch \in BOOLEAN, UpsertResource(touch) PROVE ResourcesInv'
  <2>1. PICK e \in Entry : e = res
    BY DEF ResourcesInv, ResourcesTyped
  <2>2. PICK t \in ResTimes : t = IF touch THEN resNow ELSE e.lastUsed
    BY DEF ResourcesInv, ResourcesTyped, ResTimes, Entry
  <2>3. res' = [e EXCEPT !.known = TRUE, !.lastUsed = t]
    BY <1>12, <2>1, <2>2 DEF UpsertResource
  <2>4. res' \in Entry
    BY <2>3 DEF Entry
  <2> QED
    BY <1>10, <1>12, <2>4 DEF UpsertResource, ResourcesInv, ResourcesTyped
<1>13. ASSUME NEW p \in Probes, ReportTelemetry(p) PROVE ResourcesInv'
  <2>1. PICK h \in [known : BOOLEAN, sampled : ResTimes, busy : BOOLEAN, error : BOOLEAN,
                    apps : Queues \cup {"none"}, appsChecked : ResTimes] : h = host
    BY DEF ResourcesInv, ResourcesTyped
  <2>2. PICK e \in Entry : e = res
    BY DEF ResourcesInv, ResourcesTyped
  <2>3. p.at \in ResTimes /\ p.busy \in BOOLEAN /\ p.failed \in BOOLEAN
    <3>1. CASE p = Unreadable
      BY Numbers, <3>1 DEF Unreadable
    <3>2. CASE p \in [failed : {FALSE}, at : ResTimes, busy : BOOLEAN, match : BOOLEAN]
      BY <3>2
    <3> QED
      BY <3>1, <3>2 DEF Probes
  <2>4. PICK t \in ResTimes : t = sampledAt(p)
    BY <2>3 DEF sampledAt, ResourcesInv, ResourcesTyped, ResTimes
  <2>5. host' = IF ~p.failed /\ t >= h.sampled
                THEN [h EXCEPT !.sampled = t, !.busy = p.busy, !.error = FALSE]
                ELSE [h EXCEPT !.error = h.error \/ p.failed]
    BY <1>13, <2>1, <2>4 DEF ReportTelemetry
  <2>6. res' \in {e, [e EXCEPT !.activity = t]}
    BY <1>13, <2>2, <2>4 DEF ReportTelemetry
  <2>7. res' \in Entry
    BY <2>6 DEF Entry
  <2>8. host' \in [known : BOOLEAN, sampled : ResTimes, busy : BOOLEAN, error : BOOLEAN,
                   apps : Queues \cup {"none"}, appsChecked : ResTimes]
    <3>1. CASE host' = [h EXCEPT !.sampled = t, !.busy = p.busy, !.error = FALSE]
      BY <2>3, <3>1
    <3>2. CASE host' = [h EXCEPT !.error = h.error \/ p.failed]
      <4>1. (h.error \/ p.failed) \in BOOLEAN
        BY <2>3
      <4> QED
        BY <3>2, <4>1
    <3> QED
      BY <2>5, <3>1, <3>2
  <2> QED
    BY <1>10, <1>13, <2>7, <2>8 DEF ReportTelemetry
<1>14. ASSUME NEW q \in Queues, ReportApps(q) PROVE ResourcesInv'
  <2>1. PICK h \in [known : BOOLEAN, sampled : ResTimes, busy : BOOLEAN, error : BOOLEAN,
                    apps : Queues \cup {"none"}, appsChecked : ResTimes] : h = host
    BY DEF ResourcesInv, ResourcesTyped
  <2>2. PICK e \in Entry : e = res
    BY DEF ResourcesInv, ResourcesTyped
  <2>3. PICK t \in ResTimes : t = resNow
    BY DEF ResourcesInv, ResourcesTyped, ResTimes
  <2>4. host' = [h EXCEPT !.apps = q, !.appsChecked = t] /\ res' \in {e, [e EXCEPT !.activity = t]}
    BY <1>14, <2>1, <2>2, <2>3 DEF ReportApps
  <2>5. res' \in Entry
    BY <2>4 DEF Entry
  <2>6. host' \in [known : BOOLEAN, sampled : ResTimes, busy : BOOLEAN, error : BOOLEAN,
                   apps : Queues \cup {"none"}, appsChecked : ResTimes]
    BY <2>4
  <2> QED
    BY <1>10, <1>14, <2>5, <2>6 DEF ReportApps
<1>15. CASE ImportBoard
  <2>1. PICK h \in [known : BOOLEAN, sampled : ResTimes, busy : BOOLEAN, error : BOOLEAN,
                    apps : Queues \cup {"none"}, appsChecked : ResTimes] : h = host
    BY DEF ResourcesInv, ResourcesTyped
  <2>2. host' \in [known : BOOLEAN, sampled : ResTimes, busy : BOOLEAN, error : BOOLEAN,
                   apps : Queues \cup {"none"}, appsChecked : ResTimes]
    BY <1>15, <2>1 DEF ImportBoard
  <2>3. res' \in Entry
    <3>1. NoResource \in Entry
      BY Numbers DEF NoResource, Entry
    <3>2. PICK none \in Entry : none = NoResource
      BY <3>1
    <3>3. [none EXCEPT !.known = TRUE, !.lastUsed = 1] \in Entry
      BY Numbers DEF Entry
    <3>4. res' \in {res, [none EXCEPT !.known = TRUE, !.lastUsed = 1]}
      BY <1>15, <3>2 DEF ImportBoard
    <3> QED
      BY <3>3, <3>4 DEF ResourcesInv, ResourcesTyped
  <2>4. PICK v : v = applyWorkState(NoWork, "running", 1)
    OBVIOUS
  <2>5. v \in WorkRow /\ RowFits(v)
    <3>1. NoWork \in WorkRow /\ RowFits(NoWork)
      BY Numbers DEF NoWork, WorkRow, RowFits, IsTerminal, ResourcesInv, ResourcesTyped
    <3>2. 1 <= resNow /\ 1 # 0 /\ 1 \in ResTimes /\ "running" \in WorkStates
      BY Numbers DEF ResourcesInv, ResourcesTyped, WorkStates
    <3> QED
      BY <2>4, <3>1, <3>2, StateApplied DEF ResourcesInv
  <2>6. work' = [j \in Jobs |-> IF j \in Files /\ work[j].state = "none" THEN v ELSE work[j]]
        /\ UNCHANGED <<resNow, runner, file, mirror, late>>
    BY <1>15, <2>4 DEF ImportBoard
  <2>7. /\ work' \in [Jobs -> WorkRow]
        /\ \A j \in Jobs : RowFits(work'[j])
        /\ \A c \in Commands : work'[c] = work[c]
    <3>1. \A j \in Jobs : work'[j] \in {v, work[j]}
      BY <2>6
    <3>2. \A c \in Commands : c \in Jobs /\ c \notin Files
      BY ResourcesAssumption DEF Jobs
    <3>3. \A c \in Commands : work'[c] = work[c]
      BY <2>6, <3>2
    <3>4. \A j \in Jobs : work'[j] \in WorkRow /\ RowFits(work'[j])
      BY <2>5, <3>1 DEF ResourcesInv, ResourcesTyped
    <3> QED
      BY <2>6, <3>3, <3>4
  <2>8. ResourcesTyped'
    BY <2>2, <2>3, <2>6, <2>7 DEF ResourcesInv, ResourcesTyped
  <2> QED
    BY <2>6, <2>7, <2>8 DEF ResourcesInv, RowFits, Renewed, RequestFits, Dated
<1>16. CASE ResTick
  <2>1. UNCHANGED <<host, res, work, runner, file, mirror, late>> /\ resNow' = resNow + 1
        /\ resNow < ResMaxTime
    BY <1>16 DEF ResTick
  <2>2. resNow' \in 1..ResMaxTime
    BY <2>1, Numbers DEF ResourcesInv, ResourcesTyped
  <2>3. ASSUME NEW t \in ResTimes, t <= resNow PROVE t <= resNow'
    BY <2>1, <2>3 DEF ResourcesInv, ResourcesTyped, ResTimes
  <2>4. ResourcesTyped'
    BY <2>1, <2>2 DEF ResourcesInv, ResourcesTyped
  <2>5. \A j \in Jobs : work[j].updated \in ResTimes
    BY DEF ResourcesInv, ResourcesTyped, WorkRow
  <2>6. \A c \in Commands : runner[c].renewed \in ResTimes
    BY DEF ResourcesInv, ResourcesTyped
  <2>7. mirror.mtime \in ResTimes /\ \A f \in Files : file[f].mtime \in ResTimes
    BY DEF ResourcesInv, ResourcesTyped, Mirror
  <2>8. \A r \in late : r.observed \in ResTimes
    BY DEF ResourcesInv, ResourcesTyped, Request
  <2>9. \A j \in Jobs : RowFits(work[j])'
    BY <2>1, <2>3, <2>5 DEF ResourcesInv, RowFits
  <2>10. \A r \in late : RequestFits(r)'
    BY <2>1, <2>3, <2>8 DEF ResourcesInv, RequestFits, Dated
  <2> QED
    BY <2>1, <2>3, <2>4, <2>6, <2>7, <2>9, <2>10 DEF ResourcesInv, Renewed
<1>17. CASE UNCHANGED resourceVars
  BY <1>17 DEF resourceVars, ResourcesInv, ResourcesTyped, RowFits, Renewed, RequestFits, Dated
<1>18. "answered" \in Fates
  BY DEF Fates
<1> QED
  BY <1>2, <1>3, <1>4, <1>5, <1>7, <1>8, <1>9, <1>11, <1>12, <1>13, <1>14, <1>15, <1>16, <1>17,
     <1>18 DEF ResourcesNext, Mirrors

-----------------------------------------------------------------------------

LEMMA QuietByRows == ResourcesInv => QuietIsReal
<1> SUFFICES ASSUME ResourcesInv PROVE QuietIsReal
  OBVIOUS
<1>1. ResourcesTypeOK
  <2>1. host.sampled \in ResTimes /\ host.appsChecked \in ResTimes
    BY DEF ResourcesInv, ResourcesTyped
  <2>2. res.lastUsed \in ResTimes /\ res.activity \in ResTimes
    BY DEF ResourcesInv, ResourcesTyped, Entry
  <2>3. \A j \in Jobs : work[j].updated \in ResTimes /\ work[j].ended \in ResTimes
    BY DEF ResourcesInv, ResourcesTyped, WorkRow
  <2> QED
    BY <2>1, <2>2, <2>3 DEF ResourcesTypeOK, ResourcesInv, ResourcesTyped
<1>2. \A j \in Jobs : IsTerminal(work[j].state) <=> work[j].ended # 0
  BY DEF ResourcesInv, RowFits
<1>3. ASSUME hostResponse = "quiet", NEW c \in Commands, runner[c].pc = "running",
             runner[c].renewed # 0
      PROVE  resNow > runner[c].renewed + TTL
  <2>1. {work[j].state : j \in {k \in Jobs : IsActive(work[k].state) /\ ~Stale(work[k])}} = {}
    BY <1>3 DEF hostResponse
  <2>2. c \in Jobs
    BY DEF Jobs
  <2>3. work[c].state = "running" /\ work[c].expires >= runner[c].renewed + TTL
    BY <1>3 DEF ResourcesInv, Renewed
  <2>4. Stale(work[c])
    BY <2>1, <2>2, <2>3 DEF IsActive
  <2>5. work[c].expires < resNow
    BY <2>4 DEF Stale
  <2>6. work[c].expires \in Nat /\ resNow \in Nat /\ runner[c].renewed \in Nat /\ TTL \in Nat
    <3>1. work[c].expires \in Nat /\ resNow \in ResTimes /\ runner[c].renewed \in ResTimes
      BY <2>2 DEF ResourcesInv, ResourcesTyped, WorkRow, ResTimes
    <3> QED
      BY <3>1, Numbers
  <2> QED
    BY <2>3, <2>5, <2>6
<1> QED
  BY <1>1, <1>2, <1>3 DEF QuietIsReal

\* A host is not shown as quiet while a command runs on it whose check-in was
\* recorded less than its time to live ago, and finished work has an end,
\* whatever requests are lost, answered late or recorded late
\* (resources/internal/board.go, hostResponse; store.go, applyWorkState).
THEOREM QuietCorrect == ResourcesSpec => []QuietIsReal
<1> QED
  BY ResourcesStart, ResourcesSteps, QuietByRows, PTL DEF ResourcesSpec

=============================================================================
