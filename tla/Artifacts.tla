------------------------------ MODULE Artifacts -----------------------------
(***************************************************************************)
(* Image artifacts (artifacts/internal): an upload is hashed, installed in *)
(* the blob store under its hash through a temporary file, and described   *)
(* by a row that is inserted after that; a deletion marks the row and      *)
(* leaves the blob, which other rows may share.  Uploads of the same       *)
(* content run at once, are sent again after a lost answer, and stop       *)
(* anywhere.                                                               *)
(***************************************************************************)
EXTENDS Integers, FiniteSets, FiniteSetsExt

CONSTANTS
    ImageUploads,     \* bound: uploads; each draws an artifact id of its own
    Contents,    \* contents of uploads, identified with their hashes
    Names        \* logical names in one task

\* A hash is never empty.
ASSUME ArtifactsAssumption == IsFiniteSet(ImageUploads) /\ "none" \notin Contents

VARIABLES
    blobs,       \* installed blobs, by hash: what a reader of the file finds
    artifacts,   \* rows, by the upload that made them
    upload,      \* uploads in progress
    created,     \* order of created_at among the rows
    reading      \* a request for content between its two steps, or none

artifactVars == <<blobs, artifacts, upload, created, reading>>

-----------------------------------------------------------------------------

NoArtifact == [name |-> "none", sha |-> "none", deleted |-> "none"]
NoImage == [pc |-> "idle", name |-> "none", sha |-> "none", stamp |-> 0]
NoReading == [id |-> 0, sha |-> "none", body |-> "none"]

ArtifactsInit ==
    /\ blobs = [h \in Contents |-> "none"]
    /\ artifacts = [u \in ImageUploads |-> NoArtifact]
    /\ upload = [u \in ImageUploads |-> NoImage]
    /\ created = 0
    /\ reading = NoReading

ImageTo(u, r) == upload' = [upload EXCEPT ![u] = r]

-----------------------------------------------------------------------------

\* Create up to the hash; images of another type, too many bytes or too many
\* pixels are refused before anything is written.
Receive(u, n, h) ==
    /\ upload[u].pc = "idle"
    /\ ImageTo(u, [pc |-> "stat", name |-> n, sha |-> h, stamp |-> 0])
    /\ UNCHANGED <<blobs, artifacts, created, reading>>

\* Save finds the blob, or writes a temporary file beside it.
StatBlob(u) ==
    LET r == upload[u] IN
    /\ r.pc = "stat"
    /\ ImageTo(u, [r EXCEPT !.pc = IF blobs[r.sha] # "none" THEN "saved" ELSE "temp"])
    /\ UNCHANGED <<blobs, artifacts, created, reading>>

\* Mutant: the blob is written in place; the write may be cut short.
WriteInPlace(u) ==
    LET r == upload[u] IN
    /\ r.pc = "temp"
    /\ \/ blobs' = [blobs EXCEPT ![r.sha] = "partial"] /\ ImageTo(u, [r EXCEPT !.pc = "done"])
       \/ blobs' = [blobs EXCEPT ![r.sha] = r.sha] /\ ImageTo(u, [r EXCEPT !.pc = "saved"])
    /\ UNCHANGED <<artifacts, created, reading>>

\* The temporary file is complete when it is renamed.
InstallBlob(u) ==
    LET r == upload[u] IN
    /\ r.pc = "temp"
    /\ blobs' = [blobs EXCEPT ![r.sha] = r.sha]
    /\ ImageTo(u, [r EXCEPT !.pc = "saved"])
    /\ UNCHANGED <<artifacts, created, reading>>

\* NewArtifact: the row's id and time.
NewArtifact(u) ==
    LET r == upload[u] IN
    /\ r.pc = "saved"
    /\ created' = created + 1
    /\ ImageTo(u, [r EXCEPT !.pc = "new", !.stamp = created'])
    /\ UNCHANGED <<blobs, artifacts, reading>>

\* The insertion; its answer may be lost, and the client sends a new upload.
CreateArtifact(u) ==
    LET r == upload[u] IN
    /\ r.pc = "new"
    /\ artifacts' = [artifacts EXCEPT ![u] = [name |-> r.name, sha |-> r.sha, deleted |-> "none"]]
    /\ ImageTo(u, [r EXCEPT !.pc = "done"])
    /\ UNCHANGED <<blobs, created, reading>>

UploadStops(u) ==
    /\ upload[u].pc \notin {"idle", "done"}
    /\ ImageTo(u, [upload[u] EXCEPT !.pc = "done"])
    /\ UNCHANGED <<blobs, artifacts, created, reading>>

\* The first deletion is the one that is kept.
TombstoneArtifact(u, reason) ==
    /\ artifacts[u] # NoArtifact
    /\ artifacts' = [artifacts EXCEPT ![u].deleted = IF @ = "none" THEN reason ELSE @]
    /\ UNCHANGED <<blobs, upload, created, reading>>

-----------------------------------------------------------------------------

Live(u) == artifacts[u] # NoArtifact /\ artifacts[u].deleted = "none"

\* GetArtifactByScope: the newest row of the name that is not deleted.
GetArtifactByScope(n) ==
    {u \in ImageUploads : /\ Live(u) /\ artifacts[u].name = n
                     /\ \A v \in ImageUploads : Live(v) /\ artifacts[v].name = n
                                             => upload[v].stamp <= upload[u].stamp}

\* OpenContent through a reference: the row first, the blob after that.
ResolveRef(n) == \E u \in GetArtifactByScope(n) :
    /\ reading = NoReading
    /\ reading' = [id |-> u, sha |-> artifacts[u].sha, body |-> "none"]
    /\ UNCHANGED <<blobs, artifacts, upload, created>>

OpenContent ==
    /\ reading.id # 0 /\ reading.body = "none"
    /\ reading' = [reading EXCEPT !.body = IF blobs[reading.sha] = "none" THEN "missing"
                                           ELSE blobs[reading.sha]]
    /\ UNCHANGED <<blobs, artifacts, upload, created>>

ContentSent ==
    /\ reading.body # "none"
    /\ reading' = NoReading
    /\ UNCHANGED <<blobs, artifacts, upload, created>>

ArtifactsNext ==
    \/ OpenContent \/ ContentSent
    \/ \E n \in Names : ResolveRef(n)
    \/ \E u \in ImageUploads :
         \/ \E n \in Names, h \in Contents : Receive(u, n, h)
         \/ StatBlob(u) \/ InstallBlob(u) \/ NewArtifact(u) \/ CreateArtifact(u)
         \/ UploadStops(u) \/ TombstoneArtifact(u, "api_delete")

ArtifactsSpec == ArtifactsInit /\ [][ArtifactsNext]_artifactVars

-----------------------------------------------------------------------------

ArtifactsTypeOK ==
    /\ \A h \in Contents : blobs[h] \in {"none", "partial"} \cup Contents
    /\ created \in 0..Cardinality(ImageUploads)

\* Create installs the blob before it inserts the row, Save installs whole
\* files only, and Delete leaves blobs alone: the content behind every row
\* that is not deleted is there and hashes to what the row says, and a reader
\* who has found a row gets exactly that content, also when the artifact, or
\* another with the same content, is deleted in between.
ContentIsWhole ==
    /\ ArtifactsTypeOK
    /\ \A u \in ImageUploads : Live(u) => blobs[artifacts[u].sha] = artifacts[u].sha
    /\ reading.body # "none" => reading.body = reading.sha

=============================================================================
