----------------------------- MODULE DocPublish -----------------------------
(***************************************************************************)
(* Publication of documents and wiki pages to the blog repository          *)
(* (doc-publish/internal): the source is fetched and rendered, the post    *)
(* and the images of a wiki page are written, committed and pushed under   *)
(* the publisher's mutex, and a record of the publication is saved after   *)
(* that.  Requests run at once; any git command may fail, or take effect   *)
(* and time out; the service may stop anywhere.                            *)
(***************************************************************************)
EXTENDS Integers, Sequences, FiniteSets, FiniteSetsExt

CONSTANTS
    Publishers,      \* bound: requests, numbered from 1 as they come in
    MaxServed,    \* bound: requests served at once
    PostPaths,    \* _posts/DATE-SLUG.md: paths a new post may get
    MaxVersion,   \* bound: versions of a source
    MaxCommits,   \* bound: commits
    MaxPublications  \* bound: publication ids drawn

\* The images have a directory of their own.
ASSUME PublishAssumption ==
    MaxVersion \in Nat \ {0} /\ MaxPublications \in Nat /\ "images" \notin PostPaths

VARIABLES
    version,      \* the sources: a wiki page and a Den document
    publications, \* FilePublicationStore: records by id
    log,          \* commits of the branch
    pushed,       \* how many of them origin has
    uncommitted,  \* git status --porcelain: changed files, staged or not
    publishing    \* the requests; one that is past "locked" holds the mutex

publishVars == <<version, publications, log, pushed, uncommitted, publishing>>

-----------------------------------------------------------------------------

Sources == {"page", "document"}
PublicationIds == 1..MaxPublications
NoPublication == [source |-> "none", path |-> "none", version |-> 0, status |-> "none", commit |-> 0]

\* A file of the repository and what is in it; the page's images are one file.
Change(f, s, v) == [file |-> f, source |-> s, version |-> v]

\* A request that has been answered is "done".
NoPublish == [pc |-> "idle", source |-> "none", version |-> 0, id |-> 0,
              path |-> "none", overwrite |-> FALSE, commit |-> 0]

Answered == [NoPublish EXCEPT !.pc = "done"]

PublishInit ==
    /\ version = [s \in Sources |-> 1]
    /\ publications = [i \in PublicationIds |-> NoPublication]
    /\ log = <<>> /\ pushed = 0 /\ uncommitted = {}
    /\ publishing = [c \in Publishers |-> NoPublish]

InRepo == {"verified", "written", "imaged", "committed"}
Locked == \E c \in Publishers : publishing[c].pc \in InRepo

\* What the n-th commit, and what the working tree has at a file: the last
\* write wins.
CommittedAt(n, f) ==
    LET at == {m \in 1..n : \E ch \in log[m] : ch.file = f}
    IN IF at = {} THEN {} ELSE {ch \in log[Max(at)] : ch.file = f}
Committed(f) == CommittedAt(Len(log), f)
Tree(f) == IF \E ch \in uncommitted : ch.file = f
           THEN {ch \in uncommitted : ch.file = f} ELSE Committed(f)

HasTree(p) == Tree(p) # {}

FindBySource(s) ==
    LET same == {i \in PublicationIds : publications[i].source = s}
    IN IF same = {} THEN 0 ELSE Min(same)

Active == {c \in Publishers : publishing[c].pc \notin {"idle", "done"}}

To(c, p) == publishing' = [publishing EXCEPT ![c] = p]

-----------------------------------------------------------------------------

\* The page or document changes; its images change with it.
EditSource(s) ==
    /\ version[s] < MaxVersion /\ version' = [version EXCEPT ![s] = @ + 1]
    /\ UNCHANGED <<publications, log, pushed, uncommitted, publishing>>

\* documentForRequest: publish fetches the canonical source.
documentForRequest(c, s, o) ==
    /\ publishing[c].pc = "idle" /\ Cardinality(Active) < MaxServed
    /\ \A d \in Publishers : d < c => publishing[d].pc # "idle"
    /\ To(c, [NoPublish EXCEPT !.pc = "fetched", !.source = s, !.version = version[s], !.overwrite = o])
    /\ UNCHANGED <<version, publications, log, pushed, uncommitted>>

\* A page that was published before keeps its post.
render(s, prev) ==
    IF s = "page" /\ prev # 0 THEN {publications[prev].path} ELSE PostPaths

\* prepare: the path of a source without a record must be free; ids are random.
prepare(c) ==
    LET r == publishing[c]
        prev == FindBySource(r.source)
        taken == {i \in PublicationIds : publications[i] # NoPublication} \cup
                 {publishing[d].id : d \in Publishers}
    IN \E p \in render(r.source, prev) :
       /\ r.pc = "fetched"
       /\ IF prev = 0 /\ HasTree(p) /\ ~r.overwrite
          THEN To(c, Answered)
          ELSE \E i \in IF prev = 0 THEN PublicationIds \ taken ELSE {prev} :
                 To(c, [r EXCEPT !.pc = "prepared", !.id = i, !.path = p])
       /\ UNCHANGED <<version, publications, log, pushed, uncommitted>>

\* fetchAssets: the images must have the hashes the page named; then the
\* second look for a record of the source.
fetchAssets(c) ==
    LET r == publishing[c] IN
    /\ r.pc = "prepared"
    /\ IF r.source = "page" /\ version["page"] # r.version
       THEN To(c, Answered)
       ELSE To(c, [r EXCEPT !.pc = "ready", !.overwrite = @ \/ FindBySource(r.source) # 0])
    /\ UNCHANGED <<version, publications, log, pushed, uncommitted>>

-----------------------------------------------------------------------------
(* GitPublisher.Publish, under its mutex.                                    *)

\* Every failure is recorded, in the record the request has prepared.
Fails(c) ==
    LET r == publishing[c] IN To(c, [r EXCEPT !.pc = "failing"])

\* Mutant: the status of the repository is not looked at.
verifyRemoteOnly(c) ==
    LET r == publishing[c] IN
    /\ r.pc = "ready" /\ ~Locked
    /\ IF HasTree(r.path) /\ ~r.overwrite THEN Fails(c) ELSE To(c, [r EXCEPT !.pc = "verified"])
    /\ UNCHANGED <<version, publications, log, pushed, uncommitted>>

verifyRepo(c) ==
    LET r == publishing[c] IN
    /\ r.pc = "ready" /\ ~Locked
    /\ IF uncommitted # {} \/ (HasTree(r.path) /\ ~r.overwrite)
       THEN Fails(c) ELSE To(c, [r EXCEPT !.pc = "verified"])
    /\ UNCHANGED <<version, publications, log, pushed, uncommitted>>

\* A file that has the content of HEAD does not show in the status.
WrittenWith(ch) == {x \in uncommitted : x.file # ch.file} \cup ({ch} \ Committed(ch.file))

writePost(c, ok) ==
    LET r == publishing[c] IN
    /\ r.pc = "verified"
    /\ uncommitted' = WrittenWith(Change(r.path, r.source, r.version))
    /\ IF ok THEN To(c, [r EXCEPT !.pc = "written"]) ELSE Fails(c)
    /\ UNCHANGED <<version, publications, log, pushed>>

writeAssets(c, ok) ==
    LET r == publishing[c] IN
    /\ r.pc = "written"
    /\ uncommitted' = IF r.source = "page" /\ ok
                      THEN WrittenWith(Change("images", "page", r.version)) ELSE uncommitted
    /\ IF ok THEN To(c, [r EXCEPT !.pc = "imaged"]) ELSE Fails(c)
    /\ UNCHANGED <<version, publications, log, pushed>>

\* git add and git commit take what is staged; with nothing to commit the
\* commit fails.  A command that is cut off may have done its work.
commit(c, done, ok) ==
    LET r == publishing[c] IN
    /\ r.pc = "imaged" /\ (ok => done) /\ (done => uncommitted # {} /\ Len(log) < MaxCommits)
    /\ log' = IF done THEN Append(log, uncommitted) ELSE log
    /\ uncommitted' = IF done THEN {} ELSE uncommitted
    /\ IF ok THEN To(c, [r EXCEPT !.pc = "committed", !.commit = Len(log')]) ELSE Fails(c)
    /\ UNCHANGED <<version, publications, pushed>>

push(c, done, ok) ==
    LET r == publishing[c] IN
    /\ r.pc = "committed" /\ (ok => done)
    /\ pushed' = IF done THEN Len(log) ELSE pushed
    /\ IF ok THEN To(c, [r EXCEPT !.pc = "saving"]) ELSE Fails(c)
    /\ UNCHANGED <<version, publications, log, uncommitted>>

\* Save rewrites the record's file.
Save(c) ==
    LET r == publishing[c] IN
    /\ r.pc \in {"saving", "failing"}
    /\ publications' = [publications EXCEPT ![r.id] =
         [source |-> r.source, path |-> r.path, version |-> r.version,
          status |-> IF r.pc = "saving" THEN "published" ELSE "failed",
          commit |-> IF r.pc = "saving" THEN r.commit ELSE 0]]
    /\ To(c, Answered)
    /\ UNCHANGED <<version, log, pushed, uncommitted>>

\* The service stops: requests and mutex are gone, the repository stays as
\* it is.
PublisherStops ==
    /\ Active # {}
    /\ publishing' = [c \in Publishers |-> IF c \in Active THEN Answered ELSE publishing[c]]
    /\ UNCHANGED <<version, publications, log, pushed, uncommitted>>

\* An operator restores the working tree.
Restore ==
    /\ ~Locked /\ uncommitted # {}
    /\ uncommitted' = {}
    /\ UNCHANGED <<version, publications, log, pushed, publishing>>

PublishNext ==
    \/ PublisherStops \/ Restore
    \/ \E s \in Sources : EditSource(s)
    \/ \E c \in Publishers :
         \/ \E s \in Sources, o \in BOOLEAN : documentForRequest(c, s, o)
         \/ prepare(c) \/ fetchAssets(c) \/ verifyRepo(c) \/ Save(c)
         \/ \E ok \in BOOLEAN : writePost(c, ok) \/ writeAssets(c, ok)
         \/ \E done, ok \in BOOLEAN : commit(c, done, ok) \/ push(c, done, ok)

PublishSpec == PublishInit /\ [][PublishNext]_publishVars

-----------------------------------------------------------------------------

PublishTypeOK ==
    /\ \A s \in Sources : version[s] \in 1..MaxVersion
    /\ pushed \in 0..Len(log)
    /\ Cardinality({c \in Publishers : publishing[c].pc \in InRepo}) <= 1

\* "Dirty repos are rejected" (README, Safety Model), and the images are
\* committed with the post "in one commit": whatever was left behind by a
\* request that failed or was cut off, every commit holds the files of one
\* publication, a page's post with the images of the same version.
CommitsAreWhole ==
    \A n \in DOMAIN log :
        /\ \A a, b \in log[n] : a.source = b.source /\ a.version = b.version
        /\ Cardinality({ch \in log[n] : ch.file \in PostPaths}) <= 1

\* A record that says published names a commit that origin has, and what that
\* commit has at the record's path is the post, in the record's version.
PublicationsAreBacked ==
    /\ PublishTypeOK /\ CommitsAreWhole
    /\ \A i \in PublicationIds : publications[i].status = "published" =>
         LET p == publications[i] IN
         /\ p.commit \in 1..pushed
         /\ CommittedAt(p.commit, p.path) = {Change(p.path, p.source, p.version)}

=============================================================================
