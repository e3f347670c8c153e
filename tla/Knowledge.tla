----------------------------- MODULE Knowledge ------------------------------
(***************************************************************************)
(* The knowledge service (knowledge/internal): entries named by slug, the  *)
(* revisions an upsert leaves behind, tags, curated links and maps, and    *)
(* readers that hand back the revision they already hold.                  *)
(*                                                                         *)
(* An upsert locks the row of its slug when there is one; its other        *)
(* statements and the commit are one step.  What an entry says is named by *)
(* the request that wrote it.                                              *)
(***************************************************************************)
EXTENDS Integers, Sequences, FiniteSets

CONSTANTS
    Slugs,
    Uploads,    \* requests, numbered as they arrive
    Readers     \* callers that keep what they read

ASSUME KnowledgeAssumption == Uploads \subseteq Nat \ {0}

VARIABLES
    entries,    \* den_knowledge.knowledge_entries by slug, with their tags
    revisions,  \* den_knowledge.knowledge_entry_revisions by entry id
    links,      \* den_knowledge.knowledge_entry_links by entry id
    mapped,     \* den_knowledge.knowledge_map_entries of one map
    uploads,    \* the requests
    reads,      \* the reads in progress and what each reader keeps
    written     \* history: what was stored under each id, in order of commit

knowledgeVars == <<entries, revisions, links, mapped, uploads, reads, written>>

-----------------------------------------------------------------------------

\* An id is the number of the request that inserted the row; 0 is no row.
KnowledgeIds == Uploads

NoEntry == [id |-> 0, body |-> 0, tags |-> {}, aliases |-> 0]

NoUpload == [pc |-> "idle", op |-> "none", slug |-> "none", to |-> "none", old |-> NoEntry]

\* known: the body and the revision the reader holds (0: none); unchanged and
\* now: the answer and what the entry says when it is given.
NoRead ==
    [pc |-> "idle", slug |-> "none", body |-> 0, id |-> 0, known |-> [body |-> 0, rev |-> 0],
     unchanged |-> FALSE, current |-> {}]

KnowledgeTypeOK ==
    /\ \A s \in Slugs : entries[s].id \in {0} \cup KnowledgeIds /\ entries[s].body \in {0} \cup Uploads
    /\ \A i \in KnowledgeIds : revisions[i] \in Seq(Uploads) /\ links[i] \subseteq Slugs
    /\ mapped \subseteq Slugs
    /\ \A u \in Uploads : uploads[u].pc \in {"idle", "checked", "write", "done"}
    /\ \A r \in Readers : reads[r].pc \in {"idle", "revision"}

KnowledgeInit ==
    /\ entries = [s \in Slugs |-> NoEntry]
    /\ revisions = [i \in KnowledgeIds |-> <<>>]
    /\ links = [i \in KnowledgeIds |-> {}]
    /\ mapped = {}
    /\ uploads = [u \in Uploads |-> NoUpload]
    /\ reads = [r \in Readers |-> NoRead]
    /\ written = [i \in KnowledgeIds |-> <<>>]

-----------------------------------------------------------------------------

EntryExists(s) == entries[s].id # 0

\* Mutant: the row is read without for update.
NoRowLock(s) == FALSE

\* Row locks: an upsert holds the row it found until it commits.
LockedRow(s) ==
    \E u \in Uploads : uploads[u].pc = "write" /\ uploads[u].slug = s /\ uploads[u].old.id # 0

UploadStarts(u) == uploads[u].pc = "idle" /\ \A v \in Uploads : v < u => uploads[v].pc # "idle"

UploadTo(u, pc) == uploads' = [uploads EXCEPT ![u].pc = pc]

\* What every open read may find in the entry from now on.
ShowReaders(now) ==
    reads' = [r \in Readers |->
        IF reads[r].pc = "idle" THEN reads[r]
        ELSE [reads[r] EXCEPT !.current = @ \cup {now[reads[r].slug].body}]]

\* UpsertEntry up to getEntryBySlugForUpdateSQL: a locked row makes it wait.
SelectForUpdate(u, s) ==
    /\ UploadStarts(u)
    /\ ~LockedRow(s)
    /\ uploads' = [uploads EXCEPT ![u] =
          [pc |-> "write", op |-> "store", slug |-> s, to |-> "none", old |-> entries[s]]]
    /\ UNCHANGED <<entries, revisions, links, mapped, reads, written>>

\* A field the caller left out keeps the value of the row that was found.
withPreserved(u, supplied, old) == IF supplied THEN u ELSE old.aliases

insertRevision(id, old, u) == [revisions EXCEPT ![id] = Append(@, old.body)]

\* The rest of UpsertEntry.  The row it found is recorded as the next revision
\* and its tags are replaced.  A row that came into being since the select is
\* overwritten by the conflict clause: it is not recorded, its optional fields
\* are lost and its tags stay beside the new ones.
UpsertEntry(u, supplied) ==
    LET s == uploads[u].slug
        old == uploads[u].old
        row == entries[s]
        id == IF row.id # 0 THEN row.id ELSE u
    IN
    /\ uploads[u].pc = "write" /\ uploads[u].op = "store"
    /\ old.id # 0 \/ ~LockedRow(s)
    /\ revisions' = IF old.id # 0 THEN insertRevision(id, old, u) ELSE revisions
    /\ entries' = [entries EXCEPT ![s] =
          [id |-> id, body |-> u, tags |-> IF old.id # 0 THEN {u} ELSE row.tags \cup {u},
           aliases |-> withPreserved(u, supplied, old)]]
    /\ written' = [written EXCEPT ![id] = Append(@, [body |-> u, blind |-> old.id = 0])]
    /\ ShowReaders(entries')
    /\ UploadTo(u, "done")
    /\ UNCHANGED <<links, mapped>>

\* DeleteEntry: refused while a map names the slug; revisions, tags and
\* outgoing links go with the row, links to it stay.
DeleteEntry(u, s) ==
    /\ UploadStarts(u)
    /\ ~LockedRow(s)
    /\ EntryExists(s) /\ s \notin mapped
    /\ revisions' = [revisions EXCEPT ![entries[s].id] = <<>>]
    /\ links' = [links EXCEPT ![entries[s].id] = {}]
    /\ written' = [written EXCEPT ![entries[s].id] = <<>>]
    /\ entries' = [entries EXCEPT ![s] = NoEntry]
    /\ ShowReaders(entries')
    /\ UploadTo(u, "done")
    /\ UNCHANGED mapped

\* ReplaceLinks and StoreMap look their targets up before the transaction.
CheckTargets(u, op, s, t) ==
    /\ UploadStarts(u)
    /\ op = "links" => s # t /\ EntryExists(s)
    /\ EntryExists(t)
    /\ uploads' = [uploads EXCEPT ![u] =
          [NoUpload EXCEPT !.pc = "checked", !.op = op, !.slug = s, !.to = t]]
    /\ UNCHANGED <<entries, revisions, links, mapped, reads, written>>

\* The source row is locked; a target that is gone by now is linked all the
\* same and shown as missing.
ReplaceLinks(u) ==
    /\ uploads[u].pc = "checked" /\ uploads[u].op = "links"
    /\ ~LockedRow(uploads[u].slug)
    /\ links' = IF EntryExists(uploads[u].slug)
                THEN [links EXCEPT ![entries[uploads[u].slug].id] = {uploads[u].to}] ELSE links
    /\ UploadTo(u, "done")
    /\ UNCHANGED <<entries, revisions, mapped, reads, written>>

\* The whole map is replaced; a slug that is gone by now fails the insert.
StoreMap(u) ==
    /\ uploads[u].pc = "checked" /\ uploads[u].op = "map"
    /\ mapped' = IF EntryExists(uploads[u].to) THEN {uploads[u].to} ELSE mapped
    /\ UploadTo(u, "done")
    /\ UNCHANGED <<entries, revisions, links, reads, written>>

-----------------------------------------------------------------------------
(* ReadEntry: the entry first, its revision number by a second statement.    *)

GetEntry(r, s) ==
    /\ reads[r].pc = "idle"
    /\ EntryExists(s)
    /\ reads[r].slug \in {"none", s}
    /\ reads' = [reads EXCEPT ![r] =
          [@ EXCEPT !.pc = "revision", !.slug = s, !.body = entries[s].body,
                    !.id = entries[s].id, !.unchanged = FALSE, !.current = {entries[s].body}]]
    /\ UNCHANGED <<entries, revisions, links, mapped, uploads, written>>

\* One more than the last revision of whatever row has the slug now; the read
\* is an error when there is none.
CurrentRevision(s) == Len(revisions[entries[s].id]) + 1

ReadEntry(r) ==
    LET p == reads[r]
        rev == CurrentRevision(p.slug)
    IN
    /\ p.pc = "revision"
    /\ reads' = [reads EXCEPT ![r] =
          IF ~EntryExists(p.slug) THEN [p EXCEPT !.pc = "idle", !.current = {}]
          ELSE IF p.known.rev = rev \/ p.known.body = p.body
          THEN [p EXCEPT !.pc = "idle", !.unchanged = TRUE]
          ELSE [p EXCEPT !.pc = "idle", !.known = [body |-> p.body, rev |-> rev]]]
    /\ UNCHANGED <<entries, revisions, links, mapped, uploads, written>>

-----------------------------------------------------------------------------

KnowledgeNext ==
    \/ \E u \in Uploads, s \in Slugs :
          \/ SelectForUpdate(u, s)
          \/ DeleteEntry(u, s)
          \/ \E t \in Slugs, op \in {"links", "map"} : CheckTargets(u, op, s, t)
    \/ \E u \in Uploads :
          \/ \E supplied \in BOOLEAN : UpsertEntry(u, supplied)
          \/ ReplaceLinks(u)
          \/ StoreMap(u)
    \/ \E r \in Readers :
          \/ \E s \in Slugs : GetEntry(r, s)
          \/ ReadEntry(r)

KnowledgeSpec == KnowledgeInit /\ [][KnowledgeNext]_knowledgeVars

-----------------------------------------------------------------------------
(* Properties *)

\* The texts that were recorded when the next one replaced them: all but one
\* overwritten by an upload that had found no row.
Superseded(log) == {n \in 1..(Len(log) - 1) : ~log[n + 1].blind}

\* One revision for each of these texts, in the order they were stored.
Trail(log, revs) ==
    /\ Len(revs) = Cardinality(Superseded(log))
    /\ \A n \in Superseded(log) :
          revs[Cardinality({m \in Superseded(log) : m <= n})] = log[n].body

\* The revisions of an entry are the texts it had, each once and in the order
\* they were current, and tags of another text stay only where two first
\* uploads met (UpsertEntry, knowledge/internal/store.go:47); a map never
\* names a slug that is gone (migration 002).
TrailIsComplete ==
    /\ KnowledgeTypeOK
    /\ \A i \in KnowledgeIds : Trail(written[i], revisions[i])
    /\ \A s \in Slugs :
          LET log == written[entries[s].id] IN
          EntryExists(s) =>
             /\ entries[s].body \in entries[s].tags
             /\ entries[s].tags # {entries[s].body} => Len(log) > 1 /\ log[Len(log)].blind
    /\ \A s \in mapped : EntryExists(s)

=============================================================================
