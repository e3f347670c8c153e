----------------------------- MODULE Documents ------------------------------
(***************************************************************************)
(* The documents service (documents/internal), which asks the projects     *)
(* service whether the scope is writable before it writes.  A call reads   *)
(* the document and asks, finds or creates the thread, asks again and      *)
(* writes, while the scope is archived, deleted and created again.         *)
(***************************************************************************)
EXTENDS Integers, Sequences, FiniteSets

CONSTANTS
    Docs,       \* document slugs of the scope
    DocCalls,   \* calls to the documents service, numbered as they arrive
    MaxSwitches \* bound: how often the scope opens or closes

ASSUME DocumentsAssumption == DocCalls \subseteq Nat \ {0} /\ MaxSwitches \in Nat

VARIABLES
    writable,   \* the scope is there and not archived (Projects)
    switches,   \* changes of that so far
    docs,       \* den_documents.documents by slug
    docThreads, \* den_documents.discussion_threads by id
    docComments,\* den_documents.discussion_comments by id
    docCalls,   \* the calls
    sawOpen     \* history: calls during which the scope was writable

scopeVars == <<writable, switches>>
documentsVars == <<scopeVars, docs, docThreads, docComments, docCalls, sawOpen>>

-----------------------------------------------------------------------------

\* A comment without an anchor is about the document as a whole.
NoAnchor == "document"
Anchors == {NoAnchor, "x"}

threadKeyForAnchor(anchor) == IF anchor = NoAnchor THEN "default" ELSE "section:x"

NoDoc == [visibility |-> "absent", by |-> 0]
NoThread == [doc |-> "none", anchor |-> NoAnchor, key |-> "none", open |-> TRUE]
NoReply == [thread |-> 0, parent |-> 0, anchor |-> "none"]

NoDocCall ==
    [pc |-> "idle", op |-> "none", doc |-> "none", anchor |-> NoAnchor, key |-> "none",
     parent |-> 0, thread |-> 0]

\* An id is the number of the call that inserted the row.
DocIds == DocCalls

DocumentsTypeOK ==
    /\ writable \in BOOLEAN
    /\ \A d \in Docs : docs[d].visibility \in {"absent", "normal", "archived"}
    /\ \A i \in DocIds : /\ docThreads[i].doc \in Docs \cup {"none"}
                         /\ docComments[i].thread \in DocIds \cup {0}
    /\ \A c \in DocCalls :
          docCalls[c].pc \in {"idle", "write", "thread", "create", "comment",
                              "add", "done", "failed"}
    /\ sawOpen \subseteq DocCalls

DocumentsInit ==
    /\ writable = TRUE
    /\ switches = 0
    /\ docs = [d \in Docs |-> [NoDoc EXCEPT !.visibility = "normal"]]
    /\ docThreads = [i \in DocIds |-> NoThread]
    /\ docComments = [i \in DocIds |-> NoReply]
    /\ docCalls = [c \in DocCalls |-> NoDocCall]
    /\ sawOpen = {}

-----------------------------------------------------------------------------
(* What a call does before it writes                                         *)

Tables == <<docs, docThreads, docComments>>

\* UpdateVisibility, DeleteSpace and CreateScope of the projects service.
ScopeChanges ==
    /\ switches < MaxSwitches
    /\ writable' = ~writable
    /\ switches' = switches + 1
    /\ UNCHANGED <<Tables, docCalls>>

DocCallIs(c, r) == docCalls' = [docCalls EXCEPT ![c] = r]
DocCallTo(c, pc) == docCalls' = [docCalls EXCEPT ![c].pc = pc]

NextDocCall(c) ==
    docCalls[c].pc = "idle" /\ \A d \in DocCalls : d < c => docCalls[d].pc # "idle"

\* Mutant: only the document operations ask for the scope.
AssertDocumentOnly(op) == op \in {"store", "delete", "visibility"} => writable

\* ProjectScopeClient.AssertWritable: a refusal or a failed request ends the
\* call before it has changed anything.
AssertWritable(op) == writable

\* StoreDocument, DeleteDocument and UpdateVisibility start with the scope.
BeginDocument(c, op, d) ==
    /\ NextDocCall(c)
    /\ AssertWritable(op)
    /\ DocCallIs(c, [NoDocCall EXCEPT !.pc = "write", !.op = op, !.doc = d])
    /\ UNCHANGED <<scopeVars, Tables>>

\* CommentOnDocument and CreateDiscussionThread look for the document first;
\* only the second may name a key of its own.
BeginDiscussion(c, op, d, anchor, key, parent) ==
    /\ NextDocCall(c)
    /\ docs[d].visibility # "absent"
    /\ AssertWritable(op)
    /\ DocCallIs(c, [NoDocCall EXCEPT !.pc = IF op = "newthread" THEN "create" ELSE "thread",
                        !.op = op, !.doc = d, !.anchor = anchor, !.key = key, !.parent = parent])
    /\ UNCHANGED <<scopeVars, Tables>>

\* With createIfMissing, as EnsureDocumentDiscussion asks.
GetDocumentDiscussion(c, d, anchor) ==
    BeginDiscussion(c, "ensure", d, anchor, threadKeyForAnchor(anchor), 0)

\* CreateDiscussionComment names the thread itself.
CreateDiscussionComment(c, thread, parent) ==
    /\ NextDocCall(c)
    /\ docThreads[thread] # NoThread
    /\ DocCallIs(c, [NoDocCall EXCEPT !.pc = "comment", !.op = "reply", !.thread = thread,
                                      !.doc = docThreads[thread].doc, !.parent = parent])
    /\ UNCHANGED <<scopeVars, Tables>>

\* createComment has found the thread and asks, once more for a comment on a
\* document.
AssertForComment(c) ==
    /\ docCalls[c].pc = "comment"
    /\ AssertWritable("reply")
    /\ DocCallTo(c, "add")
    /\ UNCHANGED <<scopeVars, Tables>>

HasThread(c, i) ==
    DocCallIs(c, [docCalls[c] EXCEPT !.thread = i,
                     !.pc = IF docCalls[c].op = "comment" THEN "comment" ELSE "done"])

\* The thread of the parent, which must be about the same document; or the
\* first of GetOrCreateThread's statements, which looks for the key alone.
FindThread(c) ==
    LET call == docCalls[c]
        above == docComments[call.parent].thread
        found == {i \in DocIds : docThreads[i].doc = call.doc /\ docThreads[i].key = call.key}
    IN
    /\ call.pc = "thread"
    /\ IF call.parent # 0
       THEN IF above # 0 /\ docThreads[above].doc = call.doc THEN HasThread(c, above)
            ELSE DocCallTo(c, "failed")
       ELSE IF found # {} THEN \E i \in found : HasThread(c, i)
            ELSE DocCallTo(c, "create")
    /\ UNCHANGED <<scopeVars, Tables>>

\* createThreadSQL: document, anchor and key are unique together; a thread
\* that is there is returned.
CreateThread(c) ==
    LET call == docCalls[c]
        row == [doc |-> call.doc, anchor |-> call.anchor, key |-> call.key, open |-> TRUE]
        same == {i \in DocIds : [docThreads[i] EXCEPT !.open = TRUE] = row}
    IN
    /\ call.pc = "create"
    /\ IF same # {} THEN (\E i \in same : HasThread(c, i)) /\ UNCHANGED docThreads
       ELSE HasThread(c, c) /\ docThreads' = [docThreads EXCEPT ![c] = row]
    /\ UNCHANGED <<scopeVars, docs, docComments>>

\* The end of createComment: a parent is in the thread.
ParentMatches(call) == call.parent # 0 => docComments[call.parent].thread = call.thread

AddComment(c) ==
    LET call == docCalls[c] IN
    /\ call.pc = "add"
    /\ IF ~ParentMatches(call)
       THEN DocCallTo(c, "failed") /\ UNCHANGED docComments
       ELSE /\ docComments' = [docComments EXCEPT ![c] =
                  [thread |-> call.thread, parent |-> call.parent,
                   anchor |-> IF call.op = "comment" /\ call.parent = 0 THEN call.anchor ELSE "none"]]
            /\ DocCallTo(c, "done")
    /\ UNCHANGED <<scopeVars, docs, docThreads>>

\* upsertDocumentSQL keeps the visibility of a row that is there;
\* deleteDocumentSQL leaves the threads; updateVisibilitySQL needs the row.
UpsertDocument(c) ==
    /\ docCalls[c].pc = "write" /\ docCalls[c].op = "store"
    /\ docs' = [docs EXCEPT ![docCalls[c].doc] =
          [visibility |-> IF @.visibility = "absent" THEN "normal" ELSE @.visibility, by |-> c]]
    /\ DocCallTo(c, "done")
    /\ UNCHANGED <<scopeVars, docThreads, docComments>>

DeleteDocument(c) ==
    /\ docCalls[c].pc = "write" /\ docCalls[c].op = "delete"
    /\ docs' = [docs EXCEPT ![docCalls[c].doc] = NoDoc]
    /\ DocCallTo(c, "done")
    /\ UNCHANGED <<scopeVars, docThreads, docComments>>

UpdateDocumentVisibility(c) ==
    LET d == docCalls[c].doc IN
    /\ docCalls[c].pc = "write" /\ docCalls[c].op = "visibility"
    /\ docs' = IF docs[d].visibility = "absent" THEN docs
               ELSE [docs EXCEPT ![d] = [visibility |-> "archived", by |-> c]]
    /\ DocCallTo(c, IF docs[d].visibility = "absent" THEN "failed" ELSE "done")
    /\ UNCHANGED <<scopeVars, docThreads, docComments>>

\* UpdateDiscussionThread does not ask for the scope.
UpdateDiscussionThread(c, i) ==
    /\ NextDocCall(c)
    /\ docThreads[i] # NoThread
    /\ docThreads' = [docThreads EXCEPT ![i].open = ~@]
    /\ DocCallIs(c, [NoDocCall EXCEPT !.pc = "done", !.op = "update", !.doc = docThreads[i].doc])
    /\ UNCHANGED <<scopeVars, docs, docComments>>

-----------------------------------------------------------------------------
(* Reads                                                                     *)

\* GetDocumentDiscussion without creation: the comments of the threads shown.
Discussion(d, includeResolved, anchor) ==
    LET shown == {i \in DocIds : /\ docThreads[i].doc = d
                                 /\ anchor # NoAnchor => docThreads[i].key = threadKeyForAnchor(anchor)
                                 /\ includeResolved \/ docThreads[i].open}
    IN  {i \in DocIds : docComments[i].thread \in shown}

-----------------------------------------------------------------------------

DocumentStep(c) ==
    \/ \E d \in Docs :
          \/ \E op \in {"store", "delete", "visibility"} : BeginDocument(c, op, d)
          \/ \E anchor \in Anchors :
                \/ GetDocumentDiscussion(c, d, anchor)
                \/ \E parent \in DocIds \cup {0} :
                      /\ parent # 0 => docComments[parent] # NoReply
                      /\ BeginDiscussion(c, "comment", d, anchor, threadKeyForAnchor(anchor), parent)
          \/ \E anchor \in Anchors :
                BeginDiscussion(c, "newthread", d, NoAnchor, threadKeyForAnchor(anchor), 0)
    \/ \E i \in DocIds :
          \/ UpdateDiscussionThread(c, i)
          \/ \E parent \in DocIds \cup {0} :
                (parent # 0 => docComments[parent] # NoReply) /\ CreateDiscussionComment(c, i, parent)
    \/ AssertForComment(c) \/ FindThread(c) \/ CreateThread(c) \/ AddComment(c)
    \/ UpsertDocument(c) \/ DeleteDocument(c) \/ UpdateDocumentVisibility(c)

DocumentsNext ==
    /\ ScopeChanges \/ \E c \in DocCalls : DocumentStep(c)
    /\ sawOpen' = sawOpen \cup
          {c \in DocCalls : docCalls'[c].pc \notin {"idle", "done"} /\ writable'}

DocumentsSpec == DocumentsInit /\ [][DocumentsNext]_documentsVars

-----------------------------------------------------------------------------
(* Properties *)

\* Whatever happens to the scope meanwhile, a call leaves a document, a thread
\* or a comment only if the scope was writable at some moment of that call
\* (docs/documents-lifeboat-contract.md:343-345); a reply is in the thread of
\* its parent; a comment on an anchor is found in the discussion of the anchor; and
\* comments on one anchor are in one thread, unless a thread with the key of the
\* anchor was created by hand (GetOrCreateThread, documents/internal/store.go:121).
DocumentWritesAdmitted ==
    /\ DocumentsTypeOK
    /\ \A i \in DocIds :
          docThreads[i] # NoThread \/ docComments[i] # NoReply \/ (\E d \in Docs : docs[d].by = i)
             => i \in sawOpen
    /\ \A i \in DocIds : docComments[i].parent # 0 =>
          docComments[docComments[i].parent].thread = docComments[i].thread
    /\ \A i \in DocIds : docComments[i].anchor \in Anchors =>
          i \in Discussion(docThreads[docComments[i].thread].doc, TRUE, docComments[i].anchor)
    /\ \A i, j \in DocIds :
          LET t == docComments[i].thread
              u == docComments[j].thread
          IN  docComments[i].anchor = docComments[j].anchor /\ docComments[i].anchor \in Anchors
                /\ docThreads[t].doc = docThreads[u].doc /\ t # u
                 => "newthread" \in {docCalls[t].op, docCalls[u].op}

=============================================================================
