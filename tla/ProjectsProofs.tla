--------------------------- MODULE ProjectsProofs ---------------------------
(***************************************************************************)
(* Proofs about modules Projects, Documents, OpsCollect, Board and         *)
(* Knowledge: the crew list of a scope for every set of editors, limit of  *)
(* the list and bound; what a scope lets into its documents for every set  *)
(* of documents, anchors and calls; the collector's cache for every set of *)
(* guests; the comments of the Board for every set of calls and keys; and  *)
(* the revisions of knowledge entries for every set of slugs and uploads.  *)
(***************************************************************************)
EXTENDS Projects, Documents, OpsCollect, Board, Knowledge, SequenceTheorems,
        FiniteSetTheorems, WellFoundedInduction, TLAPS

\* An address is on the list the edits of log make, one after the other.
OnCrew(e, log) ==
    \E n \in DOMAIN log :
        /\ log[n].add = e
        /\ \A k \in DOMAIN log : k > n => e \notin log[k].remove

\* One more edit takes its removals off the list and then adds its address.
LEMMA OneMoreEdit ==
    ASSUME NEW log \in Seq(CrewEdit), NEW edit \in CrewEdit, NEW e \in Editors
    PROVE  OnCrew(e, Append(log, edit)) <=>
              e = edit.add \/ (OnCrew(e, log) /\ e \notin edit.remove)
<1> DEFINE n == Len(log)
           longer == Append(log, edit)
<1>1. /\ n \in Nat /\ DOMAIN log = 1..n /\ DOMAIN longer = 1..(n + 1)
      /\ longer[n + 1] = edit /\ \A k \in 1..n : longer[k] = log[k]
  OBVIOUS
<1>2. ASSUME e = edit.add PROVE OnCrew(e, longer)
  <2>1. n + 1 \in DOMAIN longer /\ longer[n + 1].add = e
    BY <1>1, <1>2
  <2>2. \A k \in DOMAIN longer : ~(k > n + 1)
    BY <1>1
  <2> QED
    BY <2>1, <2>2 DEF OnCrew
<1>3. ASSUME OnCrew(e, log), e \notin edit.remove PROVE OnCrew(e, longer)
  <2>1. PICK j \in DOMAIN log : /\ log[j].add = e
                                /\ \A k \in DOMAIN log : k > j => e \notin log[k].remove
    BY <1>3 DEF OnCrew
  <2>2. j \in DOMAIN longer /\ longer[j].add = e
    BY <1>1, <2>1
  <2>3. ASSUME NEW k \in DOMAIN longer, k > j PROVE e \notin longer[k].remove
    <3>1. k \in 1..n \/ k = n + 1
      BY <1>1
    <3> QED
      BY <1>1, <1>3, <2>1, <2>3, <3>1
  <2> QED
    BY <2>2, <2>3 DEF OnCrew
<1>4. ASSUME OnCrew(e, longer), e # edit.add
      PROVE  OnCrew(e, log) /\ e \notin edit.remove
  <2>1. PICK j \in DOMAIN longer : /\ longer[j].add = e
                                   /\ \A k \in DOMAIN longer : k > j => e \notin longer[k].remove
    BY <1>4 DEF OnCrew
  <2>2. j \in 1..n
    BY <1>1, <1>4, <2>1
  <2>3. e \notin edit.remove
    BY <1>1, <2>1, <2>2
  <2>4. log[j].add = e /\ \A k \in DOMAIN log : k > j => e \notin log[k].remove
    BY <1>1, <2>1, <2>2
  <2> QED
    BY <1>1, <2>2, <2>3, <2>4 DEF OnCrew
<1> QED
  BY <1>2, <1>3, <1>4

-----------------------------------------------------------------------------

\* The list is finite; and what the one edit that holds the lock has read is
\* what is stored.
ProjectsInv ==
    /\ ProjectsTypeOK
    /\ \A e \in Editors : e \in scope.crew <=> OnCrew(e, crewLog)
    /\ IsFiniteSet(scope.crew)
    /\ Cardinality(scope.crew) <= CrewLimit
    /\ \A e \in Editors : editors[e].pc = "locked" => editors[e].crew = scope.crew
    /\ \A e, o \in Editors : editors[e].pc = "locked" /\ editors[o].pc = "locked" => e = o

\* The row of a scope that is not there has the type of a row, and no list.
LEMMA NoScopeType ==
    /\ NoScope \in ScopeRow /\ NoScope.crew = {}
    /\ \A v \in {"normal", "hidden", "archived"}, kind \in ScopeKinds :
          LET s == [NoScope EXCEPT !.visibility = v, !.kind = kind]
          IN  s \in ScopeRow /\ s.crew = {}
<1>1. 0 \in 0..MaxTurns /\ {} \in SUBSET Editors /\ "project" \in ScopeKinds
  BY ProjectsAssumption DEF ScopeKinds
<1> QED
  BY <1>1 DEF NoScope, ScopeRow

\* A service without the scope satisfies the invariant.
LEMMA ProjectsInitInv == ProjectsInit => ProjectsInv
<1> SUFFICES ASSUME ProjectsInit PROVE ProjectsInv
  OBVIOUS
<1>1. ProjectsTypeOK
  <2>1. [pc |-> "idle", crew |-> {}] \in [pc : {"idle", "locked", "done"}, crew : SUBSET Editors]
    OBVIOUS
  <2>2. << >> \in Seq(CrewEdit) /\ 0 \in 0..MaxTurns
    BY ProjectsAssumption
  <2> QED
    BY <2>1, <2>2, NoScopeType DEF ProjectsInit, ProjectsTypeOK
<1>2. scope.crew = {} /\ \A e \in Editors : ~OnCrew(e, crewLog)
  BY DEF ProjectsInit, NoScope, OnCrew
<1>3. IsFiniteSet(scope.crew) /\ Cardinality(scope.crew) <= CrewLimit
  BY <1>2, FS_EmptySet, ProjectsAssumption
<1> QED
  BY <1>1, <1>2, <1>3 DEF ProjectsInit, ProjectsInv

\* A patch or a change of visibility keeps the list, and nobody holds the lock.
LEMMA TurnStep ==
    ASSUME ProjectsInv, NEW s, Turn(s), UNCHANGED crewLog, deleting' \in BOOLEAN,
           s \in ScopeRow,
           s.crew = scope.crew
    PROVE  ProjectsInv'
<1>1. ProjectsTypeOK'
  BY ProjectsAssumption DEF ProjectsInv, ProjectsTypeOK, Turn
<1>2. scope'.crew = scope.crew /\ editors' = editors /\ crewLog' = crewLog
  BY DEF Turn
<1> QED
  BY <1>1, <1>2 DEF ProjectsInv

\* A deletion empties the list and its history together.
LEMMA DeleteStep == ASSUME ProjectsInv, DeleteScope PROVE ProjectsInv'
<1>1. /\ scope' = NoScope /\ crewLog' = << >> /\ editors' = editors
      /\ \A e \in Editors : editors[e].pc # "locked"
  BY DEF DeleteScope, LockedCrew
<1>2. ProjectsTypeOK'
  <2>1. << >> \in Seq(CrewEdit)
    OBVIOUS
  <2> QED
    BY <1>1, <2>1, NoScopeType DEF ProjectsInv, DeleteScope, ProjectsTypeOK
<1>3. scope'.crew = {} /\ \A e \in Editors : ~OnCrew(e, crewLog')
  BY <1>1 DEF NoScope, OnCrew
<1>4. IsFiniteSet(scope'.crew) /\ Cardinality(scope'.crew) <= CrewLimit
  BY <1>3, FS_EmptySet, ProjectsAssumption
<1> QED
  BY <1>1, <1>2, <1>3, <1>4 DEF ProjectsInv

\* An edit that takes the lock reads what is stored.
LEMMA LockStep ==
    ASSUME ProjectsInv, NEW e \in Editors, LockCrewNotify(e)
    PROVE  ProjectsInv'
<1>1. /\ editors' = [editors EXCEPT ![e] = [pc |-> "locked", crew |-> scope.crew]]
      /\ \A o \in Editors : editors[o].pc # "locked"
      /\ UNCHANGED <<scope, turns, deleting, crewLog>>
  BY DEF LockCrewNotify, LockedCrew
<1>2. ProjectsTypeOK'
  <2>1. [pc |-> "locked", crew |-> scope.crew] \in [pc : {"idle", "locked", "done"}, crew : SUBSET Editors]
    BY DEF ProjectsInv, ProjectsTypeOK, ScopeRow
  <2> QED
    BY <1>1, <2>1 DEF ProjectsInv, ProjectsTypeOK
<1> QED
  BY <1>1, <1>2 DEF ProjectsInv, ProjectsTypeOK

\* The write of an edit is the next edit of what is stored.
LEMMA EditStep ==
    ASSUME ProjectsInv, NEW e \in Editors, NEW remove \in SUBSET Editors,
           UpdateCrewNotify(e, remove)
    PROVE  ProjectsInv'
<1> DEFINE raw == (scope.crew \ remove) \cup {e}
           next == apply(editors[e].crew, {e}, remove)
<1>1. /\ editors[e].crew = scope.crew /\ editors[e].pc = "locked"
      /\ \A o \in Editors \ {e} : editors[o].pc # "locked"
  BY DEF ProjectsInv, UpdateCrewNotify
<1>2. /\ editors' = [editors EXCEPT ![e].pc = "done"]
      /\ \A o \in Editors : editors'[o].pc # "locked"
      /\ editors' \in [Editors -> [pc : {"idle", "locked", "done"}, crew : SUBSET Editors]]
  <2>1. editors \in [Editors -> [pc : {"idle", "locked", "done"}, crew : SUBSET Editors]]
    BY DEF ProjectsInv, ProjectsTypeOK
  <2> QED
    BY <1>1, <2>1 DEF UpdateCrewNotify
<1>3. scope.crew \in SUBSET Editors /\ crewLog \in Seq(CrewEdit)
  BY DEF ProjectsInv, ProjectsTypeOK, ScopeRow
<1>4. IsFiniteSet(raw) /\ Cardinality(raw) \in Nat
  <2>1. IsFiniteSet(scope.crew \ remove)
    BY FS_Subset DEF ProjectsInv
  <2> QED
    BY <2>1, FS_AddElement, FS_CardinalityType
<1>5. CASE next = {}
  <2>1. UNCHANGED <<scope, crewLog, turns, deleting>>
    BY <1>5 DEF UpdateCrewNotify
  <2> QED
    BY <1>2, <2>1 DEF ProjectsInv, ProjectsTypeOK
<1>6. CASE next # {}
  <2>1. next = raw /\ Cardinality(raw) <= CrewLimit
    <3>1. next = IF Cardinality(raw) > CrewLimit THEN {} ELSE raw
      BY <1>1, Zenon DEF apply
    <3>2. ~(Cardinality(raw) > CrewLimit)
      BY <1>6, <3>1
    <3> QED
      BY <1>4, <3>1, <3>2, ProjectsAssumption
  <2> DEFINE edit == [add |-> e, remove |-> remove]
  <2>2. /\ scope' = [scope EXCEPT !.crew = raw] /\ crewLog' = Append(crewLog, edit)
        /\ UNCHANGED <<turns, deleting>>
    BY <1>6, <2>1 DEF UpdateCrewNotify
  <2>3. edit \in CrewEdit /\ edit.add = e /\ edit.remove = remove
    BY DEF CrewEdit
  <2>4. scope'.crew = raw /\ ProjectsTypeOK'
    <3>1. raw \in SUBSET Editors
      BY <1>3
    <3>2. scope' \in ScopeRow /\ scope'.crew = raw
      BY <2>2, <3>1 DEF ProjectsInv, ProjectsTypeOK, ScopeRow
    <3>3. crewLog' \in Seq(CrewEdit)
      BY <1>3, <2>2, <2>3
    <3> QED
      BY <1>2, <2>2, <3>2, <3>3 DEF ProjectsInv, ProjectsTypeOK
  <2>5. \A o \in Editors : o \in raw <=> OnCrew(o, Append(crewLog, edit))
    BY <1>3, <2>3, OneMoreEdit DEF ProjectsInv
  <2> QED
    BY <1>2, <1>4, <2>1, <2>2, <2>4, <2>5 DEF ProjectsInv
<1> QED
  BY <1>5, <1>6

\* Every operation keeps the invariant.
LEMMA ProjectsStepInv == ProjectsInv /\ [ProjectsNext]_projectVars => ProjectsInv'
<1> SUFFICES ASSUME ProjectsInv, [ProjectsNext]_projectVars PROVE ProjectsInv'
  OBVIOUS
<1>1. ASSUME NEW kind \in ScopeKinds, CreateScope(kind) PROVE ProjectsInv'
  <2> DEFINE s == [NoScope EXCEPT !.visibility = "normal", !.kind = kind]
  <2>1. s \in ScopeRow /\ s.crew = {}
    BY NoScopeType
  <2>2. scope.crew = {}
    BY <1>1 DEF CreateScope, NoScope
  <2> QED
    BY <1>1, <2>1, <2>2, TurnStep DEF CreateScope, ProjectsInv, ProjectsTypeOK
<1>2. ASSUME UpdateScope PROVE ProjectsInv'
  <2> DEFINE s == [scope EXCEPT !.patch = turns + 1]
  <2>1. s \in ScopeRow /\ s.crew = scope.crew
    BY <1>2, ProjectsAssumption DEF UpdateScope, Turn, ProjectsInv, ProjectsTypeOK, ScopeRow
  <2> QED
    BY <1>2, <2>1, TurnStep DEF UpdateScope, ProjectsInv, ProjectsTypeOK
<1>3. ASSUME NEW v \in {"normal", "hidden", "archived"}, UpdateVisibility(v) PROVE ProjectsInv'
  <2> DEFINE s == [scope EXCEPT !.visibility = v]
  <2>1. s \in ScopeRow /\ s.crew = scope.crew
    BY DEF ProjectsInv, ProjectsTypeOK, ScopeRow
  <2> QED
    BY <1>3, <2>1, TurnStep DEF UpdateVisibility, ProjectsInv, ProjectsTypeOK
<1>4. ASSUME NEW force \in BOOLEAN, DeleteSpace(force) PROVE ProjectsInv'
  BY <1>4 DEF DeleteSpace, ProjectsInv, ProjectsTypeOK
<1>5. ASSUME DeleteScope PROVE ProjectsInv'
  BY <1>5, DeleteStep
<1>6. ASSUME NEW e \in Editors, LockCrewNotify(e) PROVE ProjectsInv'
  BY <1>6, LockStep
<1>7. ASSUME NEW e \in Editors, NEW remove \in {{}} \cup {{o} : o \in Editors \ {e}},
             UpdateCrewNotify(e, remove)
      PROVE  ProjectsInv'
  <2>1. remove \in SUBSET Editors
    OBVIOUS
  <2> QED
    BY <1>7, <2>1, EditStep
<1>8. CASE UNCHANGED projectVars
  BY <1>8 DEF projectVars, ProjectsInv, ProjectsTypeOK
<1> QED
  BY <1>1, <1>2, <1>3, <1>4, <1>5, <1>6, <1>7, <1>8 DEF ProjectsNext

\* No committed edit of a crew list is lost, and no list outgrows its limit
\* (Store.UpdateCrewNotify and CrewNotify.apply in projects/internal).
THEOREM CrewEditsCorrect == ProjectsSpec => []CrewEditsAreKept
<1>1. ProjectsInv => CrewEditsAreKept
  BY DEF ProjectsInv, CrewEditsAreKept, OnCrew
<1> QED
  BY <1>1, ProjectsInitInv, ProjectsStepInv, PTL DEF ProjectsSpec


-----------------------------------------------------------------------------
(* Documents and discussions                                                 *)

ThreadKeys == {"default", "section:x"}

ThreadRow ==
    [doc : Docs \cup {"none"}, anchor : Anchors, key : ThreadKeys \cup {"none"}, open : BOOLEAN]
Reply ==
    [thread : DocIds \cup {0}, parent : DocIds \cup {0}, anchor : Anchors \cup {"none"}]
DocCall ==
    [pc : {"idle", "write", "thread", "create", "comment", "add", "done", "failed"},
     op : {"none", "store", "delete", "visibility", "comment", "ensure", "newthread", "reply", "update"},
     doc : Docs \cup {"none"}, anchor : Anchors, key : ThreadKeys \cup {"none"},
     parent : DocIds \cup {0}, thread : DocIds \cup {0}]

DocsTyped ==
    /\ writable \in BOOLEAN
    /\ docs \in [Docs -> [visibility : {"absent", "normal", "archived"}, by : DocIds \cup {0}]]
    /\ docThreads \in [DocIds -> ThreadRow]
    /\ docComments \in [DocIds -> Reply]
    /\ docCalls \in [DocCalls -> DocCall]
    /\ sawOpen \subseteq DocCalls

\* A thread is about a document and has a key, the one of its anchor unless it
\* was created by hand; documents, anchors and keys tell threads apart.
IsThread(i) == docThreads[i].key # "none"

ThreadFits(i) ==
    /\ ~IsThread(i) => docThreads[i] = NoThread
    /\ IsThread(i) =>
        /\ docThreads[i].doc \in Docs
        /\ docCalls[i].op # "newthread" => docThreads[i].key = threadKeyForAnchor(docThreads[i].anchor)
        /\ i \in sawOpen
        /\ docCalls[i].pc \in {"comment", "add", "done", "failed"}

ThreadsDiffer ==
    \A i, j \in DocIds :
        /\ IsThread(i) /\ IsThread(j)
        /\ docThreads[i].doc = docThreads[j].doc /\ docThreads[i].anchor = docThreads[j].anchor
        /\ docThreads[i].key = docThreads[j].key
        => i = j

IsComment(i) == docComments[i].thread # 0

CommentFits(i) ==
    LET m == docComments[i] IN
    /\ ~IsComment(i) => docComments[i] = NoReply
    /\ IsComment(i) =>
          /\ IsThread(m.thread) /\ i \in sawOpen /\ docCalls[i].pc = "done"
          /\ m.parent # 0 => IsComment(m.parent) /\ docComments[m.parent].thread = m.thread
          /\ m.anchor \in Anchors => docThreads[m.thread].key = threadKeyForAnchor(m.anchor)

\* A call that is going to write has asked; one that has a thread has found it.
DocCallFits(c, call) ==
    /\ call.pc \in {"write", "thread", "create", "add"} => c \in sawOpen
    /\ call.pc = "write" => call.doc \in Docs /\ call.op \in {"store", "delete", "visibility"}
    /\ call.pc \in {"thread", "create"} =>
          /\ call.doc \in Docs /\ call.key \in ThreadKeys /\ call.op \in {"comment", "ensure", "newthread"}
          /\ call.op # "newthread" => call.key = threadKeyForAnchor(call.anchor)
    /\ call.pc \in {"comment", "add"} =>
          /\ call.op \in {"comment", "reply"}
          /\ call.thread \in DocIds /\ IsThread(call.thread)
          /\ call.op = "comment" /\ call.parent = 0 => docThreads[call.thread].key = threadKeyForAnchor(call.anchor)
    /\ call.parent # 0 => IsComment(call.parent)

DocsInv ==
    /\ DocsTyped
    /\ \A d \in Docs : docs[d].by # 0 => docs[d].by \in sawOpen
    /\ \A i \in DocIds : ThreadFits(i) /\ CommentFits(i)
    /\ ThreadsDiffer
    /\ \A c \in DocCalls : DocCallFits(c, docCalls[c])

\* History: whoever is at work while the scope is open has seen it so.
Saw == sawOpen' = sawOpen \cup {c \in DocCalls : docCalls'[c].pc \notin {"idle", "done"} /\ writable'}

LEMMA NoIds == 0 \notin DocIds
BY DocumentsAssumption DEF DocIds

LEMMA DocsInitially == DocumentsInit => DocsInv
<1> SUFFICES ASSUME DocumentsInit PROVE DocsInv
  OBVIOUS
<1>1. NoThread \in ThreadRow /\ NoReply \in Reply /\ NoDocCall \in DocCall
  BY DEF NoThread, ThreadRow, NoReply, Reply, NoDocCall, DocCall, Anchors, NoAnchor
<1>2. DocsTyped
  BY <1>1 DEF DocumentsInit, DocsTyped, NoDoc
<1>3. \A i \in DocIds : docThreads[i] = NoThread /\ docComments[i] = NoReply /\ ~IsThread(i) /\ ~IsComment(i)
  BY DEF DocumentsInit, IsThread, IsComment, NoThread, NoReply
<1>4. \A i \in DocIds : ThreadFits(i) /\ CommentFits(i)
  BY <1>3 DEF ThreadFits, CommentFits
<1>5. \A c \in DocCalls : DocCallFits(c, docCalls[c])
  BY DEF DocumentsInit, DocCallFits, NoDocCall
<1>6. \A d \in Docs : docs[d].by = 0
  BY DEF DocumentsInit, NoDoc
<1> QED
  BY <1>2, <1>3, <1>4, <1>5, <1>6 DEF DocsInv, ThreadsDiffer

\* A call goes on to q, and no thread or comment is written.
LEMMA CallGoesOn ==
    ASSUME DocsInv, NEW c \in DocCalls, NEW q \in DocCall, docCalls' = [docCalls EXCEPT ![c] = q],
           docCalls[c].pc # "done", IsThread(c) => q.pc \in {"comment", "add", "done", "failed"} /\ q.op = docCalls[c].op,
           UNCHANGED <<writable, docThreads, docComments>>, Saw,
           docs' \in [Docs -> [visibility : {"absent", "normal", "archived"}, by : DocIds \cup {0}]],
           \A d \in Docs : docs'[d].by # 0 => docs'[d].by \in sawOpen',
           DocCallFits(c, q)'
    PROVE  DocsInv'
<1>1. /\ docCalls \in [DocCalls -> DocCall] /\ docThreads \in [DocIds -> ThreadRow]
      /\ docComments \in [DocIds -> Reply] /\ DocIds = DocCalls
  BY DEF DocsInv, DocsTyped, DocIds
<1>2. docCalls'[c] = q /\ \A d \in DocCalls : d # c => docCalls'[d] = docCalls[d]
  BY <1>1
<1>3. sawOpen \subseteq sawOpen' /\ sawOpen' \subseteq DocCalls
  BY DEF Saw, DocsInv, DocsTyped
<1>4. DocsTyped'
  BY <1>1, <1>3 DEF DocsInv, DocsTyped
<1>5. \A i : (IsThread(i)' <=> IsThread(i)) /\ (IsComment(i)' <=> IsComment(i))
  BY DEF IsThread, IsComment
<1>6. ASSUME NEW i \in DocIds PROVE ThreadFits(i)'
  <2>1. ThreadFits(i)
    BY DEF DocsInv
  <2>2. IsThread(i) => docCalls'[i].op = docCalls[i].op /\ docCalls'[i].pc \in {"comment", "add", "done", "failed"}
    <3>1. CASE i = c
      BY <1>2, <3>1
    <3>2. CASE i # c
      BY <1>1, <1>2, <2>1, <3>2 DEF ThreadFits
    <3> QED
      BY <3>1, <3>2
  <2> QED
    BY <1>3, <1>5, <2>1, <2>2 DEF ThreadFits
<1>7. ASSUME NEW i \in DocIds PROVE CommentFits(i)'
  <2>1. CommentFits(i)
    BY DEF DocsInv
  <2>2. IsComment(i) => docCalls'[i] = docCalls[i]
    BY <1>1, <1>2, <2>1 DEF CommentFits
  <2> QED
    BY <1>3, <1>5, <2>1, <2>2 DEF CommentFits
<1>8. ThreadsDiffer'
  BY <1>5 DEF DocsInv, ThreadsDiffer
<1>9. \A d \in DocCalls : DocCallFits(d, docCalls[d])'
  <2> SUFFICES ASSUME NEW d \in DocCalls PROVE DocCallFits(d, docCalls[d])'
    OBVIOUS
  <2>1. CASE d = c
    BY <1>2, <2>1
  <2>2. CASE d # c
    <3>1. DocCallFits(d, docCalls[d]) /\ docCalls'[d] = docCalls[d]
      BY <1>2, <2>2 DEF DocsInv
    <3> QED
      BY <1>3, <1>5, <3>1 DEF DocCallFits
  <2> QED
    BY <2>1, <2>2
<1> QED
  BY <1>4, <1>6, <1>7, <1>8, <1>9 DEF DocsInv

\* The same, when the documents stay as they are as well.
LEMMA CallOnly ==
    ASSUME DocsInv, NEW c \in DocCalls, NEW q \in DocCall, docCalls' = [docCalls EXCEPT ![c] = q],
           docCalls[c].pc # "done", IsThread(c) => q.pc \in {"comment", "add", "done", "failed"} /\ q.op = docCalls[c].op,
           UNCHANGED <<writable, docs, docThreads, docComments>>, Saw,
           DocCallFits(c, q)'
    PROVE  DocsInv'
<1>1. docs' \in [Docs -> [visibility : {"absent", "normal", "archived"}, by : DocIds \cup {0}]]
  BY DEF DocsInv, DocsTyped
<1>2. \A d \in Docs : docs'[d].by # 0 => docs'[d].by \in sawOpen'
  BY DEF DocsInv, Saw
<1> QED
  BY <1>1, <1>2, CallGoesOn

LEMMA BeginsDocument ==
    ASSUME DocsInv, Saw, NEW c \in DocCalls, NEW d \in Docs, NEW op \in {"store", "delete", "visibility"}, BeginDocument(c, op, d)
    PROVE  DocsInv'
<1> DEFINE q == [NoDocCall EXCEPT !.pc = "write", !.op = op, !.doc = d]
<1>1. /\ docCalls[c].pc = "idle" /\ writable /\ docCalls' = [docCalls EXCEPT ![c] = q]
      /\ UNCHANGED <<writable, docs, docThreads, docComments>>
  BY DEF BeginDocument, NextDocCall, AssertWritable, DocCallIs, scopeVars, Tables
<1>2. q \in DocCall /\ q.pc = "write" /\ q.op = op /\ q.doc = d /\ q.parent = 0
  BY DEF NoDocCall, DocCall, Anchors, NoAnchor
<1> HIDE DEF q
<1>3. docCalls'[c] = q
  BY <1>1 DEF DocsInv, DocsTyped
<1>4. c \in sawOpen'
  BY <1>1, <1>2, <1>3 DEF Saw
<1>5. ~IsThread(c)
  BY <1>1 DEF DocsInv, ThreadFits, DocIds
<1>6. DocCallFits(c, q)'
  BY <1>2, <1>4 DEF DocCallFits
<1> QED
  BY <1>1, <1>2, <1>5, <1>6, CallOnly

LEMMA BeginsDiscussion ==
    ASSUME DocsInv, Saw, NEW c \in DocCalls, NEW d \in Docs, NEW op \in {"comment", "ensure", "newthread"},
           NEW anchor \in Anchors, NEW key \in ThreadKeys, NEW parent \in DocIds \cup {0},
           parent # 0 => docComments[parent] # NoReply,
           op # "newthread" => key = threadKeyForAnchor(anchor),
           BeginDiscussion(c, op, d, anchor, key, parent)
    PROVE  DocsInv'
<1> DEFINE q == [NoDocCall EXCEPT !.pc = IF op = "newthread" THEN "create" ELSE "thread",
                     !.op = op, !.doc = d, !.anchor = anchor, !.key = key, !.parent = parent]
<1>1. /\ docCalls[c].pc = "idle" /\ writable /\ docCalls' = [docCalls EXCEPT ![c] = q]
      /\ UNCHANGED <<writable, docs, docThreads, docComments>>
  BY DEF BeginDiscussion, NextDocCall, AssertWritable, DocCallIs, scopeVars, Tables
<1>2. q \in DocCall /\ q.pc \in {"create", "thread"} /\ q.op = op /\ q.doc = d /\ q.anchor = anchor
      /\ q.key = key /\ q.parent = parent
  BY DEF NoDocCall, DocCall
<1> HIDE DEF q
<1>3. docCalls'[c] = q
  BY <1>1 DEF DocsInv, DocsTyped
<1>4. c \in sawOpen'
  BY <1>1, <1>2, <1>3 DEF Saw
<1>5. ~IsThread(c)
  BY <1>1 DEF DocsInv, ThreadFits, DocIds
<1>6. parent # 0 => IsComment(parent)'
  BY <1>1 DEF DocsInv, CommentFits, IsComment
<1>7. DocCallFits(c, q)'
  BY <1>2, <1>4, <1>6 DEF DocCallFits
<1> QED
  BY <1>1, <1>2, <1>5, <1>7, CallOnly

LEMMA BeginsReply ==
    ASSUME DocsInv, Saw, NEW c \in DocCalls, NEW i \in DocIds, NEW parent \in DocIds \cup {0},
           parent # 0 => docComments[parent] # NoReply, CreateDiscussionComment(c, i, parent)
    PROVE  DocsInv'
<1>0. PICK d : d = docThreads[i].doc
  OBVIOUS
<1> DEFINE q == [NoDocCall EXCEPT !.pc = "comment", !.op = "reply", !.thread = i, !.doc = d, !.parent = parent]
<1>1. /\ docCalls[c].pc = "idle" /\ docThreads[i] # NoThread /\ docCalls' = [docCalls EXCEPT ![c] = q]
      /\ UNCHANGED <<writable, docs, docThreads, docComments>>
  BY <1>0 DEF CreateDiscussionComment, NextDocCall, DocCallIs, scopeVars, Tables
<1>2. d \in Docs \cup {"none"}
  BY <1>0 DEF DocsInv, DocsTyped, ThreadRow
<1>3. q \in DocCall /\ q.pc = "comment" /\ q.op = "reply" /\ q.thread = i /\ q.parent = parent
  BY <1>2 DEF NoDocCall, DocCall, Anchors, NoAnchor
<1> HIDE DEF q
<1>4. ~IsThread(c) /\ IsThread(i)'
  BY <1>1 DEF DocsInv, ThreadFits, DocIds, IsThread
<1>5. parent # 0 => IsComment(parent)'
  BY <1>1 DEF DocsInv, CommentFits, IsComment
<1>6. DocCallFits(c, q)'
  BY <1>3, <1>4, <1>5 DEF DocCallFits
<1> QED
  BY <1>1, <1>3, <1>4, <1>6, CallOnly

LEMMA AsksAgain ==
    ASSUME DocsInv, Saw, NEW c \in DocCalls, AssertForComment(c)
    PROVE  DocsInv'
<1>0. PICK o \in DocCall : o = docCalls[c] /\ DocCallFits(c, o)
  BY DEF DocsInv, DocsTyped
<1> DEFINE q == [o EXCEPT !.pc = "add"]
<1>1. /\ o.pc = "comment" /\ writable /\ docCalls' = [docCalls EXCEPT ![c] = q]
      /\ UNCHANGED <<writable, docs, docThreads, docComments>>
  BY <1>0 DEF AssertForComment, AssertWritable, DocCallTo, scopeVars, Tables
<1>2. q \in DocCall /\ q.pc = "add" /\ q.op = o.op /\ q.thread = o.thread /\ q.parent = o.parent /\ q.anchor = o.anchor
  BY DEF DocCall
<1> HIDE DEF q
<1>3. docCalls'[c] = q
  BY <1>1 DEF DocsInv, DocsTyped
<1>4. c \in sawOpen'
  BY <1>1, <1>2, <1>3 DEF Saw
<1>5. DocCallFits(c, q)'
  BY <1>0, <1>1, <1>2, <1>4 DEF DocCallFits, IsThread, IsComment
<1> QED
  BY <1>0, <1>1, <1>2, <1>5, CallOnly

\* The call goes on when the thread i is there.
LEMMA GoesOnWithThread ==
    ASSUME DocsInv, Saw, NEW c \in DocCalls, docCalls[c].pc \in {"thread", "create"},
           NEW i \in DocIds, IsThread(i), HasThread(c, i),
           docCalls[c].op = "comment" /\ docCalls[c].parent = 0 => docThreads[i].key = docCalls[c].key,
           UNCHANGED <<writable, docs, docThreads, docComments>>
    PROVE  DocsInv'
<1>0. PICK o \in DocCall : o = docCalls[c] /\ DocCallFits(c, o)
  BY DEF DocsInv, DocsTyped
<1>1. PICK pc \in {"comment", "done"} : pc = IF o.op = "comment" THEN "comment" ELSE "done"
  OBVIOUS
<1> DEFINE q == [o EXCEPT !.thread = i, !.pc = pc]
<1>2. docCalls' = [docCalls EXCEPT ![c] = q]
  BY <1>0, <1>1 DEF HasThread, DocCallIs
<1>3. q \in DocCall /\ q.pc = pc /\ q.op = o.op /\ q.thread = i /\ q.parent = o.parent /\ q.anchor = o.anchor
  BY DEF DocCall
<1> HIDE DEF q
<1>4. ~IsThread(c)
  BY DEF DocsInv, ThreadFits, DocIds
<1>5. o.op = "comment" => o.key = threadKeyForAnchor(o.anchor)
  BY <1>0 DEF DocCallFits
<1>6. DocCallFits(c, q)'
  <2>1. \A j : (IsThread(j)' <=> IsThread(j)) /\ (IsComment(j)' <=> IsComment(j))
    BY DEF IsThread, IsComment
  <2>2. o.parent # 0 => IsComment(o.parent)
    BY <1>0 DEF DocCallFits
  <2>3. o.op = "comment" /\ o.parent = 0 => docThreads'[i].key = threadKeyForAnchor(o.anchor)
    BY <1>0, <1>5
  <2> QED
    BY <1>1, <1>3, <2>1, <2>2, <2>3 DEF DocCallFits
<1> QED
  BY <1>2, <1>3, <1>4, <1>6, CallOnly

LEMMA FindsThread ==
    ASSUME DocsInv, Saw, NEW c \in DocCalls, FindThread(c)
    PROVE  DocsInv'
<1>0. PICK o \in DocCall : o = docCalls[c] /\ DocCallFits(c, o)
  BY DEF DocsInv, DocsTyped
<1> DEFINE above == docComments[o.parent].thread
           found == {i \in DocIds : docThreads[i].doc = o.doc /\ docThreads[i].key = o.key}
<1>1. /\ o.pc = "thread"
      /\ IF o.parent # 0
         THEN IF above # 0 /\ docThreads[above].doc = o.doc THEN HasThread(c, above) ELSE DocCallTo(c, "failed")
         ELSE IF found # {} THEN \E i \in found : HasThread(c, i) ELSE DocCallTo(c, "create")
      /\ UNCHANGED <<writable, docs, docThreads, docComments>>
  BY <1>0 DEF FindThread, scopeVars, Tables
<1>2. ~IsThread(c)
  BY <1>0, <1>1 DEF DocsInv, ThreadFits, DocIds
<1>3. CASE o.parent # 0 /\ HasThread(c, above)
  <2>1. above \in DocIds /\ IsThread(above)
    BY <1>0, <1>3 DEF DocCallFits, DocsInv, DocsTyped, CommentFits, IsComment, DocCall, Reply
  <2> QED
    BY <1>0, <1>1, <1>3, <2>1, GoesOnWithThread
<1>4. CASE o.parent = 0 /\ \E i \in found : HasThread(c, i)
  <2>1. PICK i \in found : HasThread(c, i)
    BY <1>4
  <2>2. docThreads[i].key = o.key /\ IsThread(i)
    BY <1>0, <1>1 DEF DocCallFits, IsThread, ThreadKeys
  <2> QED
    BY <1>0, <1>1, <2>1, <2>2, GoesOnWithThread
<1>5. ASSUME NEW pc \in {"failed", "create"}, DocCallTo(c, pc) PROVE DocsInv'
  <2> DEFINE q == [o EXCEPT !.pc = pc]
  <2>1. docCalls' = [docCalls EXCEPT ![c] = q]
    BY <1>0, <1>5 DEF DocCallTo
  <2>2. q \in DocCall /\ q.pc = pc /\ q.op = o.op /\ q.doc = o.doc /\ q.key = o.key /\ q.anchor = o.anchor /\ q.parent = o.parent
    BY DEF DocCall
  <2> HIDE DEF q
  <2>3. c \in sawOpen'
    BY <1>0, <1>1 DEF DocCallFits, Saw
  <2>4. DocCallFits(c, q)'
    BY <1>0, <1>1, <2>2, <2>3 DEF DocCallFits, IsComment
  <2> QED
    BY <1>0, <1>1, <1>2, <2>1, <2>2, <2>4, CallOnly
<1> QED
  BY <1>1, <1>3, <1>4, <1>5

\* A call goes on to q, and only its own thread or comment is new.
LEMMA RowsGrow ==
    ASSUME DocsInv, Saw, NEW c \in DocCalls, NEW q \in DocCall, docCalls' = [docCalls EXCEPT ![c] = q],
           docCalls[c].pc # "done", IsThread(c) => q.pc \in {"comment", "add", "done", "failed"} /\ q.op = docCalls[c].op,
           UNCHANGED <<writable, docs>>,
           docThreads' \in [DocIds -> ThreadRow], docComments' \in [DocIds -> Reply],
           \A i \in DocIds : IsThread(i) => /\ docThreads'[i].doc = docThreads[i].doc
                                            /\ docThreads'[i].anchor = docThreads[i].anchor
                                            /\ docThreads'[i].key = docThreads[i].key,
           \A i \in DocIds \ {c} : ~IsThread(i) => docThreads'[i] = docThreads[i],
           \A i \in DocIds \ {c} : docComments'[i] = docComments[i],
           ThreadFits(c)', CommentFits(c)', ThreadsDiffer', DocCallFits(c, q)'
    PROVE  DocsInv'
<1>1. /\ docCalls \in [DocCalls -> DocCall] /\ docThreads \in [DocIds -> ThreadRow]
      /\ docComments \in [DocIds -> Reply] /\ DocIds = DocCalls
  BY DEF DocsInv, DocsTyped, DocIds
<1>2. docCalls'[c] = q /\ \A d \in DocCalls : d # c => docCalls'[d] = docCalls[d]
  BY <1>1
<1>3. sawOpen \subseteq sawOpen' /\ sawOpen' \subseteq DocCalls
  BY DEF Saw, DocsInv, DocsTyped
<1>4. DocsTyped'
  BY <1>1, <1>3 DEF DocsInv, DocsTyped
<1>5. \A i \in DocIds : (IsThread(i) => IsThread(i)') /\ (i # c => (IsThread(i)' <=> IsThread(i)) /\ (IsComment(i)' <=> IsComment(i)))
  BY DEF IsThread, IsComment
<1>6. ~IsComment(c)
  BY <1>1 DEF DocsInv, CommentFits
<1>7. ASSUME NEW i \in DocIds PROVE ThreadFits(i)'
  <2>1. CASE i = c
    BY <2>1
  <2>2. CASE i # c
    BY <1>1, <1>2, <1>3, <1>5, <2>2 DEF DocsInv, ThreadFits
  <2> QED
    BY <2>1, <2>2
<1>8. ASSUME NEW i \in DocIds PROVE CommentFits(i)'
  <2>1. CASE i = c
    BY <2>1
  <2>2. CASE i # c
    <3>1. CommentFits(i) /\ docComments'[i] = docComments[i] /\ docCalls'[i] = docCalls[i]
      BY <1>1, <1>2, <2>2 DEF DocsInv
    <3>2. CASE ~IsComment(i)
      BY <1>5, <2>2, <3>1, <3>2 DEF CommentFits
    <3>3. CASE IsComment(i)
      <4>1. PICK m \in Reply : m = docComments[i]
        BY <1>1
      <4>2. m.thread \in DocIds /\ IsThread(m.thread) /\ IsThread(m.thread)' /\ docThreads'[m.thread].key = docThreads[m.thread].key
        BY <1>5, <3>1, <3>3, <4>1 DEF CommentFits, Reply, IsComment
      <4>3. m.parent # 0 => m.parent \in DocIds /\ IsComment(m.parent) /\ m.parent # c
                            /\ docComments'[m.parent] = docComments[m.parent] /\ IsComment(m.parent)'
        BY <1>5, <1>6, <3>1, <3>3, <4>1 DEF CommentFits, Reply
      <4> QED
        BY <1>3, <1>5, <2>2, <3>1, <3>3, <4>1, <4>2, <4>3 DEF CommentFits
    <3> QED
      BY <3>2, <3>3
  <2> QED
    BY <2>1, <2>2
<1>9. \A d \in DocCalls : DocCallFits(d, docCalls[d])'
  <2> SUFFICES ASSUME NEW d \in DocCalls PROVE DocCallFits(d, docCalls[d])'
    OBVIOUS
  <2>1. CASE d = c
    BY <1>2, <2>1
  <2>2. CASE d # c
    <3>1. PICK o \in DocCall : o = docCalls[d] /\ o = docCalls'[d] /\ DocCallFits(d, o)
      BY <1>1, <1>2, <2>2 DEF DocsInv
    <3>2. o.pc \in {"comment", "add"} => IsThread(o.thread)' /\ docThreads'[o.thread].key = docThreads[o.thread].key
      BY <1>5, <3>1 DEF DocCallFits
    <3>3. o.parent # 0 => IsComment(o.parent)'
      BY <1>5, <1>6, <3>1 DEF DocCallFits, DocCall
    <3>4. DocCallFits(d, o)'
      BY <1>3, <3>1, <3>2, <3>3 DEF DocCallFits
    <3> QED
      BY <3>1, <3>4
  <2> QED
    BY <2>1, <2>2
<1> QED
  BY <1>3, <1>4, <1>7, <1>8, <1>9 DEF DocsInv

LEMMA SameRows ==
    ASSUME NEW u \in ThreadRow, NEW v \in ThreadRow,
           u.doc = v.doc, u.anchor = v.anchor, u.key = v.key, u.open = v.open
    PROVE  u = v
BY DEF ThreadRow

LEMMA CreatesThread ==
    ASSUME DocsInv, Saw, NEW c \in DocCalls, CreateThread(c)
    PROVE  DocsInv'
<1>0. PICK o \in DocCall : o = docCalls[c] /\ DocCallFits(c, o)
  BY DEF DocsInv, DocsTyped
<1> DEFINE row == [doc |-> o.doc, anchor |-> o.anchor, key |-> o.key, open |-> TRUE]
           same == {i \in DocIds : [docThreads[i] EXCEPT !.open = TRUE] = row}
<1>1. /\ o.pc = "create" /\ UNCHANGED <<writable, docs, docComments>>
      /\ IF same # {} THEN (\E i \in same : HasThread(c, i)) /\ UNCHANGED docThreads
         ELSE HasThread(c, c) /\ docThreads' = [docThreads EXCEPT ![c] = row]
  BY <1>0 DEF CreateThread, scopeVars
<1>2. /\ o.doc \in Docs /\ o.key \in ThreadKeys /\ o.op \in {"comment", "ensure", "newthread"} /\ c \in sawOpen
      /\ o.op # "newthread" => o.key = threadKeyForAnchor(o.anchor)
      /\ o.parent # 0 => IsComment(o.parent)
  BY <1>0, <1>1 DEF DocCallFits
<1>3. docThreads \in [DocIds -> ThreadRow] /\ c \in DocIds /\ DocIds = DocCalls
  BY DEF DocsInv, DocsTyped, DocIds
<1>4. \A i \in DocIds : i \in same <=> /\ docThreads[i].doc = o.doc /\ docThreads[i].anchor = o.anchor
                                       /\ docThreads[i].key = o.key
  <2> SUFFICES ASSUME NEW i \in DocIds
               PROVE  [docThreads[i] EXCEPT !.open = TRUE] = row
                         <=> /\ docThreads[i].doc = o.doc /\ docThreads[i].anchor = o.anchor
                             /\ docThreads[i].key = o.key
    OBVIOUS
  <2>1. PICK t \in ThreadRow : t = docThreads[i]
    BY <1>3
  <2> DEFINE u == [t EXCEPT !.open = TRUE]
  <2>2. u \in ThreadRow /\ u.doc = t.doc /\ u.anchor = t.anchor /\ u.key = t.key /\ u.open = TRUE
    BY DEF ThreadRow
  <2>3. row \in ThreadRow /\ row.doc = o.doc /\ row.anchor = o.anchor /\ row.key = o.key /\ row.open = TRUE
    BY <1>2 DEF ThreadRow, DocCall
  <2> HIDE DEF u, row
  <2>4. u = row <=> u.doc = row.doc /\ u.anchor = row.anchor /\ u.key = row.key
    BY <2>2, <2>3, SameRows
  <2>5. u = row <=> t.doc = o.doc /\ t.anchor = o.anchor /\ t.key = o.key
    BY <2>2, <2>3, <2>4
  <2> QED
    BY <2>1, <2>5 DEF u
<1>5. row \in ThreadRow /\ row.doc = o.doc /\ row.anchor = o.anchor /\ row.key = o.key
  BY <1>2 DEF ThreadRow, DocCall
<1> HIDE DEF row, same
<1>6. CASE same # {}
  <2>1. PICK i \in same : HasThread(c, i)
    BY <1>1, <1>6
  <2>2. i \in DocIds
    BY DEF same
  <2>3. docThreads[i].key = o.key /\ IsThread(i)
    BY <1>2, <1>4, <2>2 DEF IsThread, ThreadKeys
  <2> QED
    BY <1>0, <1>1, <1>6, <2>1, <2>2, <2>3, GoesOnWithThread
<1>7. CASE same = {}
  <2>0. PICK pc \in {"comment", "done"} : pc = IF o.op = "comment" THEN "comment" ELSE "done"
    OBVIOUS
  <2> DEFINE q == [o EXCEPT !.thread = c, !.pc = pc]
  <2>1. docCalls' = [docCalls EXCEPT ![c] = q] /\ docThreads' = [docThreads EXCEPT ![c] = row]
    BY <1>0, <1>1, <1>7, <2>0 DEF HasThread, DocCallIs
  <2>2. q \in DocCall /\ q.pc = pc /\ q.op = o.op /\ q.thread = c /\ q.parent = o.parent /\ q.anchor = o.anchor
    BY <1>3 DEF DocCall
  <2> HIDE DEF q
  <2>3. docThreads' \in [DocIds -> ThreadRow] /\ docThreads'[c] = row /\ \A i \in DocIds \ {c} : docThreads'[i] = docThreads[i]
    BY <1>3, <1>5, <2>1
  <2>4. ~IsThread(c)
    BY <1>0, <1>1, <1>3 DEF DocsInv, ThreadFits
  <2>5. docCalls'[c] = q /\ c \in sawOpen'
    BY <1>2, <2>1 DEF DocsInv, DocsTyped, Saw
  <2>6. IsThread(c)'
    BY <1>2, <1>5, <2>3 DEF IsThread, ThreadKeys
  <2>7. ThreadFits(c)'
    BY <1>2, <1>5, <2>0, <2>2, <2>3, <2>5, <2>6 DEF ThreadFits
  <2>8. CommentFits(c)'
    <3>1. ~IsComment(c) /\ docComments[c] = NoReply
      BY <1>0, <1>1, <1>3 DEF DocsInv, CommentFits
    <3> QED
      BY <1>1, <3>1 DEF CommentFits, IsComment
  <2>9. ThreadsDiffer'
    <3> SUFFICES ASSUME NEW i \in DocIds, NEW j \in DocIds, IsThread(i)', IsThread(j)',
                        docThreads'[i].doc = docThreads'[j].doc, docThreads'[i].anchor = docThreads'[j].anchor,
                        docThreads'[i].key = docThreads'[j].key, i # j
                 PROVE  FALSE
      BY DEF ThreadsDiffer
    <3>1. i = c \/ j = c
      BY <2>3 DEF DocsInv, ThreadsDiffer, IsThread
    <3> QED
      BY <1>4, <1>5, <1>7, <2>3, <3>1
  <2>10. DocCallFits(c, q)'
    <3>1. o.parent # 0 => IsComment(o.parent)'
      BY <1>1, <1>2 DEF IsComment
    <3> QED
      BY <1>2, <1>3, <1>5, <2>0, <2>2, <2>3, <2>6, <3>1 DEF DocCallFits
  <2>11. docComments' \in [DocIds -> Reply]
    BY <1>1 DEF DocsInv, DocsTyped
  <2> QED
    BY <1>0, <1>1, <2>1, <2>2, <2>3, <2>4, <2>7, <2>8, <2>9, <2>10, <2>11, RowsGrow
<1> QED
  BY <1>6, <1>7

LEMMA AddsComment ==
    ASSUME DocsInv, Saw, NEW c \in DocCalls, AddComment(c)
    PROVE  DocsInv'
<1>0. PICK o \in DocCall : o = docCalls[c] /\ DocCallFits(c, o)
  BY DEF DocsInv, DocsTyped
<1>1. PICK anchor \in Anchors \cup {"none"} : anchor = IF o.op = "comment" /\ o.parent = 0 THEN o.anchor ELSE "none"
  BY DEF DocCall
<1> DEFINE m == [thread |-> o.thread, parent |-> o.parent, anchor |-> anchor]
<1>2. /\ o.pc = "add" /\ UNCHANGED <<writable, docs, docThreads>>
      /\ \/ DocCallTo(c, "failed") /\ UNCHANGED docComments
         \/ /\ DocCallTo(c, "done") /\ docComments' = [docComments EXCEPT ![c] = m]
            /\ o.parent # 0 => docComments[o.parent].thread = o.thread
  BY <1>0, <1>1 DEF AddComment, ParentMatches, scopeVars
<1>3. /\ c \in sawOpen /\ o.op \in {"comment", "reply"} /\ o.thread \in DocIds /\ IsThread(o.thread)
      /\ o.op = "comment" /\ o.parent = 0 => docThreads[o.thread].key = threadKeyForAnchor(o.anchor)
      /\ o.parent # 0 => IsComment(o.parent)
  BY <1>0, <1>2 DEF DocCallFits
<1>4. ASSUME NEW pc \in {"failed", "done"}, DocCallTo(c, pc)
      PROVE  /\ docCalls' = [docCalls EXCEPT ![c] = [o EXCEPT !.pc = pc]]
             /\ [o EXCEPT !.pc = pc] \in DocCall /\ [o EXCEPT !.pc = pc].pc = pc
             /\ [o EXCEPT !.pc = pc].op = o.op /\ [o EXCEPT !.pc = pc].parent = o.parent
  BY <1>0, <1>4 DEF DocCallTo, DocCall
<1>5. CASE DocCallTo(c, "failed") /\ UNCHANGED docComments
  <2> DEFINE q == [o EXCEPT !.pc = "failed"]
  <2>1. docCalls' = [docCalls EXCEPT ![c] = q] /\ q \in DocCall /\ q.pc = "failed" /\ q.op = o.op /\ q.parent = o.parent
    BY <1>4, <1>5
  <2> HIDE DEF q
  <2>2. DocCallFits(c, q)'
    BY <1>3, <1>5, <2>1 DEF DocCallFits, IsComment
  <2> QED
    BY <1>0, <1>2, <1>5, <2>1, <2>2, CallOnly
<1>6. CASE /\ DocCallTo(c, "done") /\ docComments' = [docComments EXCEPT ![c] = m]
           /\ o.parent # 0 => docComments[o.parent].thread = o.thread
  <2> DEFINE q == [o EXCEPT !.pc = "done"]
  <2>1. docCalls' = [docCalls EXCEPT ![c] = q] /\ q \in DocCall /\ q.pc = "done" /\ q.op = o.op /\ q.parent = o.parent
    BY <1>4, <1>6
  <2>2. m \in Reply /\ m.thread = o.thread /\ m.parent = o.parent /\ m.anchor = anchor
    BY DEF Reply, DocCall
  <2> HIDE DEF q, m
  <2>3. /\ docComments \in [DocIds -> Reply] /\ docThreads \in [DocIds -> ThreadRow]
        /\ docCalls \in [DocCalls -> DocCall] /\ DocIds = DocCalls
    BY DEF DocsInv, DocsTyped, DocIds
  <2>4. docComments' \in [DocIds -> Reply] /\ docComments'[c] = m /\ \A i \in DocIds \ {c} : docComments'[i] = docComments[i]
    BY <1>6, <2>2, <2>3
  <2>5. docCalls'[c] = q /\ c \in sawOpen'
    BY <1>3, <2>1, <2>3 DEF Saw
  <2>6. ~IsComment(c)
    BY <1>0, <1>2, <2>3 DEF DocsInv, CommentFits
  <2>7. \A i : IsThread(i)' <=> IsThread(i)
    BY <1>2 DEF IsThread
  <2>8. o.parent # 0 => o.parent \in DocIds \ {c} /\ IsComment(o.parent)' /\ docComments'[o.parent].thread = o.thread
    <3>1. o.parent # 0 => o.parent \in DocIds \ {c}
      BY <1>3, <2>6 DEF DocCall
    <3> QED
      BY <1>3, <1>6, <2>4, <3>1 DEF IsComment
  <2>9. CommentFits(c)'
    <3>1. IsComment(c)'
      BY <1>3, <2>2, <2>4, NoIds DEF IsComment
    <3>2. anchor \in Anchors => docThreads'[o.thread].key = threadKeyForAnchor(anchor)
      BY <1>1, <1>2, <1>3 DEF Anchors, NoAnchor
    <3>3. IsThread(o.thread)'
      BY <1>3, <2>7
    <3> QED
      BY <2>1, <2>2, <2>4, <2>5, <2>8, <3>1, <3>2, <3>3 DEF CommentFits
  <2>10. ThreadFits(c)'
    <3>1. ThreadFits(c)
      BY <2>3 DEF DocsInv
    <3> QED
      BY <1>0, <1>2, <2>1, <2>5, <2>7, <3>1 DEF ThreadFits
  <2>11. ThreadsDiffer'
    BY <1>2, <2>7 DEF DocsInv, ThreadsDiffer
  <2>12. DocCallFits(c, q)'
    BY <2>1, <2>8 DEF DocCallFits
  <2> QED
    BY <1>0, <1>2, <2>1, <2>3, <2>4, <2>9, <2>10, <2>11, <2>12, RowsGrow
<1> QED
  BY <1>2, <1>5, <1>6

LEMMA WritesDocument ==
    ASSUME DocsInv, Saw, NEW c \in DocCalls, UpsertDocument(c) \/ DeleteDocument(c) \/ UpdateDocumentVisibility(c)
    PROVE  DocsInv'
<1>0. PICK o \in DocCall : o = docCalls[c] /\ DocCallFits(c, o)
  BY DEF DocsInv, DocsTyped
<1>1. /\ o.pc = "write" /\ UNCHANGED <<writable, docThreads, docComments>>
      /\ \E pc \in {"done", "failed"} : docCalls' = [docCalls EXCEPT ![c] = [o EXCEPT !.pc = pc]]
  BY <1>0 DEF UpsertDocument, DeleteDocument, UpdateDocumentVisibility, DocCallTo, scopeVars
<1>2. PICK pc \in {"done", "failed"} : docCalls' = [docCalls EXCEPT ![c] = [o EXCEPT !.pc = pc]]
  BY <1>1
<1> DEFINE q == [o EXCEPT !.pc = pc]
<1>3. q \in DocCall /\ q.pc = pc /\ q.op = o.op /\ q.parent = o.parent
  BY DEF DocCall
<1> HIDE DEF q
<1>4. c \in sawOpen /\ sawOpen \subseteq sawOpen' /\ o.doc \in Docs /\ ~IsThread(c)
  BY <1>0, <1>1 DEF DocCallFits, DocsInv, ThreadFits, DocIds, Saw
<1> DEFINE Row == [visibility : {"absent", "normal", "archived"}, by : DocIds \cup {0}]
<1>5. PICK row \in Row : docs' = [docs EXCEPT ![o.doc] = row] /\ (row.by = c \/ row.by = 0 \/ row = docs[o.doc])
  <2>0. docs \in [Docs -> Row]
    BY DEF DocsInv, DocsTyped
  <2>1. ASSUME UpsertDocument(c) PROVE \E row \in Row : docs' = [docs EXCEPT ![o.doc] = row] /\ row.by = c
    <3> DEFINE row == [visibility |-> IF docs[o.doc].visibility = "absent" THEN "normal" ELSE docs[o.doc].visibility, by |-> c]
    <3>1. docs' = [docs EXCEPT ![o.doc] = row]
      BY <1>0, <2>1 DEF UpsertDocument
    <3>2. row \in Row /\ row.by = c
      BY <1>4, <2>0 DEF DocIds
    <3> QED
      BY <3>1, <3>2
  <2>2. ASSUME DeleteDocument(c) PROVE \E row \in Row : docs' = [docs EXCEPT ![o.doc] = row] /\ row.by = 0
    <3>1. docs' = [docs EXCEPT ![o.doc] = NoDoc]
      BY <1>0, <2>2 DEF DeleteDocument
    <3>2. NoDoc \in Row /\ NoDoc.by = 0
      BY DEF NoDoc
    <3> QED
      BY <3>1, <3>2
  <2>3. ASSUME UpdateDocumentVisibility(c)
        PROVE  \E row \in Row : docs' = [docs EXCEPT ![o.doc] = row] /\ (row.by = c \/ row = docs[o.doc])
    <3> DEFINE row == IF docs[o.doc].visibility = "absent" THEN docs[o.doc] ELSE [visibility |-> "archived", by |-> c]
    <3>1. docs' = [docs EXCEPT ![o.doc] = row]
      BY <1>0, <1>4, <2>0, <2>3 DEF UpdateDocumentVisibility
    <3>2. row \in Row /\ (row.by = c \/ row = docs[o.doc])
      BY <1>4, <2>0 DEF DocIds
    <3> QED
      BY <3>1, <3>2
  <2> QED
    BY <2>1, <2>2, <2>3
<1>6. docs' \in [Docs -> Row]
  BY <1>5 DEF DocsInv, DocsTyped
<1>7. \A d \in Docs : docs'[d].by # 0 => docs'[d].by \in sawOpen'
  BY <1>4, <1>5 DEF DocsInv, DocsTyped
<1>8. DocCallFits(c, q)'
  BY <1>0, <1>1, <1>3 DEF DocCallFits, IsComment
<1> HIDE DEF Row
<1>9. docs' \in [Docs -> [visibility : {"absent", "normal", "archived"}, by : DocIds \cup {0}]]
  BY <1>6 DEF Row
<1> QED
  BY <1>0, <1>1, <1>2, <1>3, <1>4, <1>7, <1>8, <1>9, CallGoesOn DEF q

LEMMA ResolvesThread ==
    ASSUME DocsInv, Saw, NEW c \in DocCalls, NEW i \in DocIds, UpdateDiscussionThread(c, i)
    PROVE  DocsInv'
<1>0. PICK d : d = docThreads[i].doc
  OBVIOUS
<1> DEFINE q == [NoDocCall EXCEPT !.pc = "done", !.op = "update", !.doc = d]
<1>1. /\ docCalls[c].pc = "idle" /\ docThreads[i] # NoThread /\ docCalls' = [docCalls EXCEPT ![c] = q]
      /\ docThreads' = [docThreads EXCEPT ![i].open = ~@]
      /\ UNCHANGED <<writable, docs, docComments>>
  BY <1>0 DEF UpdateDiscussionThread, NextDocCall, DocCallIs, scopeVars
<1>2. docThreads \in [DocIds -> ThreadRow] /\ DocIds = DocCalls /\ docComments' \in [DocIds -> Reply]
  BY <1>1 DEF DocsInv, DocsTyped, DocIds
<1>3. q \in DocCall /\ q.pc = "done" /\ q.parent = 0
  <2>1. d \in Docs \cup {"none"}
    BY <1>0, <1>2 DEF ThreadRow
  <2> QED
    BY <2>1 DEF NoDocCall, DocCall, Anchors, NoAnchor
<1> HIDE DEF q
<1>4. PICK t \in ThreadRow : t = docThreads[i]
  BY <1>2
<1>5. docThreads' = [docThreads EXCEPT ![i] = [t EXCEPT !.open = ~t.open]]
  BY <1>1, <1>4
<1>6. [t EXCEPT !.open = ~t.open] \in ThreadRow /\ [t EXCEPT !.open = ~t.open].doc = t.doc
      /\ [t EXCEPT !.open = ~t.open].anchor = t.anchor /\ [t EXCEPT !.open = ~t.open].key = t.key
  BY DEF ThreadRow
<1>7. /\ docThreads' \in [DocIds -> ThreadRow]
      /\ \A j \in DocIds : /\ docThreads'[j].doc = docThreads[j].doc /\ docThreads'[j].anchor = docThreads[j].anchor
                           /\ docThreads'[j].key = docThreads[j].key
      /\ \A j \in DocIds \ {i} : docThreads'[j] = docThreads[j]
  BY <1>2, <1>4, <1>5, <1>6
<1>8. IsThread(i) /\ ~IsThread(c)
  BY <1>1, <1>2 DEF DocsInv, ThreadFits
<1>9. \A j \in DocIds : IsThread(j)' <=> IsThread(j)
  BY <1>7 DEF IsThread
<1>10. c # i
  BY <1>8
<1>11. ThreadFits(c)'
  <2>1. ~IsThread(c)' /\ docThreads'[c] = docThreads[c] /\ docThreads[c] = NoThread
    BY <1>2, <1>7, <1>8, <1>9, <1>10 DEF DocsInv, ThreadFits
  <2> QED
    BY <2>1 DEF ThreadFits
<1>12. CommentFits(c)'
  <2>1. ~IsComment(c) /\ docComments[c] = NoReply
    BY <1>1, <1>2 DEF DocsInv, CommentFits
  <2> QED
    BY <1>1, <2>1 DEF CommentFits, IsComment
<1>13. ThreadsDiffer'
  BY <1>7, <1>9 DEF DocsInv, ThreadsDiffer
<1>14. DocCallFits(c, q)'
  BY <1>3 DEF DocCallFits
<1>15. \A j \in DocIds \ {c} : ~IsThread(j) => docThreads'[j] = docThreads[j]
  BY <1>7, <1>8
<1> QED
  BY <1>1, <1>2, <1>3, <1>7, <1>8, <1>11, <1>12, <1>13, <1>14, <1>15, RowsGrow

LEMMA DocsStep == DocsInv /\ [DocumentsNext]_documentsVars => DocsInv'
<1> SUFFICES ASSUME DocsInv, [DocumentsNext]_documentsVars PROVE DocsInv'
  OBVIOUS
<1>1. CASE UNCHANGED documentsVars
  BY <1>1 DEF documentsVars, scopeVars, DocsInv, DocsTyped, ThreadFits, IsThread, CommentFits, IsComment,
              ThreadsDiffer, DocCallFits
<1>2. CASE DocumentsNext
  <2>1. Saw
    BY <1>2 DEF DocumentsNext, Saw
  <2>2. CASE ScopeChanges
    <3>1. UNCHANGED <<docs, docThreads, docComments, docCalls>> /\ writable' \in BOOLEAN
      BY <2>2 DEF ScopeChanges, Tables
    <3>2. sawOpen \subseteq sawOpen' /\ sawOpen' \subseteq DocCalls
      BY <2>1 DEF Saw, DocsInv, DocsTyped
    <3>3. DocsTyped'
      BY <3>1, <3>2 DEF DocsInv, DocsTyped
    <3> QED
      BY <3>1, <3>2, <3>3 DEF DocsInv, ThreadFits, IsThread, CommentFits, IsComment, ThreadsDiffer, DocCallFits
  <2>3. ASSUME NEW c \in DocCalls, DocumentStep(c) PROVE DocsInv'
    <3>1. \A anchor \in Anchors : threadKeyForAnchor(anchor) \in ThreadKeys /\ NoAnchor \in Anchors
      BY DEF threadKeyForAnchor, ThreadKeys, Anchors
    <3>2. CASE \E d \in Docs, op \in {"store", "delete", "visibility"} : BeginDocument(c, op, d)
      BY <2>1, <3>2, BeginsDocument
    <3>3. CASE \E d \in Docs, anchor \in Anchors :
                  \/ GetDocumentDiscussion(c, d, anchor)
                  \/ \E parent \in DocIds \cup {0} :
                        /\ parent # 0 => docComments[parent] # NoReply
                        /\ BeginDiscussion(c, "comment", d, anchor, threadKeyForAnchor(anchor), parent)
                  \/ BeginDiscussion(c, "newthread", d, NoAnchor, threadKeyForAnchor(anchor), 0)
      BY <2>1, <3>1, <3>3, BeginsDiscussion DEF GetDocumentDiscussion
    <3>4. CASE \E i \in DocIds : UpdateDiscussionThread(c, i)
      BY <2>1, <3>4, ResolvesThread
    <3>5. CASE \E i \in DocIds, parent \in DocIds \cup {0} :
                  (parent # 0 => docComments[parent] # NoReply) /\ CreateDiscussionComment(c, i, parent)
      BY <2>1, <3>5, BeginsReply
    <3>6. CASE AssertForComment(c) \/ FindThread(c) \/ CreateThread(c) \/ AddComment(c)
      BY <2>1, <3>6, AsksAgain, FindsThread, CreatesThread, AddsComment
    <3>7. CASE UpsertDocument(c) \/ DeleteDocument(c) \/ UpdateDocumentVisibility(c)
      BY <2>1, <3>7, WritesDocument
    <3> QED
      BY <2>3, <3>2, <3>3, <3>4, <3>5, <3>6, <3>7 DEF DocumentStep
  <2> QED
    BY <1>2, <2>2, <2>3 DEF DocumentsNext
<1> QED
  BY <1>1, <1>2

LEMMA DocsMean == DocsInv => DocumentWritesAdmitted
<1> SUFFICES ASSUME DocsInv PROVE DocumentWritesAdmitted
  OBVIOUS
<1>1. DocIds = DocCalls /\ docComments \in [DocIds -> Reply] /\ docThreads \in [DocIds -> ThreadRow]
  BY DEF DocsInv, DocsTyped, DocIds
<1>2. DocumentsTypeOK
  BY <1>1 DEF DocumentsTypeOK, DocsInv, DocsTyped, ThreadRow, Reply, DocCall
<1>3. \A i \in DocIds :
        docThreads[i] # NoThread \/ docComments[i] # NoReply \/ (\E d \in Docs : docs[d].by = i) => i \in sawOpen
  BY NoIds DEF DocsInv, ThreadFits, CommentFits
<1>4. ASSUME NEW i \in DocIds, IsComment(i)
      PROVE  /\ docComments[i].thread \in DocIds /\ IsThread(docComments[i].thread)
             /\ docComments[i].parent # 0 => docComments[docComments[i].parent].thread = docComments[i].thread
             /\ docComments[i].anchor \in Anchors =>
                   docThreads[docComments[i].thread].key = threadKeyForAnchor(docComments[i].anchor)
  BY <1>1, <1>4 DEF DocsInv, CommentFits, IsComment, Reply
<1>5. \A i \in DocIds : ~IsComment(i) => docComments[i].parent = 0 /\ docComments[i].anchor \notin Anchors
  BY DEF DocsInv, CommentFits, NoReply, Anchors, NoAnchor
<1>6. \A i \in DocIds : docComments[i].parent # 0 =>
         docComments[docComments[i].parent].thread = docComments[i].thread
  BY <1>4, <1>5
<1>7. \A i \in DocIds : docComments[i].anchor \in Anchors =>
         i \in Discussion(docThreads[docComments[i].thread].doc, TRUE, docComments[i].anchor)
  BY <1>4, <1>5 DEF Discussion
<1>8. ASSUME NEW i \in DocIds, NEW j \in DocIds,
             docComments[i].anchor = docComments[j].anchor, docComments[i].anchor \in Anchors,
             docThreads[docComments[i].thread].doc = docThreads[docComments[j].thread].doc,
             docComments[i].thread # docComments[j].thread
      PROVE  "newthread" \in {docCalls[docComments[i].thread].op, docCalls[docComments[j].thread].op}
  <2>1. PICK t \in DocIds, u \in DocIds : t = docComments[i].thread /\ u = docComments[j].thread
    BY <1>4, <1>5, <1>8
  <2>2. IsThread(t) /\ IsThread(u) /\ docThreads[t].key = docThreads[u].key /\ docThreads[t].doc = docThreads[u].doc /\ t # u
    BY <1>4, <1>5, <1>8, <2>1
  <2>3. docThreads[t].anchor # docThreads[u].anchor
    BY <2>2 DEF DocsInv, ThreadsDiffer
  <2>4. docThreads[t].anchor \in Anchors /\ docThreads[u].anchor \in Anchors
    BY <1>1 DEF ThreadRow
  <2>5. threadKeyForAnchor(docThreads[t].anchor) # threadKeyForAnchor(docThreads[u].anchor)
    BY <2>3, <2>4 DEF threadKeyForAnchor, Anchors, NoAnchor
  <2>6. docCalls[t].op = "newthread" \/ docCalls[u].op = "newthread"
    BY <2>2, <2>5 DEF DocsInv, ThreadFits
  <2> QED
    BY <2>1, <2>6
<1> QED
  BY <1>2, <1>3, <1>6, <1>7, <1>8 DEF DocumentWritesAdmitted

\* Whatever happens to the scope during a call, it leaves a document, a thread or a
\* comment only if the scope was writable at some moment of it; replies stay in the
\* thread of their parent; anchored comments are found under their anchor, and are
\* in one thread unless one with the key of the anchor was created by hand
\* (GetOrCreateThread, documents/internal/store.go:121).
THEOREM DocumentsAdmitted == DocumentsSpec => []DocumentWritesAdmitted
<1>1. DocumentsInit => DocsInv
  BY DocsInitially
<1>2. DocsInv /\ [DocumentsNext]_documentsVars => DocsInv'
  BY DocsStep
<1>3. DocsInv => DocumentWritesAdmitted
  BY DocsMean
<1> QED
  BY <1>1, <1>2, <1>3, PTL DEF DocumentsSpec

-----------------------------------------------------------------------------
(* The collector.  The inductive invariant: what its memory and its file say  *)
(* was sent is with ops, in the spool, or still among its writes.             *)

SentCache == [runs : SUBSET Guests, done : BOOLEAN]

Collection ==
    [pc : {"idle", "replay", "send", "save"}, writes : Seq(CollectWrite), offline : BOOLEAN,
     cache : SentCache]

CollectTyped ==
    /\ coverage \subseteq Guests
    /\ guestJobs \in [Guests -> {"none", "enabled", "disabled"}]
    /\ cspool \in Seq(CollectWrite)
    /\ collector \in Collection
    /\ cached \in SentCache

\* The write is still in the list.
Pending(g, list) == \E i \in 1..Len(list) : list[i] = RunWrite(g)

Reported(g) == g \in runsGiven \/ Pending(g, cspool)

\* The runs of the task are sent together: once one is among the writes or is
\* sent, each is there or reported.
Together(done, list) ==
    done \/ (\E h \in Guests : Pending(h, list)) =>
        \A g \in Guests : Reported(g) \/ Pending(g, list)

Backed(c) ==
    /\ \A g \in c.cache.runs : Reported(g)
    /\ Together(c.cache.done, c.writes)
    /\ c.pc = "save" => c.writes = << >>

CollectInv ==
    /\ CollectTyped
    /\ \A g \in cached.runs : Reported(g)
    /\ cached.done => \A g \in Guests : Reported(g)
    /\ Backed(collector)

-----------------------------------------------------------------------------
(* Guests in order                                                           *)

\* Every member of a finite set of numbers has a place of its own, and so the
\* places in order name all members and nothing else.
LEMMA Ordered ==
    ASSUME NEW S \in SUBSET Guests
    PROVE  /\ InOrder(S) \in Seq(S)
           /\ \A x \in S : \E i \in 1..Len(InOrder(S)) : InOrder(S)[i] = x
<1> DEFINE n == Cardinality(S)
           upto(x) == {y \in S : y <= x}
<1>1. IsFiniteSet(S) /\ n \in Nat /\ S \in SUBSET Int
  BY CollectAssumption, FS_Subset, FS_CardinalityType
<1>2. ASSUME NEW x \in S PROVE /\ IsFiniteSet(upto(x)) /\ Position(x, S) = Cardinality(upto(x))
                               /\ Position(x, S) \in 1..n
  <2>1. IsFiniteSet(upto(x)) /\ Cardinality(upto(x)) <= n
    BY <1>1, FS_Subset
  <2>2. x \in upto(x)
    BY <1>1
  <2>3. Cardinality(upto(x)) \in Nat /\ Cardinality(upto(x)) # 0
    BY <2>1, <2>2, FS_CardinalityType, FS_EmptySet
  <2> QED
    BY <1>1, <2>1, <2>3 DEF Position
<1>3. ASSUME NEW x \in S, NEW z \in S, Position(x, S) = Position(z, S) PROVE x = z
  <2>1. ASSUME NEW a \in S, NEW b \in S, a < b PROVE Position(a, S) # Position(b, S)
    <3>0. a \in Int /\ b \in Int /\ \A y \in S : y \in Int
      BY <1>1
    <3>1. upto(a) \in SUBSET upto(b)
      <4> SUFFICES ASSUME NEW y \in S, y <= a PROVE y <= b
        OBVIOUS
      <4>1. y \in Int
        BY <3>0
      <4> QED
        BY <2>1, <3>0, <4>1
    <3>2. b \in upto(b) /\ b \notin upto(a)
      BY <2>1, <3>0
    <3>3. Cardinality(upto(a)) # Cardinality(upto(b))
      BY <1>2, <3>1, <3>2, FS_Subset
    <3> QED
      BY <1>2, <3>3
  <2> QED
    BY <1>1, <1>3, <2>1
<1> DEFINE place == [x \in S |-> Position(x, S)]
<1>4. place \in Injection(S, 1..n)
  BY <1>2, <1>3 DEF Injection, IsInjective
<1>5. IsFiniteSet(1..n) /\ Cardinality(1..n) = n
  BY <1>1, FS_Interval
<1>6. place \in Surjection(S, 1..n)
  BY <1>4, <1>5, FS_Injection
<1>7. ASSUME NEW i \in 1..n PROVE InOrder(S)[i] \in S /\ Position(InOrder(S)[i], S) = i
  <2>1. \E x \in S : Position(x, S) = i
    BY <1>6 DEF Surjection
  <2>2. InOrder(S)[i] = CHOOSE x \in S : Position(x, S) = i
    BY DEF InOrder
  <2> QED
    BY <2>1, <2>2
<1>8. InOrder(S) \in Seq(S) /\ Len(InOrder(S)) = n
  <2>1. InOrder(S) = [i \in 1..n |-> InOrder(S)[i]]
    BY DEF InOrder
  <2> QED
    BY <1>1, <1>7, <2>1
<1>9. ASSUME NEW x \in S PROVE \E i \in 1..Len(InOrder(S)) : InOrder(S)[i] = x
  BY <1>2, <1>3, <1>7, <1>8
<1> QED
  BY <1>8, <1>9

\* What is in two lists put together.
LEMMA Joined ==
    ASSUME NEW a \in Seq(CollectWrite), NEW b \in Seq(CollectWrite)
    PROVE  /\ a \o b \in Seq(CollectWrite)
           /\ \A g : Pending(g, a \o b) <=> Pending(g, a) \/ Pending(g, b)
<1> DEFINE w == a \o b
<1>1. /\ w \in Seq(CollectWrite) /\ Len(w) = Len(a) + Len(b) /\ Len(a) \in Nat /\ Len(b) \in Nat
      /\ \A i \in 1..(Len(a) + Len(b)) : w[i] = IF i <= Len(a) THEN a[i] ELSE b[i - Len(a)]
  <2>1. Len(a) \in Nat /\ Len(b) \in Nat
    OBVIOUS
  <2> QED
    BY <2>1, ConcatProperties
<1> HIDE DEF w
<1>2. ASSUME NEW i \in 1..Len(w)
      PROVE  (\E j \in 1..Len(a) : a[j] = w[i]) \/ (\E j \in 1..Len(b) : b[j] = w[i])
  <2>1. CASE i <= Len(a)
    BY <1>1, <2>1
  <2>2. CASE ~(i <= Len(a))
    <3>1. i - Len(a) \in 1..Len(b) /\ b[i - Len(a)] = w[i]
      BY <1>1, <2>2
    <3> QED
      BY <3>1
  <2> QED
    BY <2>1, <2>2
<1>3. ASSUME NEW j \in 1..Len(a) PROVE j \in 1..Len(w) /\ w[j] = a[j]
  BY <1>1
<1>4. ASSUME NEW j \in 1..Len(b) PROVE Len(a) + j \in 1..Len(w) /\ w[Len(a) + j] = b[j]
  <2>1. Len(a) + j \in 1..(Len(a) + Len(b)) /\ ~(Len(a) + j <= Len(a)) /\ Len(a) + j - Len(a) = j
    BY <1>1
  <2> QED
    BY <1>1, <2>1
<1>5. \A g : Pending(g, w) <=> Pending(g, a) \/ Pending(g, b)
  BY <1>2, <1>3, <1>4 DEF Pending
<1> QED
  BY <1>1, <1>5 DEF w

\* A list of writes for a list of guests.
LEMMA Written ==
    ASSUME NEW s \in Seq(Guests)
    PROVE  LET runs == [i \in DOMAIN s |-> RunWrite(s[i])] IN
           /\ runs \in Seq(CollectWrite) /\ Len(runs) = Len(s)
           /\ \A i \in 1..Len(runs) : runs[i] = RunWrite(s[i])
           /\ \A e \in BOOLEAN : LET jobs == [i \in DOMAIN s |-> JobWrite(s[i], e)] IN
                 /\ jobs \in Seq(CollectWrite) /\ Len(jobs) = Len(s)
                 /\ \A i \in 1..Len(jobs) : jobs[i].kind = "job"
<1>1. DOMAIN s = 1..Len(s) /\ Len(s) \in Nat /\ \A i \in 1..Len(s) : s[i] \in Guests
  OBVIOUS
<1>2. /\ \A g \in Guests, e \in BOOLEAN : JobWrite(g, e) \in CollectWrite
      /\ \A g \in Guests : RunWrite(g) \in CollectWrite
  BY DEF CollectWrite
<1>3. \A g, e : JobWrite(g, e).kind = "job"
  BY DEF JobWrite
<1>4. [i \in DOMAIN s |-> RunWrite(s[i])] \in Seq(CollectWrite)
  BY <1>1, <1>2
<1>5. ASSUME NEW e \in BOOLEAN
      PROVE  LET jobs == [i \in DOMAIN s |-> JobWrite(s[i], e)] IN
             /\ jobs \in Seq(CollectWrite) /\ Len(jobs) = Len(s)
             /\ \A i \in 1..Len(jobs) : jobs[i].kind = "job"
  BY <1>1, <1>2, <1>3
<1> QED
  BY <1>1, <1>4, <1>5

\* What a collection writes is typed, and has either no run or every run.
LEMMA EvidenceWhole ==
    ASSUME NEW asked \in BOOLEAN, coverage \subseteq Guests
    PROVE  /\ collectOpsEvidence(asked) \in Seq(CollectWrite)
           /\ \/ \A g \in Guests : ~Pending(g, collectOpsEvidence(asked))
              \/ \A g \in Guests : Pending(g, collectOpsEvidence(asked))
<1> DEFINE on == planProxmoxCoverage
           off == retireProxmoxJobs(asked)
           ran == parseVzdumpTask
           a == [i \in DOMAIN on |-> JobWrite(on[i], TRUE)]
           b == [i \in DOMAIN off |-> JobWrite(off[i], FALSE)]
           c == [i \in DOMAIN ran |-> RunWrite(ran[i])]
<1>1. on \in Seq(Guests) /\ off \in Seq(Guests)
  <2>1. on \in Seq(coverage)
    BY Ordered DEF planProxmoxCoverage
  <2> DEFINE R == {g \in Guests : asked /\ guestJobs[g] = "enabled" /\ g \notin coverage}
  <2>2. R \in SUBSET Guests
    OBVIOUS
  <2>3. off = InOrder(R)
    BY DEF retireProxmoxJobs
  <2> HIDE DEF R
  <2>4. off \in Seq(R)
    BY <2>2, <2>3, Ordered
  <2> QED
    BY <2>1, <2>2, <2>4
<1>2. /\ ran \in Seq(Guests)
      /\ ran # << >> => \A g \in Guests : \E i \in 1..Len(ran) : ran[i] = g
  BY Ordered DEF parseVzdumpTask
<1>3. collectOpsEvidence(asked) = (a \o b) \o c
  BY DEF collectOpsEvidence
<1> HIDE DEF on, off, ran
<1>5. /\ a \in Seq(CollectWrite) /\ Len(a) = Len(on)
      /\ b \in Seq(CollectWrite) /\ Len(b) = Len(off)
      /\ c \in Seq(CollectWrite) /\ Len(c) = Len(ran)
  BY <1>1, <1>2, Written
<1>6. /\ \A i \in 1..Len(a) : a[i].kind = "job"
      /\ \A i \in 1..Len(b) : b[i].kind = "job"
      /\ \A i \in 1..Len(c) : c[i] = RunWrite(ran[i])
      /\ \A g \in Guests : RunWrite(g).kind # "job"
  BY <1>1, <1>2, Written DEF RunWrite
<1> HIDE DEF a, b, c
<1> DEFINE v == a \o b
           w == v \o c
<1>4. /\ v \in Seq(CollectWrite)
      /\ \A g : Pending(g, v) <=> Pending(g, a) \/ Pending(g, b)
  BY <1>5, Joined
<1> HIDE DEF v
<1>7. /\ w \in Seq(CollectWrite)
      /\ \A g : Pending(g, w) <=> Pending(g, v) \/ Pending(g, c)
  BY <1>4, <1>5, Joined
<1> HIDE DEF w
<1>8. \A g \in Guests : ~Pending(g, a) /\ ~Pending(g, b)
  BY <1>6 DEF Pending
<1>9. CASE ran = << >>
  <2>1. \A g : ~Pending(g, c)
    BY <1>5, <1>9 DEF Pending
  <2> QED
    BY <1>3, <1>4, <1>7, <1>8, <2>1 DEF v, w
<1>10. CASE ran # << >>
  <2>1. \A g \in Guests : Pending(g, c)
    BY <1>2, <1>5, <1>6, <1>10 DEF Pending
  <2> QED
    BY <1>3, <1>4, <1>7, <2>1 DEF v, w
<1> QED
  BY <1>9, <1>10

-----------------------------------------------------------------------------
(* Writes                                                                    *)

LEMMA WriteIs ==
    ASSUME NEW w \in CollectWrite
    PROVE  /\ w.guest \in Guests
           /\ \A g : w = RunWrite(g) <=> w.kind = "run" /\ w.guest = g
BY DEF CollectWrite, JobWrite, RunWrite

LEMMA Remaining ==
    ASSUME NEW list \in Seq(CollectWrite), list # << >>
    PROVE  /\ Head(list) \in CollectWrite /\ Tail(list) \in Seq(CollectWrite)
           /\ \A g : Pending(g, list) <=> Head(list) = RunWrite(g) \/ Pending(g, Tail(list))
<1>1. /\ Head(list) \in CollectWrite /\ Tail(list) \in Seq(CollectWrite)
      /\ Len(Tail(list)) = Len(list) - 1 /\ Len(list) \in Nat
      /\ \A i \in 1..Len(Tail(list)) : Tail(list)[i] = list[i + 1]
  BY HeadTailProperties
<1>2. Len(list) > 0 /\ list[1] = Head(list)
  OBVIOUS
<1>3. ASSUME NEW i \in 1..Len(list), i # 1
      PROVE  i - 1 \in 1..Len(Tail(list)) /\ Tail(list)[i - 1] = list[i]
  BY <1>1, <1>3
<1>4. ASSUME NEW i \in 1..Len(Tail(list)) PROVE i + 1 \in 1..Len(list) /\ list[i + 1] = Tail(list)[i]
  BY <1>1
<1>5. \A g : Pending(g, list) => Head(list) = RunWrite(g) \/ Pending(g, Tail(list))
  BY <1>2, <1>3 DEF Pending
<1>6. \A g : Head(list) = RunWrite(g) \/ Pending(g, Tail(list)) => Pending(g, list)
  <2>1. 1 \in 1..Len(list)
    BY <1>1, <1>2
  <2> QED
    BY <1>2, <1>4, <2>1 DEF Pending
<1> QED
  BY <1>1, <1>5, <1>6

LEMMA Appended ==
    ASSUME NEW list \in Seq(CollectWrite), NEW w \in CollectWrite
    PROVE  /\ Append(list, w) \in Seq(CollectWrite)
           /\ \A g : Pending(g, list) \/ w = RunWrite(g) => Pending(g, Append(list, w))
<1>1. /\ Append(list, w) \in Seq(CollectWrite) /\ Len(Append(list, w)) = Len(list) + 1
      /\ \A i \in 1..Len(list) : Append(list, w)[i] = list[i]
      /\ Append(list, w)[Len(list) + 1] = w
      /\ Len(list) \in Nat
  BY AppendProperties
<1>2. /\ \A i \in 1..Len(list) : i \in 1..Len(Append(list, w))
      /\ Len(list) + 1 \in 1..Len(Append(list, w))
  BY <1>1
<1> QED
  BY <1>1, <1>2 DEF Pending

LEMMA StoredGiven ==
    ASSUME CollectTyped, NEW w \in CollectWrite, Stored(w)
    PROVE  /\ guestJobs' \in [Guests -> {"none", "enabled", "disabled"}]
           /\ runsGiven \subseteq runsGiven'
           /\ w.kind = "run" => w.guest \in runsGiven'
<1>1. w.guest \in Guests
  BY WriteIs
<1>2. PICK state \in {"enabled", "disabled"} : state = IF w.enabled THEN "enabled" ELSE "disabled"
  OBVIOUS
<1> QED
  BY <1>1, <1>2 DEF Stored, CollectTyped

-----------------------------------------------------------------------------
(* Collections                                                               *)

\* Nothing that was reported is lost.
Kept == \A g \in Guests : Reported(g) => Reported(g)'

LEMMA CollectorKeeps ==
    ASSUME CollectInv, Kept, UNCHANGED cached,
           coverage' \subseteq Guests, guestJobs' \in [Guests -> {"none", "enabled", "disabled"}],
           cspool' \in Seq(CollectWrite),
           NEW d \in Collection, collector' = d, Backed(d)'
    PROVE  CollectInv'
<1>1. CollectTyped'
  BY DEF CollectInv, CollectTyped
<1>2. Backed(collector)'
  OBVIOUS
<1>3. cached \in SentCache /\ cached' = cached
  BY DEF CollectInv, CollectTyped
<1>4. \A g \in cached'.runs : Reported(g)'
  BY <1>3 DEF CollectInv, Kept, SentCache
<1>5. cached'.done => \A g \in Guests : Reported(g)'
  BY <1>3 DEF CollectInv, Kept
<1> QED
  BY <1>1, <1>2, <1>4, <1>5 DEF CollectInv

\* A collection that goes on with the writes and the memory it has.
LEMMA GoesOn ==
    ASSUME CollectInv, Kept, NEW d \in Collection,
           d.writes = collector.writes, d.cache = collector.cache,
           d.pc = "save" => d.writes = << >>
    PROVE  Backed(d)'
<1>1. collector.cache \in SentCache
  BY DEF CollectInv, CollectTyped, Collection
<1>2. \A g \in d.cache.runs : Reported(g)'
  BY <1>1 DEF CollectInv, Backed, Kept, SentCache
<1>3. Together(d.cache.done, d.writes)'
  BY DEF CollectInv, Backed, Together, Kept
<1> QED
  BY <1>2, <1>3 DEF Backed

LEMMA Ended ==
    /\ NoCollection \in Collection /\ NoCollection.pc = "idle"
    /\ Backed(NoCollection) /\ Backed(NoCollection)'
<1>1. << >> \in Seq(CollectWrite) /\ NoCache \in SentCache /\ NoCache.runs = {} /\ NoCache.done = FALSE
  BY DEF NoCache, SentCache
<1>2. /\ NoCollection \in Collection /\ NoCollection.pc = "idle" /\ NoCollection.writes = << >>
      /\ NoCollection.cache = NoCache
  BY <1>1 DEF NoCollection, Collection
<1>3. \A g : ~Pending(g, << >>)
  BY DEF Pending
<1> HIDE DEF NoCollection, NoCache
<1>4. Together(NoCollection.cache.done, NoCollection.writes) /\ Together(NoCollection.cache.done, NoCollection.writes)'
  BY <1>1, <1>2, <1>3 DEF Together
<1> QED
  BY <1>1, <1>2, <1>4 DEF Backed

\* The first write is done with, and if it is a run it is reported.
LEMMA Consumed ==
    ASSUME CollectInv, Kept, collector.pc = "send", collector.writes # << >>,
           NEW w, w = Head(collector.writes), w.kind = "run" => Reported(w.guest)',
           NEW d, d = Recorded(w) \/ d = Skipped
    PROVE  d \in Collection /\ Backed(d)'
<1>1. PICK c \in Collection : c = collector
  BY DEF CollectInv, CollectTyped
<1> DEFINE rest == Tail(c.writes)
<1>2. c.writes \in Seq(CollectWrite) /\ c.cache \in SentCache /\ c.cache.runs \in SUBSET Guests
  BY DEF Collection, SentCache
<1>3. /\ w \in CollectWrite /\ rest \in Seq(CollectWrite)
      /\ \A g : Pending(g, c.writes) <=> w = RunWrite(g) \/ Pending(g, rest)
  BY <1>1, <1>2, Remaining
<1>4. /\ w.guest \in Guests
      /\ \A g : w = RunWrite(g) <=> w.kind = "run" /\ w.guest = g
  BY <1>3, WriteIs
<1>5. \A g \in c.cache.runs : Reported(g)'
  BY <1>1, <1>2 DEF CollectInv, Backed, Kept
<1>6. (c.cache.done \/ \E h \in Guests : Pending(h, c.writes)) =>
          \A g \in Guests : Reported(g)' \/ Pending(g, rest)
  <2> SUFFICES ASSUME c.cache.done \/ \E h \in Guests : Pending(h, c.writes), NEW g \in Guests
               PROVE  Reported(g)' \/ Pending(g, rest)
    OBVIOUS
  <2>1. Reported(g) \/ Pending(g, c.writes)
    BY <1>1 DEF CollectInv, Backed, Together
  <2> QED
    BY <1>3, <1>4, <2>1 DEF Kept
<1>7. (\E h \in Guests : Pending(h, rest)) => \E h \in Guests : Pending(h, c.writes)
  BY <1>3
<1>8. PICK cache \in SentCache :
          /\ cache = c.cache \/ (w.kind = "run" /\ cache.runs = c.cache.runs \cup {w.guest})
          /\ d = [c EXCEPT !.writes = rest, !.cache = cache]
  <2>1. CASE d = Skipped
    <3>1. d = [c EXCEPT !.writes = rest, !.cache = c.cache]
      BY <1>1, <2>1 DEF Skipped, Collection
    <3> QED
      BY <1>2, <3>1
  <2>2. CASE d = Recorded(w) /\ w.kind # "run"
    <3>1. d = [c EXCEPT !.writes = rest, !.cache = c.cache]
      BY <1>1, <2>2 DEF Recorded
    <3> QED
      BY <1>2, <3>1
  <2>3. CASE d = Recorded(w) /\ w.kind = "run"
    <3>1. PICK cache \in SentCache : cache = [runs |-> c.cache.runs \cup {w.guest}, done |-> TRUE]
      BY <1>2, <1>4 DEF SentCache
    <3>2. cache.runs = c.cache.runs \cup {w.guest}
      BY <3>1
    <3>3. d = [c EXCEPT !.writes = rest, !.cache = cache]
      BY <1>1, <2>3, <3>1 DEF Recorded
    <3> QED
      BY <2>3, <3>2, <3>3
  <2> QED
    BY <2>1, <2>2, <2>3
<1>9. d \in Collection /\ d.pc = "send" /\ d.writes = rest /\ d.cache = cache
  <2>1. c.pc = "send"
    BY <1>1
  <2> QED
    BY <1>3, <1>8, <2>1 DEF Collection
<1>10. Together(cache.done, rest)'
  <2>1. w.kind = "run" => \E h \in Guests : Pending(h, c.writes)
    BY <1>3, <1>4
  <2> QED
    BY <1>6, <1>7, <1>8, <2>1 DEF Together
<1>11. \A g \in cache.runs : Reported(g)'
  BY <1>5, <1>8
<1> QED
  BY <1>9, <1>10, <1>11 DEF Backed

LEMMA SpoolSent ==
    ASSUME CollectInv, cspool # << >>, Stored(Head(cspool)), cspool' = Tail(cspool)
    PROVE  /\ Kept /\ cspool' \in Seq(CollectWrite)
           /\ guestJobs' \in [Guests -> {"none", "enabled", "disabled"}]
<1> DEFINE w == Head(cspool)
<1>1. /\ w \in CollectWrite /\ Tail(cspool) \in Seq(CollectWrite)
      /\ \A g : Pending(g, cspool) <=> w = RunWrite(g) \/ Pending(g, Tail(cspool))
  BY Remaining DEF CollectInv, CollectTyped
<1>2. /\ guestJobs' \in [Guests -> {"none", "enabled", "disabled"}]
      /\ runsGiven \subseteq runsGiven'
      /\ w.kind = "run" => w.guest \in runsGiven'
  BY <1>1, StoredGiven DEF CollectInv
<1>3. \A g : w = RunWrite(g) <=> w.kind = "run" /\ w.guest = g
  BY <1>1, WriteIs
<1> HIDE DEF w
<1>4. Kept
  BY <1>1, <1>2, <1>3 DEF Kept, Reported
<1> QED
  BY <1>1, <1>2, <1>4

LEMMA GivenKept ==
    ASSUME runsGiven \subseteq runsGiven', cspool' = cspool
    PROVE  Kept
BY DEF Kept, Reported

-----------------------------------------------------------------------------
(* The steps                                                                 *)

LEMMA WorldKeeps ==
    ASSUME CollectInv, TaskEnds \/ LedgerReplaced \/ (\E g \in Guests : CoverageChanges(g))
    PROVE  CollectInv'
<1>1. /\ UNCHANGED <<cspool, cached, collector, runsGiven>>
      /\ coverage' \subseteq Guests
      /\ guestJobs' \in [Guests -> {"none", "enabled", "disabled"}]
  BY DEF CollectInv, CollectTyped, TaskEnds, LedgerReplaced, CoverageChanges, worldVars
<1>2. Kept
  BY <1>1, GivenKept
<1>3. PICK d \in Collection : d = collector
  BY DEF CollectInv, CollectTyped
<1>4. Backed(d)'
  BY <1>2, <1>3, GoesOn DEF CollectInv, Backed
<1> QED
  BY <1>1, <1>2, <1>3, <1>4, CollectorKeeps DEF CollectInv, CollectTyped

LEMMA StopKeeps ==
    ASSUME CollectInv, CollectorStops
    PROVE  CollectInv'
<1>1. /\ UNCHANGED <<coverage, guestJobs, cspool, cached, runsGiven>> /\ collector' = NoCollection
  BY DEF CollectorStops, CollectorIs, worldVars
<1>2. Kept
  BY <1>1, GivenKept
<1> QED
  BY <1>1, <1>2, Ended, CollectorKeeps DEF CollectInv, CollectTyped

LEMMA SaveKeeps ==
    ASSUME CollectInv, SaveCache
    PROVE  CollectInv'
<1>1. /\ UNCHANGED <<coverage, guestJobs, cspool, runsGiven>> /\ collector' = NoCollection
      /\ cached' = collector.cache /\ collector.pc = "save"
  BY DEF SaveCache, CollectorIs, worldVars
<1>2. PICK cache \in SentCache : cache = collector.cache
  BY DEF CollectInv, CollectTyped, Collection
<1>3. \A g : Reported(g) <=> Reported(g)'
  BY <1>1 DEF Reported
<1>4. \A g \in cache.runs : Reported(g)'
  BY <1>2, <1>3 DEF CollectInv, Backed
<1>5. cache.done => \A g \in Guests : Reported(g)'
  <2>1. \A g : ~Pending(g, collector.writes)
    BY <1>1 DEF CollectInv, Backed, Pending
  <2> QED
    BY <1>2, <1>3, <2>1 DEF CollectInv, Backed, Together
<1>6. CollectTyped'
  BY <1>1, <1>2, Ended DEF CollectInv, CollectTyped
<1>7. Backed(collector)'
  BY <1>1, Ended
<1> QED
  BY <1>1, <1>2, <1>4, <1>5, <1>6, <1>7 DEF CollectInv

LEMMA CollectKeeps ==
    ASSUME CollectInv, NEW complete \in BOOLEAN, NEW asked \in BOOLEAN, collectProxmox(complete, asked)
    PROVE  CollectInv'
<1>1. UNCHANGED <<coverage, guestJobs, cspool, cached, runsGiven>>
  BY DEF collectProxmox, worldVars
<1>2. PICK list \in Seq(CollectWrite) :
          /\ list = IF complete THEN collectOpsEvidence(asked) ELSE << >>
          /\ (\A g \in Guests : ~Pending(g, list)) \/ (\A g \in Guests : Pending(g, list))
  <2>1. \A g : ~Pending(g, << >>)
    BY DEF Pending
  <2>2. coverage \subseteq Guests
    BY DEF CollectInv, CollectTyped
  <2>3. CASE complete
    BY <2>2, <2>3, EvidenceWhole
  <2>4. CASE ~complete
    <3>1. << >> \in Seq(CollectWrite)
      OBVIOUS
    <3> QED
      BY <2>1, <2>4, <3>1
  <2> QED
    BY <2>3, <2>4
<1>3. PICK cache \in SentCache : cache = cached
  BY DEF CollectInv, CollectTyped
<1> DEFINE d == [pc |-> "replay", offline |-> FALSE, cache |-> cache, writes |-> list]
<1>4. collector' = d
  BY <1>2, <1>3 DEF collectProxmox, CollectorIs
<1>5. d \in Collection /\ d.pc = "replay" /\ d.cache = cache /\ d.writes = list
  BY <1>2, <1>3 DEF Collection
<1> HIDE DEF d
<1>6. Kept /\ \A g : Reported(g) => Reported(g)'
  BY <1>1 DEF Kept, Reported
<1>7. \A g \in cache.runs : Reported(g)'
  BY <1>3, <1>6 DEF CollectInv
<1>8. Together(cache.done, list)'
  BY <1>2, <1>3, <1>6 DEF CollectInv, Together
<1>9. Backed(d)'
  BY <1>5, <1>7, <1>8 DEF Backed
<1> QED
  BY <1>1, <1>4, <1>5, <1>6, <1>9, CollectorKeeps DEF CollectInv, CollectTyped

LEMMA ReplayKeeps ==
    ASSUME CollectInv, ReplayEntry \/ ReplayDone \/ Sent
    PROVE  CollectInv'
<1>1. PICK c \in Collection : c = collector
  BY DEF CollectInv, CollectTyped
<1>2. CASE ReplayEntry /\ Stored(Head(cspool)) /\ cspool' = Tail(cspool) /\ collector' = c
  <2>1. Kept /\ cspool' \in Seq(CollectWrite) /\ guestJobs' \in [Guests -> {"none", "enabled", "disabled"}]
    BY <1>2, SpoolSent DEF ReplayEntry
  <2>2. UNCHANGED <<coverage, cached>>
    BY <1>2 DEF ReplayEntry, worldVars
  <2>3. Backed(c)'
    BY <1>1, <2>1, GoesOn DEF CollectInv, Backed
  <2> QED
    BY <1>2, <2>1, <2>2, <2>3, CollectorKeeps DEF CollectInv, CollectTyped
<1>3. CASE /\ UNCHANGED <<coverage, guestJobs, cspool, cached, runsGiven>>
           /\ \/ collector' = [c EXCEPT !.pc = "send", !.offline = TRUE]
              \/ collector' = [c EXCEPT !.pc = "send"]
              \/ collector' = [c EXCEPT !.pc = "save"] /\ c.writes = << >>
  <2>1. PICK d \in Collection : /\ collector' = d /\ d.writes = c.writes /\ d.cache = c.cache
                                /\ d.pc = "save" => d.writes = << >>
    BY <1>3 DEF Collection
  <2>2. Kept
    BY <1>3, GivenKept
  <2>3. Backed(d)'
    BY <1>1, <2>1, <2>2, GoesOn
  <2> QED
    BY <1>3, <2>1, <2>2, <2>3, CollectorKeeps DEF CollectInv, CollectTyped
<1> QED
  BY <1>1, <1>2, <1>3 DEF ReplayEntry, ReplayDone, Sent, CollectorIs, NotStored, worldVars

\* Each way to be done with the first write, or to give up being online.
LEMMA SendKeeps ==
    ASSUME CollectInv, SendUnchanged \/ SendDelivered \/ SendRefused \/ SendUnanswered \/ SpoolAdd
    PROVE  CollectInv'
<1>0. collector.pc = "send" /\ collector.writes # << >> /\ UNCHANGED <<coverage, cached>>
  BY DEF SendUnchanged, SendDelivered, SendRefused, SendUnanswered, SpoolAdd, Sending, worldVars
<1>2. PICK w \in CollectWrite : w = Next1
  BY <1>0, Remaining DEF CollectInv, CollectTyped, Collection, Next1
<1>1. /\ collector.pc = "send" /\ collector.writes # << >> /\ w = Head(collector.writes)
      /\ UNCHANGED <<coverage, cached>>
  BY <1>0, <1>2 DEF Next1
<1>3. w.guest \in Guests /\ \A g : w = RunWrite(g) <=> w.kind = "run" /\ w.guest = g
  BY <1>2, WriteIs
<1>4. CASE SendUnchanged
  <2>1. /\ UNCHANGED <<guestJobs, cspool, runsGiven>> /\ collector' = Recorded(w)
        /\ w.guest \in collector.cache.runs
    BY <1>2, <1>4 DEF SendUnchanged, CollectorIs, unchanged
  <2>2. Kept
    BY <2>1, GivenKept
  <2>3. Reported(w.guest)'
    BY <1>3, <2>1, <2>2 DEF CollectInv, Backed, Kept
  <2>4. PICK d : d = Recorded(w)
    OBVIOUS
  <2>5. d \in Collection /\ Backed(d)'
    BY <1>1, <2>2, <2>3, <2>4, Consumed
  <2> QED
    BY <1>1, <2>1, <2>2, <2>4, <2>5, CollectorKeeps DEF CollectInv, CollectTyped
<1>5. CASE SendDelivered
  <2>1. Stored(w) /\ cspool' = cspool /\ collector' = Recorded(w)
    BY <1>2, <1>5 DEF SendDelivered, CollectorIs
  <2>2. /\ guestJobs' \in [Guests -> {"none", "enabled", "disabled"}]
        /\ runsGiven \subseteq runsGiven' /\ (w.kind = "run" => w.guest \in runsGiven')
    BY <1>2, <2>1, StoredGiven DEF CollectInv
  <2>3. Kept
    BY <2>1, <2>2, GivenKept
  <2>4. w.kind = "run" => Reported(w.guest)'
    BY <2>2 DEF Reported
  <2>5. PICK d : d = Recorded(w)
    OBVIOUS
  <2>6. d \in Collection /\ Backed(d)'
    BY <1>1, <2>3, <2>4, <2>5, Consumed
  <2> QED
    BY <1>1, <2>1, <2>2, <2>3, <2>5, <2>6, CollectorKeeps DEF CollectInv, CollectTyped
<1>6. CASE /\ UNCHANGED <<guestJobs, cspool>> /\ collector' = Skipped
           /\ runsGiven' = IF w.kind = "run" THEN runsGiven \cup {w.guest} ELSE runsGiven
  <2>1. Kept /\ (w.kind = "run" => Reported(w.guest)')
    BY <1>6, GivenKept DEF Reported
  <2>2. PICK d : d = Skipped
    OBVIOUS
  <2>3. d \in Collection /\ Backed(d)'
    BY <1>1, <2>1, <2>2, Consumed
  <2> QED
    BY <1>1, <1>6, <2>1, <2>2, <2>3, CollectorKeeps DEF CollectInv, CollectTyped
<1>7. CASE SendUnanswered
  <2>1. Stored(w) \/ NotStored
    BY <1>2, <1>7 DEF SendUnanswered
  <2>2. PICK c \in Collection : c = collector
    BY DEF CollectInv, CollectTyped
  <2>3. cspool' = cspool /\ collector' = [c EXCEPT !.offline = TRUE]
    BY <1>7, <2>2 DEF SendUnanswered, CollectorIs
  <2>4. guestJobs' \in [Guests -> {"none", "enabled", "disabled"}] /\ runsGiven \subseteq runsGiven'
    BY <1>2, <2>1, StoredGiven DEF CollectInv, CollectTyped, NotStored
  <2>5. Kept
    BY <2>3, <2>4, GivenKept
  <2>6. PICK d \in Collection : /\ collector' = d /\ d.writes = c.writes /\ d.cache = c.cache /\ d.pc = c.pc
    <3> DEFINE e == [c EXCEPT !.offline = TRUE]
    <3>1. e \in Collection /\ e.writes = c.writes /\ e.cache = c.cache /\ e.pc = c.pc
      BY DEF Collection
    <3> QED
      BY <2>3, <3>1
  <2>7. Backed(d)'
    BY <1>1, <2>2, <2>5, <2>6, GoesOn
  <2> QED
    BY <1>1, <2>3, <2>4, <2>5, <2>6, <2>7, CollectorKeeps DEF CollectInv, CollectTyped
<1>8. CASE cspool' = Append(cspool, w) /\ collector' = Recorded(w) /\ UNCHANGED <<guestJobs, runsGiven>>
  <2>1. /\ cspool' \in Seq(CollectWrite)
        /\ \A g : Pending(g, cspool) \/ w = RunWrite(g) => Pending(g, cspool')
    BY <1>2, <1>8, Appended DEF CollectInv, CollectTyped
  <2>2. Kept /\ (w.kind = "run" => Reported(w.guest)')
    BY <1>3, <1>8, <2>1 DEF Kept, Reported
  <2>3. PICK d : d = Recorded(w)
    OBVIOUS
  <2>4. d \in Collection /\ Backed(d)'
    BY <1>1, <2>2, <2>3, Consumed
  <2> QED
    BY <1>1, <1>8, <2>1, <2>2, <2>3, <2>4, CollectorKeeps DEF CollectInv, CollectTyped
<1>9. CASE SendRefused
  BY <1>2, <1>6, <1>9 DEF SendRefused, CollectorIs
<1>10. CASE SpoolAdd
  BY <1>2, <1>6, <1>8, <1>10 DEF SpoolAdd, CollectorIs
<1> QED
  BY <1>4, <1>5, <1>7, <1>9, <1>10

\* What the cache file says was sent is with ops or in the spool, wherever the
\* collector stopped, apart from runs that ops refused or the disk did not
\* take (deliverOpsWrites, cmd/den-tool/ops_collect.go).
THEOREM CacheCorrect == CollectSpec => []CachedIsSent
<1>1. CollectInit => CollectInv
  <2> SUFFICES ASSUME CollectInit PROVE CollectInv
    OBVIOUS
  <2>1. /\ coverage \subseteq Guests /\ guestJobs = [g \in Guests |-> "none"] /\ cspool = << >>
        /\ cached = NoCache /\ collector = NoCollection
    BY DEF CollectInit
  <2>2. NoCache \in SentCache /\ NoCache.runs = {} /\ NoCache.done = FALSE /\ << >> \in Seq(CollectWrite)
    BY DEF NoCache, SentCache
  <2>3. CollectTyped
    BY <2>1, <2>2, Ended DEF CollectTyped
  <2> QED
    BY <2>1, <2>2, <2>3, Ended DEF CollectInv
<1>2. CollectInv /\ [CollectNext]_collectVars => CollectInv'
  <2> SUFFICES ASSUME CollectInv, [CollectNext]_collectVars PROVE CollectInv'
    OBVIOUS
  <2>1. CASE UNCHANGED collectVars
    <3>1. UNCHANGED <<coverage, guestJobs, cspool, cached, collector, runsGiven>>
      BY <2>1 DEF collectVars
    <3>2. CollectTyped'
      BY <3>1 DEF CollectInv, CollectTyped
    <3>3. \A g : Reported(g) <=> Reported(g)'
      BY <3>1 DEF Reported
    <3>4. Backed(collector)'
      BY <3>1, <3>3 DEF CollectInv, Backed, Together
    <3> QED
      BY <3>1, <3>2, <3>3, <3>4 DEF CollectInv
  <2>2. CASE CollectNext
    BY <2>2, WorldKeeps, StopKeeps, SaveKeeps, CollectKeeps, ReplayKeeps, SendKeeps DEF CollectNext, Collect
  <2> QED
    BY <2>1, <2>2
<1>3. CollectInv => CachedIsSent
  <2> SUFFICES ASSUME CollectInv PROVE CachedIsSent
    OBVIOUS
  <2>1. \A g : Reported(g) => g \in runsGiven \/ Spooled(g)
    BY DEF Reported, Pending, Spooled, CollectInv, CollectTyped
  <2>2. CollectTypeOK
    BY DEF CollectInv, CollectTyped, CollectTypeOK, Collection
  <2> QED
    BY <2>1, <2>2 DEF CollectInv, CachedIsSent
<1> QED
  BY <1>1, <1>2, <1>3, PTL DEF CollectSpec

-----------------------------------------------------------------------------
(* Posts and comments of the Board                                           *)

BoardStatuses == {"none", "active", "deleted"}
CallPhases == {"idle", "key", "post", "parent", "insert", "done", "failed"}

CommentRecord == [post : EntryIds \cup {0}, parent : EntryIds \cup {0}, status : BoardStatuses]
KeyRecord == [op : {"none", "post", "comment"}, id : EntryIds \cup {0}]
CallRecord ==
    [pc : CallPhases, op : {"none", "post", "comment"}, post : EntryIds \cup {0},
     parent : EntryIds \cup {0}, key : BoardKeys \cup {0}, id : EntryIds \cup {0}]

\* What the store holds and a call carries.
BoardTyped ==
    /\ boardPosts \in [EntryIds -> BoardStatuses]
    /\ boardComments \in [EntryIds -> CommentRecord]
    /\ boardKeys \in [BoardKeys -> KeyRecord]
    /\ boardCalls \in [BoardCalls -> CallRecord]

\* Calls arrive in the order of their numbers, and an entry has the number of
\* a call that is over.
CallsInOrder ==
    /\ \A c, d \in BoardCalls : d < c /\ boardCalls[c].pc # "idle" => boardCalls[d].pc # "idle"
    /\ \A c \in BoardCalls : boardCalls[c].pc = "idle" => boardCalls[c] = NoBoardCall
    /\ \A i \in EntryIds :
          boardPosts[i] # "none" \/ boardComments[i].status # "none" => boardCalls[i].pc = "done"

\* A place for a reply: a comment that was made, purged or not, on this post
\* and before this call.
PlaceFor(c, post, parent) ==
    parent # 0 => /\ parent < c
                  /\ boardComments[parent].status # "none"
                  /\ boardComments[parent].post = post

\* A comment stands below a comment of its own post, and is not left to read
\* once the post is purged.
CommentsPlaced ==
    \A i \in EntryIds :
        /\ boardComments[i].status = "none" => boardComments[i] = NoComment
        /\ boardComments[i].status # "none" =>
              /\ boardComments[i].post \in EntryIds
              /\ PlaceFor(i, boardComments[i].post, boardComments[i].parent)
        /\ boardComments[i].status = "active" => boardPosts[boardComments[i].post] = "active"

Underway == {"key", "post", "parent", "insert"}
Reserved == {"post", "parent", "insert"}

\* A call that writes a comment knows its place, and from the lock on its post
\* is not purged.
CallsPlaced ==
    \A c \in BoardCalls :
        /\ boardCalls[c].pc \in Underway => boardCalls[c].op # "none"
        /\ boardCalls[c].pc \in {"post", "parent"} => boardCalls[c].op = "comment"
        /\ boardCalls[c].pc \in Underway /\ boardCalls[c].op = "comment" =>
              /\ boardCalls[c].post \in EntryIds
              /\ PlaceFor(c, boardCalls[c].post, boardCalls[c].parent)
        /\ boardCalls[c].pc \in {"parent", "insert"} /\ boardCalls[c].op = "comment" =>
              boardPosts[boardCalls[c].post] = "active"

\* One call at a time has reserved a key that has no entry; a call that is
\* over was given the entry of its key.
KeysOnce ==
    /\ \A c, d \in BoardCalls :
          /\ boardCalls[c].key = boardCalls[d].key /\ boardCalls[c].key # 0
          /\ boardCalls[c].pc \in Reserved /\ boardCalls[d].pc \in Reserved
          => c = d
    /\ \A c \in BoardCalls :
          boardCalls[c].key # 0 =>
             /\ boardCalls[c].pc \in Reserved => boardKeys[boardCalls[c].key] = NoKey
             /\ boardCalls[c].pc = "done" =>
                   /\ boardKeys[boardCalls[c].key] # NoKey
                   /\ boardCalls[c].id = boardKeys[boardCalls[c].key].id

BoardInv == BoardTyped /\ CallsInOrder /\ CommentsPlaced /\ CallsPlaced /\ KeysOnce

-----------------------------------------------------------------------------
(* Each call preserves the invariant                                         *)

\* An empty board.
LEMMA BoardInitInv == BoardInit => BoardInv
  BY BoardAssumption DEF BoardInit, BoardInv, BoardTyped, CommentRecord, KeyRecord, CallRecord,
     BoardStatuses, CallPhases, CallsInOrder, CommentsPlaced, PlaceFor, CallsPlaced, KeysOnce,
     Underway, Reserved, EntryIds, NoComment, NoKey, NoBoardCall

\* A post that arrives.
LEMMA CreatePostInv ==
  ASSUME BoardInv, NEW c \in BoardCalls, NEW key \in BoardKeys \cup {0}, CreatePost(c, key)
  PROVE  BoardInv'
<1> USE BoardAssumption DEF BoardInv, EntryIds
<1>1. BoardTyped'
  BY DEF CreatePost, NextCall, StoreUnchanged, BoardTyped, CommentRecord, KeyRecord, CallRecord,
     BoardStatuses, CallPhases, NoBoardCall, NoKey, NoComment
<1>2. CallsInOrder'
  BY DEF CreatePost, NextCall, StoreUnchanged, BoardTyped, CommentRecord, KeyRecord, CallRecord,
     BoardStatuses, CallPhases, CallsInOrder, NoBoardCall, NoKey, NoComment
<1>3. CommentsPlaced'
  BY DEF CreatePost, NextCall, StoreUnchanged, BoardTyped, CommentRecord, KeyRecord, CallRecord,
     BoardStatuses, CallPhases, CallsInOrder, CommentsPlaced, PlaceFor, CallsPlaced, Underway,
     NoComment, NoBoardCall
<1>4. CallsPlaced'
  BY DEF CreatePost, NextCall, StoreUnchanged, BoardTyped, CommentRecord, KeyRecord, CallRecord,
     BoardStatuses, CallPhases, CallsInOrder, CommentsPlaced, PlaceFor, CallsPlaced, Underway,
     NoBoardCall
<1>5. KeysOnce'
  BY DEF CreatePost, NextCall, StoreUnchanged, BoardTyped, CommentRecord, KeyRecord, CallRecord,
     BoardStatuses, CallPhases, CallsInOrder, CallsPlaced, KeysOnce, Underway, Reserved,
     NoBoardCall, NoKey
<1> QED
  BY <1>1, <1>2, <1>3, <1>4, <1>5

\* A comment that arrives names a place that is there.
LEMMA CreateCommentInv ==
  ASSUME BoardInv, NEW c \in BoardCalls, NEW post \in EntryIds, NEW parent \in EntryIds \cup {0},
         NEW key \in BoardKeys \cup {0}, CreateComment(c, post, parent, key)
  PROVE  BoardInv'
<1> USE BoardAssumption DEF BoardInv, EntryIds
<1>1. BoardTyped'
  BY DEF CreateComment, GetComment, NextCall, StoreUnchanged, BoardTyped, CommentRecord,
     KeyRecord, CallRecord, BoardStatuses, CallPhases, NoBoardCall, NoKey, NoComment
<1>2. CallsInOrder'
  BY DEF CreateComment, GetComment, NextCall, StoreUnchanged, BoardTyped, CommentRecord,
     KeyRecord, CallRecord, BoardStatuses, CallPhases, CallsInOrder, NoBoardCall, NoKey,
     NoComment
<1>3. CommentsPlaced'
  BY DEF CreateComment, GetComment, NextCall, StoreUnchanged, BoardTyped, CommentRecord,
     KeyRecord, CallRecord, BoardStatuses, CallPhases, CallsInOrder, CommentsPlaced, PlaceFor,
     CallsPlaced, Underway, NoComment, NoBoardCall
<1>4. CallsPlaced'
  <2>1. boardCalls' = [boardCalls EXCEPT ![c] = boardCalls'[c]]
    BY DEF CreateComment, BoardTyped
  <2>2. /\ boardCalls'[c].pc = "key" /\ boardCalls'[c].op = "comment"
        /\ boardCalls'[c].post = post /\ boardCalls'[c].parent = parent
    BY DEF CreateComment, BoardTyped, NoBoardCall
  <2>3. ASSUME parent # 0
        PROVE  /\ parent < c /\ boardComments[parent].status = "active"
               /\ boardComments[parent].post = post
    <3>1. parent \in EntryIds /\ parent \in BoardCalls
      BY <2>3
    <3>2. boardComments[parent].status = "active" /\ boardComments[parent].post = post
      BY <2>3, <3>1 DEF CreateComment, GetComment
    <3>3. boardCalls[parent].pc = "done" /\ boardCalls[c].pc = "idle"
      BY <3>1, <3>2 DEF CallsInOrder, CreateComment, NextCall
    <3>4. ~(c < parent) /\ c # parent
      BY <3>1, <3>3 DEF CallsInOrder
    <3>5. parent \in Nat /\ c \in Nat
      BY <3>1
    <3>6. parent < c
      BY <3>4, <3>5
    <3> QED
      BY <3>2, <3>6
  <2>4. UNCHANGED <<boardPosts, boardComments>>
    BY DEF CreateComment, StoreUnchanged
  <2>5. PlaceFor(c, post, parent)'
    BY <2>3, <2>4 DEF PlaceFor
  <2>6. \A d \in BoardCalls \ {c} : boardCalls'[d] = boardCalls[d]
    BY <2>1 DEF BoardTyped
  <2>7. ASSUME NEW d \in BoardCalls \ {c}, NEW on, NEW above, PlaceFor(d, on, above)
        PROVE  PlaceFor(d, on, above)'
    BY <2>4, <2>7 DEF PlaceFor
  <2> SUFFICES ASSUME NEW d \in BoardCalls
               PROVE  (/\ boardCalls[d].pc \in Underway => boardCalls[d].op # "none"
                       /\ boardCalls[d].pc \in {"post", "parent"} => boardCalls[d].op = "comment"
                       /\ boardCalls[d].pc \in Underway /\ boardCalls[d].op = "comment" =>
                             /\ boardCalls[d].post \in EntryIds
                             /\ PlaceFor(d, boardCalls[d].post, boardCalls[d].parent)
                       /\ boardCalls[d].pc \in {"parent", "insert"}
                              /\ boardCalls[d].op = "comment" =>
                             boardPosts[boardCalls[d].post] = "active")'
    BY DEF CallsPlaced
  <2>8. CASE d = c
    BY <2>2, <2>5, <2>8 DEF PlaceFor
  <2>9. CASE d # c
    BY <2>4, <2>6, <2>7, <2>9 DEF CallsPlaced, PlaceFor
  <2> QED
    BY <2>8, <2>9
<1>5. KeysOnce'
  BY DEF CreateComment, GetComment, NextCall, StoreUnchanged, BoardTyped, CommentRecord,
     KeyRecord, CallRecord, BoardStatuses, CallPhases, CallsInOrder, CallsPlaced, KeysOnce,
     Underway, Reserved, NoBoardCall, NoKey
<1> QED
  BY <1>1, <1>2, <1>3, <1>4, <1>5

\* A key is reserved once, or answered.
LEMMA ReserveInv ==
  ASSUME BoardInv, NEW c \in BoardCalls, reserveIdempotencyKey(c)
  PROVE  BoardInv'
<1> USE BoardAssumption DEF BoardInv, EntryIds
<1>1. BoardTyped'
  <2> DEFINE call == boardCalls[c]
  <2>1. call \in CallRecord
    BY DEF BoardTyped
  <2>2. \A p \in CallPhases, n \in EntryIds \cup {0} :
           [call EXCEPT !.pc = p] \in CallRecord /\ [call EXCEPT !.pc = p, !.id = n] \in CallRecord
    BY <2>1 DEF CallRecord
  <2>3. call.key # 0 => boardKeys[call.key].id \in EntryIds \cup {0}
    BY <2>1 DEF CallRecord, BoardTyped, KeyRecord
  <2>4. PICK new : new \in CallRecord /\ boardCalls' = [boardCalls EXCEPT ![c] = new]
    <3>1. CASE call.key = 0 \/ boardKeys[call.key] = NoKey
      BY <2>2, <3>1 DEF reserveIdempotencyKey, CallPhases
    <3>2. CASE ~(call.key = 0 \/ boardKeys[call.key] = NoKey)
      BY <2>2, <2>3, <3>2 DEF reserveIdempotencyKey, CallPhases
    <3> QED
      BY <3>1, <3>2
  <2>5. boardCalls' \in [BoardCalls -> CallRecord]
    BY <2>4 DEF BoardTyped
  <2> QED
    BY <2>5 DEF reserveIdempotencyKey, StoreUnchanged, BoardTyped
<1>2. CallsInOrder'
  BY DEF reserveIdempotencyKey, Free, HoldsKey, StoreUnchanged, BoardTyped, CommentRecord,
     KeyRecord, CallRecord, BoardStatuses, CallPhases, CallsInOrder, NoBoardCall, NoKey,
     NoComment
<1>3. CommentsPlaced'
  BY DEF reserveIdempotencyKey, Free, HoldsKey, StoreUnchanged, BoardTyped, CommentRecord,
     KeyRecord, CallRecord, BoardStatuses, CallPhases, CallsInOrder, CommentsPlaced, PlaceFor,
     CallsPlaced, Underway, NoComment, NoBoardCall
<1>4. CallsPlaced'
  BY DEF reserveIdempotencyKey, Free, HoldsKey, StoreUnchanged, BoardTyped, CommentRecord,
     KeyRecord, CallRecord, BoardStatuses, CallPhases, CallsInOrder, CommentsPlaced, PlaceFor,
     CallsPlaced, Underway, NoBoardCall
<1>5. KeysOnce'
  BY DEF reserveIdempotencyKey, Free, HoldsKey, StoreUnchanged, BoardTyped, CommentRecord,
     KeyRecord, CallRecord, BoardStatuses, CallPhases, CallsInOrder, CallsPlaced, KeysOnce,
     Underway, Reserved, NoBoardCall, NoKey
<1> QED
  BY <1>1, <1>2, <1>3, <1>4, <1>5

\* The post is read again under its lock.
LEMMA LockPostInv ==
  ASSUME BoardInv, NEW c \in BoardCalls, lockPostForComment(c)
  PROVE  BoardInv'
<1> USE BoardAssumption DEF BoardInv, EntryIds
<1>1. BoardTyped'
  BY DEF lockPostForComment, CallTo, StoreUnchanged, BoardTyped, CommentRecord, KeyRecord,
     CallRecord, BoardStatuses, CallPhases, NoBoardCall, NoKey, NoComment
<1>2. CallsInOrder'
  BY DEF lockPostForComment, CallTo, StoreUnchanged, BoardTyped, CommentRecord, KeyRecord,
     CallRecord, BoardStatuses, CallPhases, CallsInOrder, NoBoardCall, NoKey, NoComment
<1>3. CommentsPlaced'
  BY DEF lockPostForComment, CallTo, StoreUnchanged, BoardTyped, CommentRecord, KeyRecord,
     CallRecord, BoardStatuses, CallPhases, CallsInOrder, CommentsPlaced, PlaceFor, CallsPlaced,
     Underway, NoComment, NoBoardCall
<1>4. CallsPlaced'
  BY DEF lockPostForComment, CallTo, StoreUnchanged, BoardTyped, CommentRecord, KeyRecord,
     CallRecord, BoardStatuses, CallPhases, CallsInOrder, CommentsPlaced, PlaceFor, CallsPlaced,
     Underway, NoBoardCall
<1>5. KeysOnce'
  BY DEF lockPostForComment, CallTo, StoreUnchanged, BoardTyped, CommentRecord, KeyRecord,
     CallRecord, BoardStatuses, CallPhases, CallsInOrder, CallsPlaced, KeysOnce, Underway,
     Reserved, NoBoardCall, NoKey
<1> QED
  BY <1>1, <1>2, <1>3, <1>4, <1>5

\* The parent is read again under its lock.
LEMMA LockParentInv ==
  ASSUME BoardInv, NEW c \in BoardCalls, lockParentForComment(c)
  PROVE  BoardInv'
<1> USE BoardAssumption DEF BoardInv, EntryIds
<1>1. BoardTyped'
  BY DEF lockParentForComment, CallTo, StoreUnchanged, BoardTyped, CommentRecord, KeyRecord,
     CallRecord, BoardStatuses, CallPhases, NoBoardCall, NoKey, NoComment
<1>2. CallsInOrder'
  BY DEF lockParentForComment, CallTo, StoreUnchanged, BoardTyped, CommentRecord, KeyRecord,
     CallRecord, BoardStatuses, CallPhases, CallsInOrder, NoBoardCall, NoKey, NoComment
<1>3. CommentsPlaced'
  BY DEF lockParentForComment, CallTo, StoreUnchanged, BoardTyped, CommentRecord, KeyRecord,
     CallRecord, BoardStatuses, CallPhases, CallsInOrder, CommentsPlaced, PlaceFor, CallsPlaced,
     Underway, NoComment, NoBoardCall
<1>4. CallsPlaced'
  BY DEF lockParentForComment, CallTo, StoreUnchanged, BoardTyped, CommentRecord, KeyRecord,
     CallRecord, BoardStatuses, CallPhases, CallsInOrder, CommentsPlaced, PlaceFor, CallsPlaced,
     Underway, NoBoardCall
<1>5. KeysOnce'
  BY DEF lockParentForComment, CallTo, StoreUnchanged, BoardTyped, CommentRecord, KeyRecord,
     CallRecord, BoardStatuses, CallPhases, CallsInOrder, CallsPlaced, KeysOnce, Underway,
     Reserved, NoBoardCall, NoKey
<1> QED
  BY <1>1, <1>2, <1>3, <1>4, <1>5

\* The entry and its key are stored together.
LEMMA InsertEntryInv ==
  ASSUME BoardInv, NEW c \in BoardCalls, InsertEntry(c)
  PROVE  BoardInv'
<1> USE BoardAssumption DEF BoardInv, EntryIds
<1>1. BoardTyped'
  <2>1. boardCalls[c] \in CallRecord
    BY DEF BoardTyped
  <2>2. boardCalls' \in [BoardCalls -> CallRecord]
    BY <2>1 DEF InsertEntry, BoardTyped, CallRecord, CallPhases
  <2>3. boardPosts' \in [EntryIds -> BoardStatuses]
    BY DEF InsertEntry, BoardTyped, BoardStatuses
  <2>4. boardComments' \in [EntryIds -> CommentRecord]
    BY <2>1 DEF InsertEntry, BoardTyped, CommentRecord, CallRecord, BoardStatuses
  <2>5. boardKeys' \in [BoardKeys -> KeyRecord]
    BY <2>1 DEF InsertEntry, BoardTyped, KeyRecord, CallRecord
  <2> QED
    BY <2>2, <2>3, <2>4, <2>5 DEF BoardTyped
<1>2. CallsInOrder'
  BY DEF InsertEntry, BoardTyped, CommentRecord, KeyRecord, CallRecord, BoardStatuses,
     CallPhases, CallsInOrder, NoBoardCall, NoKey, NoComment
<1>3. CommentsPlaced'
  <2> DEFINE call == boardCalls[c]
  <2>1. boardComments[c].status = "none" /\ boardPosts[c] = "none"
    BY DEF InsertEntry, CallsInOrder, BoardTyped
  <2>2. CASE call.op = "post"
    <3>1. boardComments' = boardComments /\ boardPosts' = [boardPosts EXCEPT ![c] = "active"]
      BY <2>2 DEF InsertEntry
    <3> QED
      BY <3>1, <2>1 DEF CommentsPlaced, PlaceFor, BoardTyped
  <2>3. CASE call.op # "post"
    <3>1. /\ boardPosts' = boardPosts
          /\ boardComments' = [boardComments EXCEPT ![c] =
                [post |-> call.post, parent |-> call.parent, status |-> "active"]]
      BY <2>3 DEF InsertEntry
    <3>2. call.op = "comment"
      BY <2>3 DEF InsertEntry, CallsPlaced, Underway, BoardTyped, CallRecord
    <3>3. PICK p \in EntryIds \cup {0}, q \in EntryIds \cup {0} : p = call.post /\ q = call.parent
      BY DEF BoardTyped, CallRecord
    <3>4. p \in EntryIds /\ boardPosts[p] = "active" /\ PlaceFor(c, p, q)
      BY <3>2, <3>3 DEF InsertEntry, CallsPlaced, Underway
    <3>5. \A i \in EntryIds : boardComments[i].status # "none" => i # c
      BY <2>1
    <3>6. \A i \in EntryIds \ {c} : boardComments'[i] = boardComments[i]
      BY <3>1 DEF BoardTyped
    <3>7. boardComments'[c] = [post |-> p, parent |-> q, status |-> "active"]
      BY <3>1, <3>3 DEF BoardTyped
    <3>8. \A i \in EntryIds : boardComments[i].post \in EntryIds \cup {0}
                               /\ boardComments[i].parent \in EntryIds \cup {0}
      BY DEF BoardTyped, CommentRecord
    <3>9. ASSUME NEW i \in EntryIds, NEW above \in EntryIds \cup {0}, NEW on, PlaceFor(i, on, above)
          PROVE  PlaceFor(i, on, above)'
      BY <3>5, <3>6, <3>9 DEF PlaceFor
    <3> QED
      <4> SUFFICES ASSUME NEW i \in EntryIds
                   PROVE  /\ boardComments'[i].status = "none" => boardComments'[i] = NoComment
                          /\ boardComments'[i].status # "none" =>
                                /\ boardComments'[i].post \in EntryIds
                                /\ PlaceFor(i, boardComments[i].post, boardComments[i].parent)'
                          /\ boardComments'[i].status = "active" =>
                                boardPosts'[boardComments'[i].post] = "active"
        BY DEF CommentsPlaced
      <4>1. CASE i = c
        <5>1. /\ boardComments'[i].post = p /\ boardComments'[i].parent = q
              /\ boardComments'[i].status = "active"
          BY <4>1, <3>7
        <5>2. PlaceFor(i, p, q)'
          BY <4>1, <3>4, <3>9
        <5> QED
          BY <5>1, <5>2, <3>1, <3>4 DEF PlaceFor
      <4>2. CASE i # c
        <5>1. PICK on \in EntryIds \cup {0}, above \in EntryIds \cup {0} :
                 on = boardComments[i].post /\ above = boardComments[i].parent
          BY <3>8
        <5>2. boardComments'[i] = boardComments[i]
          BY <4>2, <3>6
        <5>3. boardComments[i].status # "none" => PlaceFor(i, on, above)'
          BY <5>1, <3>9 DEF CommentsPlaced
        <5> QED
          BY <5>1, <5>2, <5>3, <3>1 DEF CommentsPlaced, PlaceFor
      <4> QED
        BY <4>1, <4>2
  <2> QED
    BY <2>2, <2>3
<1>4. CallsPlaced'
  BY DEF InsertEntry, BoardTyped, CommentRecord, KeyRecord, CallRecord, BoardStatuses,
     CallPhases, CallsInOrder, CommentsPlaced, PlaceFor, CallsPlaced, Underway, NoBoardCall
<1>5. KeysOnce'
  BY DEF InsertEntry, BoardTyped, CommentRecord, KeyRecord, CallRecord, BoardStatuses,
     CallPhases, CallsInOrder, CallsPlaced, KeysOnce, Underway, Reserved, NoBoardCall, NoKey
<1> QED
  BY <1>1, <1>2, <1>3, <1>4, <1>5

\* A purge waits for the comments that have locked the post.
LEMMA PurgePostInv ==
  ASSUME BoardInv, NEW c \in BoardCalls, NEW post \in EntryIds, PurgePost(c, post)
  PROVE  BoardInv'
<1> USE BoardAssumption DEF BoardInv, EntryIds
<1>1. BoardTyped'
  <2>1. boardCalls[c] \in CallRecord
    BY DEF BoardTyped
  <2>2. boardCalls' \in [BoardCalls -> CallRecord]
    BY <2>1 DEF PurgePost, CallTo, BoardTyped, CallRecord, CallPhases
  <2>3. boardPosts' \in [EntryIds -> BoardStatuses]
    BY DEF PurgePost, BoardTyped, BoardStatuses
  <2>4. \A i \in EntryIds : boardComments[i] \in CommentRecord
                             /\ [boardComments[i] EXCEPT !.status = "deleted"] \in CommentRecord
    BY DEF BoardTyped, CommentRecord, BoardStatuses
  <2>5. boardComments' \in [EntryIds -> CommentRecord]
    BY <2>4 DEF PurgePost
  <2> QED
    BY <2>2, <2>3, <2>5 DEF PurgePost, BoardTyped
<1>2. CallsInOrder'
  <2>1. \A d \in BoardCalls : boardCalls[d].pc = "done" => boardCalls'[d].pc = "done"
    BY DEF PurgePost, NextCall, CallTo, BoardTyped
  <2>2. \A j \in EntryIds : boardPosts'[j] # "none" => boardPosts[j] # "none"
    BY DEF PurgePost, BoardTyped
  <2>3. \A j \in EntryIds : boardComments'[j].status # "none" => boardComments[j].status # "none"
    <3> SUFFICES ASSUME NEW j \in EntryIds, boardComments[j].status = "none"
                 PROVE  boardComments'[j].status = "none"
      OBVIOUS
    <3>1. boardComments[j].post # post
      BY DEF CommentsPlaced, NoComment
    <3> QED
      BY <3>1 DEF PurgePost
  <2>4. \A i \in EntryIds :
          boardPosts'[i] # "none" \/ boardComments'[i].status # "none" => boardCalls'[i].pc = "done"
    <3> SUFFICES ASSUME NEW i \in EntryIds,
                        boardPosts'[i] # "none" \/ boardComments'[i].status # "none"
                 PROVE  boardCalls'[i].pc = "done"
      OBVIOUS
    <3>1. boardPosts[i] # "none" \/ boardComments[i].status # "none"
      BY <2>2, <2>3
    <3>2. boardCalls[i].pc = "done"
      BY <3>1 DEF CallsInOrder
    <3> QED
      BY <2>1, <3>2
  <2>5. \A i, d \in BoardCalls : d < i /\ boardCalls'[i].pc # "idle" => boardCalls'[d].pc # "idle"
    BY DEF PurgePost, NextCall, CallTo, BoardTyped, CallsInOrder
  <2>6. \A d \in BoardCalls : boardCalls'[d].pc = "idle" => boardCalls'[d] = NoBoardCall
    BY DEF PurgePost, CallTo, BoardTyped, CallsInOrder, CallRecord
  <2> QED
    BY <2>4, <2>5, <2>6 DEF CallsInOrder
<1>3. CommentsPlaced'
  BY DEF PurgePost, NextCall, Free, HoldsPost, CallTo, BoardTyped, CommentRecord, KeyRecord,
     CallRecord, BoardStatuses, CallPhases, CallsInOrder, CommentsPlaced, PlaceFor, CallsPlaced,
     Underway, NoComment, NoBoardCall
<1>4. CallsPlaced'
  BY DEF PurgePost, NextCall, Free, HoldsPost, CallTo, BoardTyped, CommentRecord, KeyRecord,
     CallRecord, BoardStatuses, CallPhases, CallsInOrder, CommentsPlaced, PlaceFor, CallsPlaced,
     Underway, NoBoardCall
<1>5. KeysOnce'
  BY DEF PurgePost, NextCall, Free, HoldsPost, CallTo, BoardTyped, CommentRecord, KeyRecord,
     CallRecord, BoardStatuses, CallPhases, CallsInOrder, CallsPlaced, KeysOnce, Underway,
     Reserved, NoBoardCall, NoKey
<1> QED
  BY <1>1, <1>2, <1>3, <1>4, <1>5

\* A purged comment keeps its place.
LEMMA PurgeCommentInv ==
  ASSUME BoardInv, NEW c \in BoardCalls, NEW i \in EntryIds, PurgeComment(c, i)
  PROVE  BoardInv'
<1> USE BoardAssumption DEF BoardInv, EntryIds
<1>1. BoardTyped'
  <2>1. boardCalls[c] \in CallRecord
    BY DEF BoardTyped
  <2>2. boardCalls' \in [BoardCalls -> CallRecord]
    BY <2>1 DEF PurgeComment, CallTo, BoardTyped, CallRecord, CallPhases
  <2>3. [boardComments[i] EXCEPT !.status = "deleted"] \in CommentRecord
    BY DEF BoardTyped, CommentRecord, BoardStatuses
  <2>4. boardComments' \in [EntryIds -> CommentRecord]
    BY <2>3 DEF PurgeComment, BoardTyped
  <2> QED
    BY <2>2, <2>4 DEF PurgeComment, BoardTyped
<1>2. CallsInOrder'
  BY DEF PurgeComment, NextCall, CallTo, BoardTyped, CommentRecord, KeyRecord, CallRecord,
     BoardStatuses, CallPhases, CallsInOrder, NoBoardCall, NoKey, NoComment
<1>3. CommentsPlaced'
  BY DEF PurgeComment, NextCall, CallTo, BoardTyped, CommentRecord, KeyRecord, CallRecord,
     BoardStatuses, CallPhases, CallsInOrder, CommentsPlaced, PlaceFor, CallsPlaced, Underway,
     NoComment, NoBoardCall
<1>4. CallsPlaced'
  BY DEF PurgeComment, NextCall, CallTo, BoardTyped, CommentRecord, KeyRecord, CallRecord,
     BoardStatuses, CallPhases, CallsInOrder, CommentsPlaced, PlaceFor, CallsPlaced, Underway,
     NoBoardCall
<1>5. KeysOnce'
  BY DEF PurgeComment, NextCall, CallTo, BoardTyped, CommentRecord, KeyRecord, CallRecord,
     BoardStatuses, CallPhases, CallsInOrder, CallsPlaced, KeysOnce, Underway, Reserved,
     NoBoardCall, NoKey
<1> QED
  BY <1>1, <1>2, <1>3, <1>4, <1>5

LEMMA BoardStutters ==
  ASSUME BoardInv, UNCHANGED boardStoreVars
  PROVE  BoardInv'
  BY DEF BoardInv, boardStoreVars, BoardTyped, CallsInOrder, CommentsPlaced, PlaceFor,
     CallsPlaced,
         KeysOnce

\* Every step keeps the invariant, and so does standing still.
LEMMA BoardNextInv == BoardInv /\ [BoardNext]_boardStoreVars => BoardInv'
  BY CreatePostInv, CreateCommentInv, ReserveInv, LockPostInv, LockParentInv, InsertEntryInv,
     PurgePostInv, PurgeCommentInv, BoardStutters DEF BoardNext

\* So it holds of every board.
LEMMA BoardIsInv == BoardSpec => []BoardInv
<1>1. QED
  BY BoardInitInv, BoardNextInv, PTL DEF BoardSpec

-----------------------------------------------------------------------------
(* What stands above a comment                                               *)

Smaller == {p \in Nat \X Nat : p[1] < p[2]}

LEMMA FirstOfNaturals ==
  ASSUME NEW S \in SUBSET Nat, S # {}
  PROVE  \E x \in S : \A y \in S : x <= y
<1>1. IsWellFoundedOn(Smaller, Nat)
  BY NatLessThanWellFounded DEF OpToRel, Smaller
<1>2. PICK x \in S : \A y \in S : <<y, x>> \notin Smaller
  BY <1>1, WFMin
<1>3. ASSUME NEW y \in S
      PROVE  x <= y
  <2>1. <<y, x>> \in Nat \X Nat /\ <<y, x>>[1] = y /\ <<y, x>>[2] = x
    OBVIOUS
  <2>2. ~(y < x)
    BY <1>2, <2>1 DEF Smaller
  <2> QED
    BY <2>2
<1> QED
  BY <1>3

\* The parent of a comment, and of what is above it, is above it.
LEMMA ParentAbove ==
  ASSUME BoardInv, NEW i \in EntryIds, NEW k \in Above(i) \cup {i}
  PROVE  boardComments[k].parent # 0 => boardComments[k].parent \in Above(i)
<1>1. k \in EntryIds
  BY DEF Above
<1>2. boardComments[k].parent \in EntryIds \cup {0}
  BY <1>1 DEF BoardInv, BoardTyped, CommentRecord
<1> SUFFICES ASSUME boardComments[k].parent # 0
             PROVE  boardComments[k].parent \in Above(i)
  OBVIOUS
<1>3. ASSUME NEW S \in SUBSET EntryIds, \A m \in S \cup {i} : ParentIn(S, m)
      PROVE  boardComments[k].parent \in S
  <2>1. k \in S \cup {i}
    BY <1>3 DEF Above
  <2>2. ParentIn(S, k)
    BY <2>1, <1>3
  <2> QED
    BY <2>2 DEF ParentIn
<1> QED
  BY <1>2, <1>3 DEF Above

\* Nothing else is: a set with the parents of what it holds has all of it.
LEMMA AboveLeast ==
  ASSUME NEW i, NEW S \in SUBSET EntryIds, \A m \in S \cup {i} : ParentIn(S, m)
  PROVE  Above(i) \subseteq S
  BY DEF Above

\* All of it was made before, on the same post.
LEMMA AboveOnPost ==
  ASSUME BoardInv, NEW i \in EntryIds, boardComments[i].status # "none"
  PROVE  \A j \in Above(i) : /\ j \in EntryIds /\ j < i
                             /\ boardComments[j].status # "none"
                             /\ boardComments[j].post = boardComments[i].post
<1> DEFINE S == {j \in EntryIds : /\ j < i /\ boardComments[j].status # "none"
                                  /\ boardComments[j].post = boardComments[i].post}
<1>1. ASSUME NEW m \in S \cup {i}
      PROVE  ParentIn(S, m)
  <2>1. /\ m \in EntryIds /\ m \in Nat /\ i \in Nat /\ m <= i
        /\ boardComments[m].status # "none" /\ boardComments[m].post = boardComments[i].post
    BY BoardAssumption DEF EntryIds
  <2>2. PICK q \in EntryIds \cup {0} : q = boardComments[m].parent
    BY <2>1 DEF BoardInv, BoardTyped, CommentRecord
  <2>3. q # 0 => /\ q < m /\ boardComments[q].status # "none"
                 /\ boardComments[q].post = boardComments[m].post
    BY <2>1, <2>2 DEF BoardInv, CommentsPlaced, PlaceFor
  <2>4. q \in Nat
    BY BoardAssumption DEF EntryIds
  <2>5. q # 0 => q \in S
    BY <2>1, <2>3, <2>4
  <2> QED
    BY <2>2, <2>5 DEF ParentIn
<1>2. Above(i) \subseteq S
  BY <1>1, AboveLeast
<1> QED
  BY <1>2

\* The way up from k goes through its parent.
LEMMA AboveStep ==
  ASSUME BoardInv, NEW k \in EntryIds, NEW b \in Above(k)
  PROVE  LET q == boardComments[k].parent IN q \in EntryIds /\ (b = q \/ b \in Above(q))
<1>1. PICK q \in EntryIds \cup {0} : q = boardComments[k].parent
  BY DEF BoardInv, BoardTyped, CommentRecord
<1>2. CASE q = 0
  <2>1. \A m \in {} \cup {k} : ParentIn({}, m)
    BY <1>1, <1>2 DEF ParentIn
  <2>2. Above(k) \subseteq {}
    BY <2>1, AboveLeast
  <2> QED
    BY <2>2
<1>3. CASE q # 0
  <2> DEFINE S == Above(q) \cup {q}
  <2>1. q \in EntryIds /\ S \in SUBSET EntryIds
    BY <1>3 DEF Above
  <2>2. ASSUME NEW m \in S \cup {k}
        PROVE  ParentIn(S, m)
    <3>1. CASE m \in S
      BY <2>1, <3>1, ParentAbove DEF ParentIn
    <3>2. CASE m = k
      BY <1>1, <3>2 DEF ParentIn
    <3> QED
      BY <3>1, <3>2
  <2>3. Above(k) \subseteq S
    BY <2>1, <2>2, AboveLeast
  <2> QED
    BY <1>1, <2>1, <2>3
<1> QED
  BY <1>2, <1>3

\* Of two comments on the way up, one is above the other.
LEMMA AboveIsAChain ==
  ASSUME BoardInv, NEW i \in EntryIds, NEW b \in Above(i) \cup {i}
  PROVE  \A k \in Above(i) \cup {i} : k \in Above(b) \/ k = b \/ b \in Above(k)
<1> DEFINE S == {k \in Above(i) : k \in Above(b) \/ k = b \/ b \in Above(k)}
<1>1. b \in EntryIds /\ S \in SUBSET EntryIds
  BY DEF Above
<1>2. ASSUME NEW m \in S \cup {i}
      PROVE  ParentIn(S, m)
  <2>1. m \in Above(b) \cup {b} \/ b \in Above(m)
    OBVIOUS
  <2>2. m \in EntryIds /\ m \in Above(i) \cup {i}
    BY <1>1
  <2>3. PICK q : q = boardComments[m].parent
    OBVIOUS
  <2> SUFFICES ASSUME q # 0
               PROVE  q \in S
    BY <2>3 DEF ParentIn
  <2>4. q \in Above(i)
    BY <2>2, <2>3, ParentAbove
  <2>5. CASE m \in Above(b) \cup {b}
    BY <1>1, <2>3, <2>4, <2>5, ParentAbove
  <2>6. CASE b \in Above(m)
    BY <2>2, <2>3, <2>4, <2>6, AboveStep
  <2> QED
    BY <2>1, <2>5, <2>6
<1>3. Above(i) \subseteq S
  BY <1>1, <1>2, AboveLeast
<1> QED
  BY <1>3

\* A comment that can be read is found level by level from its post.
LEMMA ReachedByLevels ==
  ASSUME BoardInv, NEW i \in EntryIds, boardComments[i].status = "active",
         NEW j \in Above(i) \cup {i}
  PROVE  j \in ListComments(boardComments[i].post, boardComments[j].parent)
<1>1. CASE j = i
  BY <1>1 DEF ListComments
<1>2. CASE j \in Above(i)
  <2>1. /\ j \in EntryIds /\ boardComments[j].status # "none"
        /\ boardComments[j].post = boardComments[i].post
    BY <1>2, AboveOnPost
  <2>2. boardComments[j].status \in {"active", "deleted"}
    BY <2>1 DEF BoardInv, BoardTyped, CommentRecord, BoardStatuses
  <2>3. hasActiveDescendant(j)
    BY <1>2 DEF hasActiveDescendant
  <2> QED
    BY <2>1, <2>2, <2>3 DEF ListComments
<1> QED
  BY <1>1, <1>2

\* The path of a comment that can be read is cut exactly when it says so.
LEMMA PathSaysCut ==
  ASSUME BoardInv, NEW i \in EntryIds, boardComments[i].status = "active", NEW limit \in 1..3
  PROVE  GetCommentPath(i, limit).truncated =
             (GetCommentPath(i, limit).comments # Above(i) \cup {i})
<1> DEFINE all == Above(i) \cup {i}
           later(j) == {k \in all : k > j}
           path == {j \in all : Cardinality(later(j)) < limit}
           top == Topmost(path)
<1>1. all \subseteq EntryIds /\ all \subseteq Nat \ {0} /\ \A j \in all : j <= i
  <2>1. Above(i) \subseteq EntryIds
    BY DEF Above
  <2>2. \A j \in Above(i) : j < i
    BY AboveOnPost
  <2>3. EntryIds \subseteq Nat \ {0}
    BY BoardAssumption DEF EntryIds
  <2>4. \A j \in all : j \in EntryIds /\ j \in Nat \ {0} /\ (j = i \/ j < i)
    BY <2>1, <2>2, <2>3
  <2> QED
    BY <2>4
<1>2. \A j \in all : IsFiniteSet(later(j)) /\ Cardinality(later(j)) \in Nat
  <2>1. i \in Nat
    BY <1>1
  <2>2. IsFiniteSet(0..i)
    BY <2>1, FS_Interval
  <2>3. \A j \in all : later(j) \subseteq 0..i
    BY <1>1
  <2> QED
    BY <2>2, <2>3, FS_Subset, FS_CardinalityType
<1>3. ASSUME NEW j \in path, NEW k \in all, k > j
      PROVE  k \in path
  <2>1. later(k) \subseteq later(j)
    BY <1>1, <1>3
  <2>2. Cardinality(later(k)) <= Cardinality(later(j))
    BY <2>1, <1>2, FS_Subset
  <2>3. Cardinality(later(j)) < limit
    OBVIOUS
  <2> QED
    BY <1>2, <2>2, <2>3
<1>4. i \in path
  <2>1. later(i) = {}
    BY <1>1
  <2>2. Cardinality(later(i)) = 0
    BY <2>1, FS_EmptySet
  <2> QED
    BY <2>2
<1>5. top \in path /\ \A j \in path : top <= j
  <2>1. path \subseteq Nat /\ path # {}
    BY <1>1, <1>4
  <2>2. \E x \in path : \A j \in path : x <= j
    BY <2>1, FirstOfNaturals
  <2> QED
    BY <2>2 DEF Topmost
<1>6. top \in all /\ top \in EntryIds
  BY <1>1, <1>5
<1> HIDE DEF top
<1>7. ASSUME boardComments[top].parent # 0
      PROVE  path # all
  <2>1. PICK q : q = boardComments[top].parent
    OBVIOUS
  <2>2. q \in Above(i)
    BY <1>6, <1>7, <2>1, ParentAbove
  <2>3. q < top
    BY <1>6, <1>7, <2>1, <2>2, AboveOnPost DEF BoardInv, CommentsPlaced, PlaceFor
  <2>4. q \notin path
    BY <1>1, <1>5, <2>2, <2>3
  <2> QED
    BY <2>2, <2>4
<1>8. ASSUME boardComments[top].parent = 0
      PROVE  path = all
  <2>1. \A m \in {} \cup {top} : ParentIn({}, m)
    BY <1>8 DEF ParentIn
  <2>2. Above(top) \subseteq {}
    BY <2>1, AboveLeast
  <2> SUFFICES ASSUME NEW k \in all
               PROVE  k \in path
    OBVIOUS
  <2>3. k = top \/ top \in Above(k)
    BY <1>6, <2>2, AboveIsAChain
  <2>4. k \in EntryIds /\ boardComments[k].status # "none"
    BY AboveOnPost
  <2>5. k = top \/ k > top
    BY <1>1, <1>6, <2>3, <2>4, AboveOnPost
  <2> QED
    BY <1>3, <1>5, <2>5
<1> QED
  BY <1>7, <1>8 DEF GetCommentPath, top

-----------------------------------------------------------------------------
\* Nothing readable is left below a purged post, every readable comment is
\* reached from its post, and a key makes one entry, for any calls and keys.
LEMMA BoardInvImplies == BoardInv => BoardIsConsistent
<1> SUFFICES ASSUME BoardInv
             PROVE  BoardIsConsistent
  OBVIOUS
<1>1. BoardTypeOK
  <2>1. \A i \in EntryIds : boardComments[i].status \in {"none", "active", "deleted"}
    BY DEF BoardInv, BoardTyped, CommentRecord, BoardStatuses
  <2>2. ASSUME NEW i \in EntryIds
        PROVE  boardComments[i].parent < i
    <3>1. i \in Nat \ {0}
      BY BoardAssumption DEF EntryIds
    <3>2. PICK q \in EntryIds \cup {0} : q = boardComments[i].parent
      BY DEF BoardInv, BoardTyped, CommentRecord
    <3>3. q # 0 => q < i
      BY <3>2 DEF BoardInv, CommentsPlaced, PlaceFor, NoComment
    <3> QED
      BY <3>1, <3>2, <3>3
  <2>3. \A k \in BoardKeys : boardKeys[k].op \in {"none", "post", "comment"}
    BY DEF BoardInv, BoardTyped, KeyRecord
  <2>4. \A c \in BoardCalls : boardCalls[c].pc \in CallPhases
    BY DEF BoardInv, BoardTyped, CallRecord
  <2> QED
    BY <2>1, <2>2, <2>3, <2>4 DEF BoardTypeOK, BoardInv, BoardTyped, BoardStatuses, CallPhases
<1>2. \A i \in EntryIds : boardComments[i].status = "active" =>
          boardPosts[boardComments[i].post] = "active"
  BY DEF BoardInv, CommentsPlaced
<1>3. \A c, d \in BoardCalls :
          boardCalls[c].pc = "done" /\ boardCalls[d].pc = "done"
             /\ boardCalls[c].key # 0 /\ boardCalls[c].key = boardCalls[d].key
             => boardCalls[c].id = boardCalls[d].id
  BY DEF BoardInv, KeysOnce
<1> QED
  BY <1>1, <1>2, <1>3, ReachedByLevels, PathSaysCut DEF BoardIsConsistent

\* However creations, replies and purges interleave, nothing readable is left
\* below a purged post, every readable comment is reached from its post, and
\* calls with one key are given one entry (CreateComment, PurgePost,
\* PurgeComment, board/internal/store.go:120-340).
THEOREM BoardCorrect == BoardSpec => []BoardIsConsistent
  BY BoardIsInv, BoardInvImplies, PTL

-----------------------------------------------------------------------------
(* The trail of a knowledge entry                                            *)

EntryRecord == [id : {0} \cup Uploads, body : {0} \cup Uploads, tags : SUBSET Uploads,
                aliases : {0} \cup Uploads]
UploadRecord == [pc : {"idle", "checked", "write", "done"}, op : {"none", "store", "links", "map"},
                 slug : Slugs \cup {"none"}, to : Slugs \cup {"none"}, old : EntryRecord]
TextRecord == [body : Uploads, blind : BOOLEAN]

\* What the tables hold, a request carries and the history says; of a read
\* only where it stands.
KnowledgeTyped ==
    /\ entries \in [Slugs -> EntryRecord]
    /\ revisions \in [KnowledgeIds -> Seq(Uploads)]
    /\ links \in [KnowledgeIds -> SUBSET Slugs]
    /\ mapped \in SUBSET Slugs
    /\ uploads \in [Uploads -> UploadRecord]
    /\ written \in [KnowledgeIds -> Seq(TextRecord)]
    /\ DOMAIN reads = Readers
    /\ \A r \in Readers : "pc" \in DOMAIN reads[r] /\ reads[r].pc \in {"idle", "revision"}

\* An id is on one row, and only on one an upload has stored.
IdsOnce ==
    /\ \A s, t \in Slugs : entries[s].id = entries[t].id /\ entries[s].id # 0 => s = t
    /\ \A s \in Slugs : entries[s].id # 0 => uploads[entries[s].id].pc = "done"
    /\ \A s \in Slugs : entries[s].id = 0 => entries[s] = NoEntry
    /\ \A i \in KnowledgeIds :
          (\A s \in Slugs : entries[s].id # i) => revisions[i] = <<>> /\ written[i] = <<>>

\* The row an upload has locked stays as it was found until it commits.
LockedRowsStay ==
    /\ \A u \in Uploads :
          /\ uploads[u].pc = "write" => uploads[u].op = "store" /\ uploads[u].slug \in Slugs
          /\ uploads[u].pc = "checked" => uploads[u].op # "store" /\ uploads[u].slug \in Slugs
                                          /\ uploads[u].to \in Slugs
          /\ uploads[u].pc = "write" /\ uploads[u].old.id # 0 =>
                entries[uploads[u].slug] = uploads[u].old
    /\ \A u, v \in Uploads :
          /\ uploads[u].pc = "write" /\ uploads[v].pc = "write"
          /\ uploads[u].slug = uploads[v].slug
          /\ uploads[u].old.id # 0 /\ uploads[v].old.id # 0
          => u = v

\* A row says what was stored last; tags of another text are left by an
\* upload that had found no row.
RowSaysLast ==
    \A s \in Slugs :
        LET log == written[entries[s].id] IN
        entries[s].id # 0 =>
           /\ Len(log) > 0 /\ log[Len(log)].body = entries[s].body
           /\ entries[s].body \in entries[s].tags
           /\ entries[s].tags # {entries[s].body} => Len(log) > 1 /\ log[Len(log)].blind

KnowledgeInv ==
    /\ KnowledgeTyped /\ IdsOnce /\ LockedRowsStay /\ RowSaysLast
    /\ \A i \in KnowledgeIds : Trail(written[i], revisions[i])
    /\ \A s \in mapped : EntryExists(s)

-----------------------------------------------------------------------------
(* A trail grows with the log                                                *)

LEMMA SupersededFinite ==
  ASSUME NEW log \in Seq(TextRecord)
  PROVE  /\ IsFiniteSet(Superseded(log)) /\ Cardinality(Superseded(log)) \in Nat
         /\ \A n \in Superseded(log) :
               {m \in Superseded(log) : m <= n} \subseteq Superseded(log)
               /\ Cardinality({m \in Superseded(log) : m <= n}) \in 1..Cardinality(Superseded(log))
<1>1. IsFiniteSet(1..(Len(log) - 1))
  BY FS_Interval
<1>2. IsFiniteSet(Superseded(log)) /\ Cardinality(Superseded(log)) \in Nat
  BY <1>1, FS_Subset, FS_CardinalityType DEF Superseded
<1>3. ASSUME NEW n \in Superseded(log)
      PROVE  Cardinality({m \in Superseded(log) : m <= n}) \in 1..Cardinality(Superseded(log))
  <2> DEFINE P == {m \in Superseded(log) : m <= n}
  <2>1. IsFiniteSet(P) /\ Cardinality(P) \in Nat /\ Cardinality(P) <= Cardinality(Superseded(log))
    BY <1>2, FS_Subset, FS_CardinalityType
  <2>2. n \in P
    BY DEF Superseded
  <2>3. Cardinality(P) # 0
    BY <2>1, <2>2, FS_EmptySet
  <2> QED
    BY <1>2, <2>1, <2>3
<1> QED
  BY <1>2, <1>3

\* A text that comes first, or over one nobody had seen, leaves the trail.
LEMMA TrailStays ==
  ASSUME NEW log \in Seq(TextRecord), NEW revs, Trail(log, revs), NEW e \in TextRecord,
         log = <<>> \/ e.blind
  PROVE  Trail(Append(log, e), revs)
<1> DEFINE new == Append(log, e)
<1>1. Len(new) = Len(log) + 1 /\ Len(log) \in Nat /\ \A n \in 1..Len(log) : new[n] = log[n]
  OBVIOUS
<1>2. new[Len(log) + 1] = e
  OBVIOUS
<1>3. Superseded(new) = Superseded(log)
  <2>1. CASE Len(log) = 0
    BY <1>1, <2>1 DEF Superseded
  <2>2. CASE Len(log) # 0
    <3>1. e.blind
      BY <2>2
    <3>2. \A n \in 1..Len(log) : ~new[n + 1].blind => n # Len(log)
      BY <1>2, <3>1
    <3>3. \A n \in 1..(Len(log) - 1) : new[n + 1] = log[n + 1]
      BY <1>1
    <3> HIDE DEF new
    <3> QED
      BY <1>1, <3>2, <3>3 DEF Superseded
  <2> QED
    BY <2>1, <2>2
<1>4. \A n \in Superseded(log) : new[n] = log[n]
  BY <1>1 DEF Superseded
<1> HIDE DEF new
<1>5. Trail(new, revs)
  BY <1>3, <1>4 DEF Trail
<1> QED
  BY <1>5 DEF new

\* A text that was seen becomes the next revision.
LEMMA TrailGrows ==
  ASSUME NEW log \in Seq(TextRecord), NEW revs \in Seq(Uploads), Trail(log, revs),
         NEW e \in TextRecord, Len(log) > 0, ~e.blind
  PROVE  Trail(Append(log, e), Append(revs, log[Len(log)].body))
<1> DEFINE new == Append(log, e)
           l == Len(log)
           more == Append(revs, log[l].body)
           old == Superseded(log)
<1>1. Len(new) = l + 1 /\ l \in Nat \ {0} /\ \A n \in 1..l : new[n] = log[n]
  OBVIOUS
<1>2. new[l + 1] = e
  OBVIOUS
<1>3. Superseded(new) = old \cup {l} /\ l \notin old /\ \A m \in old : m \in Nat /\ m < l
  <2>1. \A n \in 1..(l - 1) : new[n + 1] = log[n + 1]
    BY <1>1
  <2>2. \A m \in old : m \in 1..(l - 1) /\ ~log[m + 1].blind
    BY DEF Superseded
  <2> HIDE DEF new, l
  <2>3. \A n \in 1..l : n \in Superseded(new) <=> n = l \/ n \in old
    BY <1>1, <1>2, <2>1 DEF Superseded, l
  <2>4. Superseded(new) \subseteq 1..l
    BY <1>1 DEF Superseded
  <2> QED
    BY <1>1, <2>2, <2>3, <2>4
<1>4. IsFiniteSet(old) /\ Cardinality(old) \in Nat
      /\ Cardinality(Superseded(new)) = Cardinality(old) + 1
  BY <1>3, SupersededFinite, FS_AddElement
<1>5. Len(more) = Cardinality(old) + 1 /\ more[Cardinality(old) + 1] = log[l].body
      /\ \A k \in 1..Cardinality(old) : more[k] = revs[k]
  BY DEF Trail
<1>6. ASSUME NEW n \in old
      PROVE  more[Cardinality({m \in Superseded(new) : m <= n})] = new[n].body
  <2>1. {m \in Superseded(new) : m <= n} = {m \in old : m <= n}
    BY <1>1, <1>3
  <2>2. Cardinality({m \in old : m <= n}) \in 1..Cardinality(old)
    BY SupersededFinite
  <2>3. revs[Cardinality({m \in old : m <= n})] = log[n].body
    BY DEF Trail
  <2>4. n \in 1..l
    BY DEF Superseded
  <2>5. new[n] = log[n]
    BY <1>1, <2>4
  <2> HIDE DEF new, more, old
  <2> QED
    BY <1>5, <2>1, <2>2, <2>3, <2>5
<1>7. more[Cardinality({m \in Superseded(new) : m <= l})] = new[l].body
  <2>1. {m \in Superseded(new) : m <= l} = Superseded(new)
    BY <1>1, <1>3
  <2>2. new[l] = log[l]
    BY <1>1
  <2> HIDE DEF new, more, old, l
  <2> QED
    BY <1>4, <1>5, <2>1, <2>2
<1> HIDE DEF new, more, old
<1>8. Trail(new, more)
  BY <1>3, <1>4, <1>5, <1>6, <1>7 DEF Trail
<1> QED
  BY <1>8 DEF new, more

LEMMA TrailOfNothing == Trail(<<>>, <<>>)
<1>1. Superseded(<<>>) = {}
  BY DEF Superseded
<1> QED
  BY <1>1, FS_EmptySet DEF Trail

-----------------------------------------------------------------------------
(* Each request preserves the invariant                                      *)

LEMMA KnowledgeInitInv == KnowledgeInit => KnowledgeInv
<1> SUFFICES ASSUME KnowledgeInit
             PROVE  KnowledgeInv
  OBVIOUS
<1>1. KnowledgeTyped
  BY DEF KnowledgeInit, KnowledgeTyped, EntryRecord, UploadRecord, TextRecord, KnowledgeIds,
     NoEntry, NoUpload, NoRead
<1>2. IdsOnce /\ LockedRowsStay /\ RowSaysLast
  BY DEF KnowledgeInit, IdsOnce, LockedRowsStay, RowSaysLast, NoEntry, NoUpload, KnowledgeIds
<1>3. \A i \in KnowledgeIds : Trail(written[i], revisions[i])
  BY TrailOfNothing DEF KnowledgeInit
<1>4. \A s \in mapped : EntryExists(s)
  BY DEF KnowledgeInit
<1> QED
  BY <1>1, <1>2, <1>3, <1>4 DEF KnowledgeInv

LEMMA UploadEnds ==
  ASSUME KnowledgeTyped, NEW u \in Uploads, UploadTo(u, "done")
  PROVE  /\ uploads' \in [Uploads -> UploadRecord]
         /\ uploads'[u].pc = "done"
         /\ \A v \in Uploads \ {u} : uploads'[v] = uploads[v]
<1>1. [uploads[u] EXCEPT !.pc = "done"] \in UploadRecord
  BY DEF KnowledgeTyped, UploadRecord
<1> QED
  BY <1>1 DEF KnowledgeTyped, UploadTo, UploadRecord

LEMMA ReadersShown ==
  ASSUME KnowledgeTyped, NEW now, ShowReaders(now)
  PROVE  /\ DOMAIN reads' = Readers
         /\ \A r \in Readers : "pc" \in DOMAIN reads'[r] /\ reads'[r].pc \in {"idle", "revision"}
  BY DEF KnowledgeTyped, ShowReaders

\* A row that is found is locked: nobody else has it.
LEMMA SelectForUpdateInv ==
  ASSUME KnowledgeInv, NEW u \in Uploads, NEW t \in Slugs, SelectForUpdate(u, t)
  PROVE  KnowledgeInv'
<1>1. KnowledgeTyped'
  BY DEF SelectForUpdate, UploadStarts, LockedRow, KnowledgeInv, KnowledgeTyped, EntryRecord,
     UploadRecord, TextRecord, KnowledgeIds, NoUpload, NoEntry
<1>2. IdsOnce'
  BY DEF SelectForUpdate, UploadStarts, LockedRow, KnowledgeInv, KnowledgeTyped, EntryRecord,
     UploadRecord, TextRecord, KnowledgeIds, IdsOnce, NoUpload
<1>3. LockedRowsStay'
  BY DEF SelectForUpdate, UploadStarts, LockedRow, KnowledgeInv, KnowledgeTyped, EntryRecord,
     UploadRecord, TextRecord, KnowledgeIds, LockedRowsStay, NoUpload
<1>4. RowSaysLast'
  BY DEF SelectForUpdate, UploadStarts, LockedRow, KnowledgeInv, RowSaysLast
<1>5. (\A i \in KnowledgeIds : Trail(written[i], revisions[i]))'
  BY DEF SelectForUpdate, UploadStarts, LockedRow, KnowledgeInv
<1>6. (\A s \in mapped : EntryExists(s))'
  BY DEF SelectForUpdate, UploadStarts, LockedRow, KnowledgeInv, EntryExists
<1> QED
  BY <1>1, <1>2, <1>3, <1>4, <1>5, <1>6 DEF KnowledgeInv

\* Targets are looked up before the transaction.
LEMMA CheckTargetsInv ==
  ASSUME KnowledgeInv, NEW u \in Uploads, NEW p \in Slugs, NEW t \in Slugs,
         NEW op \in {"links", "map"}, CheckTargets(u, op, p, t)
  PROVE  KnowledgeInv'
<1>1. KnowledgeTyped'
  BY DEF CheckTargets, UploadStarts, KnowledgeInv, KnowledgeTyped, EntryRecord, UploadRecord,
     TextRecord, KnowledgeIds, NoUpload, NoEntry
<1>2. IdsOnce'
  BY DEF CheckTargets, UploadStarts, KnowledgeInv, KnowledgeTyped, EntryRecord, UploadRecord,
     TextRecord, KnowledgeIds, IdsOnce, NoUpload
<1>3. LockedRowsStay'
  BY DEF CheckTargets, UploadStarts, KnowledgeInv, KnowledgeTyped, EntryRecord, UploadRecord,
     TextRecord, KnowledgeIds, LockedRowsStay, NoUpload
<1>4. RowSaysLast'
  BY DEF CheckTargets, UploadStarts, KnowledgeInv, RowSaysLast
<1>5. (\A i \in KnowledgeIds : Trail(written[i], revisions[i]))'
  BY DEF CheckTargets, UploadStarts, KnowledgeInv
<1>6. (\A s \in mapped : EntryExists(s))'
  BY DEF CheckTargets, UploadStarts, KnowledgeInv, EntryExists
<1> QED
  BY <1>1, <1>2, <1>3, <1>4, <1>5, <1>6 DEF KnowledgeInv

\* Links change no row.
LEMMA ReplaceLinksInv ==
  ASSUME KnowledgeInv, NEW u \in Uploads, ReplaceLinks(u)
  PROVE  KnowledgeInv'
<1>1. KnowledgeTyped'
  <2>1. KnowledgeTyped /\ uploads' \in [Uploads -> UploadRecord]
    BY UploadEnds DEF ReplaceLinks, KnowledgeInv
  <2>2. links' \in [KnowledgeIds -> SUBSET Slugs]
    BY <2>1 DEF ReplaceLinks, KnowledgeInv, LockedRowsStay, KnowledgeTyped, UploadRecord
  <2> QED
    BY <2>1, <2>2 DEF ReplaceLinks, KnowledgeTyped
<1>2. IdsOnce'
  BY DEF ReplaceLinks, UploadTo, KnowledgeInv, KnowledgeTyped, EntryRecord, UploadRecord,
     TextRecord, KnowledgeIds, IdsOnce, NoUpload
<1>3. LockedRowsStay'
  BY DEF ReplaceLinks, UploadTo, KnowledgeInv, KnowledgeTyped, EntryRecord, UploadRecord,
     TextRecord, KnowledgeIds, LockedRowsStay, NoUpload
<1>4. RowSaysLast'
  BY DEF ReplaceLinks, UploadTo, KnowledgeInv, RowSaysLast
<1>5. (\A i \in KnowledgeIds : Trail(written[i], revisions[i]))'
  BY DEF ReplaceLinks, UploadTo, KnowledgeInv
<1>6. (\A s \in mapped : EntryExists(s))'
  BY DEF ReplaceLinks, UploadTo, KnowledgeInv, EntryExists
<1> QED
  BY <1>1, <1>2, <1>3, <1>4, <1>5, <1>6 DEF KnowledgeInv

\* A map names what is there when it is stored.
LEMMA StoreMapInv ==
  ASSUME KnowledgeInv, NEW u \in Uploads, StoreMap(u)
  PROVE  KnowledgeInv'
<1>1. KnowledgeTyped'
  <2>1. KnowledgeTyped /\ uploads' \in [Uploads -> UploadRecord]
    BY UploadEnds DEF StoreMap, KnowledgeInv
  <2>2. mapped' \in SUBSET Slugs
    BY <2>1 DEF StoreMap, KnowledgeInv, LockedRowsStay, KnowledgeTyped
  <2> QED
    BY <2>1, <2>2 DEF StoreMap, KnowledgeTyped
<1>2. IdsOnce'
  BY DEF StoreMap, UploadTo, EntryExists, KnowledgeInv, KnowledgeTyped, EntryRecord,
     UploadRecord, TextRecord, KnowledgeIds, IdsOnce, NoUpload
<1>3. LockedRowsStay'
  BY DEF StoreMap, UploadTo, EntryExists, KnowledgeInv, KnowledgeTyped, EntryRecord,
     UploadRecord, TextRecord, KnowledgeIds, LockedRowsStay, NoUpload
<1>4. RowSaysLast'
  BY DEF StoreMap, UploadTo, EntryExists, KnowledgeInv, RowSaysLast
<1>5. (\A i \in KnowledgeIds : Trail(written[i], revisions[i]))'
  BY DEF StoreMap, UploadTo, EntryExists, KnowledgeInv
<1>6. (\A s \in mapped : EntryExists(s))'
  BY DEF StoreMap, UploadTo, EntryExists, KnowledgeInv, EntryExists
<1> QED
  BY <1>1, <1>2, <1>3, <1>4, <1>5, <1>6 DEF KnowledgeInv

\* A reader writes nothing.
LEMMA GetEntryInv ==
  ASSUME KnowledgeInv, NEW r \in Readers, NEW t \in Slugs, GetEntry(r, t)
  PROVE  KnowledgeInv'
<1>1. KnowledgeTyped'
  BY DEF GetEntry, KnowledgeInv, KnowledgeTyped, EntryRecord, UploadRecord, TextRecord,
     KnowledgeIds, NoUpload, NoEntry
<1>2. IdsOnce'
  BY DEF GetEntry, KnowledgeInv, KnowledgeTyped, EntryRecord, UploadRecord, TextRecord,
     KnowledgeIds, IdsOnce, NoUpload
<1>3. LockedRowsStay'
  BY DEF GetEntry, KnowledgeInv, KnowledgeTyped, EntryRecord, UploadRecord, TextRecord,
     KnowledgeIds, LockedRowsStay, NoUpload
<1>4. RowSaysLast'
  BY DEF GetEntry, KnowledgeInv, RowSaysLast
<1>5. (\A i \in KnowledgeIds : Trail(written[i], revisions[i]))'
  BY DEF GetEntry, KnowledgeInv
<1>6. (\A s \in mapped : EntryExists(s))'
  BY DEF GetEntry, KnowledgeInv, EntryExists
<1> QED
  BY <1>1, <1>2, <1>3, <1>4, <1>5, <1>6 DEF KnowledgeInv

\* Nor does its second statement.
LEMMA ReadEntryInv ==
  ASSUME KnowledgeInv, NEW r \in Readers, ReadEntry(r)
  PROVE  KnowledgeInv'
<1>1. KnowledgeTyped'
  BY DEF ReadEntry, KnowledgeInv, KnowledgeTyped, EntryRecord, UploadRecord, TextRecord,
     KnowledgeIds, NoUpload, NoEntry
<1>2. IdsOnce'
  BY DEF ReadEntry, KnowledgeInv, KnowledgeTyped, EntryRecord, UploadRecord, TextRecord,
     KnowledgeIds, IdsOnce, NoUpload
<1>3. LockedRowsStay'
  BY DEF ReadEntry, KnowledgeInv, KnowledgeTyped, EntryRecord, UploadRecord, TextRecord,
     KnowledgeIds, LockedRowsStay, NoUpload
<1>4. RowSaysLast'
  BY DEF ReadEntry, KnowledgeInv, RowSaysLast
<1>5. (\A i \in KnowledgeIds : Trail(written[i], revisions[i]))'
  BY DEF ReadEntry, KnowledgeInv
<1>6. (\A s \in mapped : EntryExists(s))'
  BY DEF ReadEntry, KnowledgeInv, EntryExists
<1> QED
  BY <1>1, <1>2, <1>3, <1>4, <1>5, <1>6 DEF KnowledgeInv

\* A deletion takes the row and all that was stored under its id.
LEMMA DeleteEntryInv ==
  ASSUME KnowledgeInv, NEW u \in Uploads, NEW t \in Slugs, DeleteEntry(u, t)
  PROVE  KnowledgeInv'
<1> DEFINE id == entries[t].id
<1>1. PICK i : i = id
  OBVIOUS
<1>2. /\ KnowledgeTyped /\ UploadTo(u, "done") /\ i \in KnowledgeIds /\ i # 0
      /\ uploads[u].pc = "idle"
  BY <1>1 DEF KnowledgeInv, KnowledgeTyped, EntryRecord, KnowledgeIds, DeleteEntry, EntryExists,
              UploadStarts
<1>3. /\ entries' = [entries EXCEPT ![t] = NoEntry]
      /\ revisions' = [revisions EXCEPT ![i] = <<>>]
      /\ written' = [written EXCEPT ![i] = <<>>]
      /\ links' = [links EXCEPT ![i] = {}]
      /\ mapped' = mapped /\ t \notin mapped
  BY <1>1 DEF DeleteEntry
<1>4. /\ uploads' \in [Uploads -> UploadRecord] /\ uploads'[u].pc = "done"
      /\ \A v \in Uploads \ {u} : uploads'[v] = uploads[v]
  BY <1>2, UploadEnds
<1>5. KnowledgeTyped'
  <2>1. NoEntry \in EntryRecord
    BY DEF NoEntry, EntryRecord
  <2>2. entries' \in [Slugs -> EntryRecord] /\ revisions' \in [KnowledgeIds -> Seq(Uploads)]
        /\ written' \in [KnowledgeIds -> Seq(TextRecord)]
        /\ links' \in [KnowledgeIds -> SUBSET Slugs] /\ mapped' \in SUBSET Slugs
    BY <1>2, <1>3, <2>1 DEF KnowledgeTyped
  <2>3. /\ DOMAIN reads' = Readers
        /\ \A r \in Readers : "pc" \in DOMAIN reads'[r] /\ reads'[r].pc \in {"idle", "revision"}
    BY <1>2, ReadersShown DEF DeleteEntry
  <2> QED
    BY <1>4, <2>2, <2>3 DEF KnowledgeTyped
<1>6. /\ entries'[t] = NoEntry /\ \A s \in Slugs \ {t} : entries'[s] = entries[s]
      /\ revisions'[i] = <<>> /\ written'[i] = <<>>
      /\ \A j \in KnowledgeIds \ {i} : revisions'[j] = revisions[j] /\ written'[j] = written[j]
  BY <1>2, <1>3 DEF KnowledgeTyped
<1>7. \A s \in Slugs \ {t} : entries[s].id # i
  BY <1>1, <1>2 DEF KnowledgeInv, IdsOnce
<1>8. NoEntry.id = 0
  BY DEF NoEntry
<1>9. \A s \in Slugs : entries[s].id # 0 => entries[s].id \in KnowledgeIds
  BY <1>2 DEF KnowledgeTyped, EntryRecord, KnowledgeIds
<1>10. IdsOnce'
  <2>1. \A s \in Slugs : entries'[s].id # 0 => s # t
    BY <1>6, <1>8
  <2>2. \A s \in Slugs : entries'[s].id # 0 => uploads'[entries'[s].id].pc = "done"
    BY <1>2, <1>4, <1>6, <1>9, <2>1 DEF KnowledgeInv, IdsOnce, KnowledgeIds
  <2>3. ASSUME NEW j \in KnowledgeIds, \A s \in Slugs : entries'[s].id # j
        PROVE  revisions'[j] = <<>> /\ written'[j] = <<>>
    BY <1>1, <1>6, <2>3 DEF KnowledgeInv, IdsOnce
  <2> QED
    BY <1>6, <2>1, <2>2, <2>3 DEF KnowledgeInv, IdsOnce
<1>11. LockedRowsStay'
  <2>1. \A v \in Uploads : uploads[v].pc = "write" /\ uploads[v].old.id # 0 => uploads[v].slug # t
    BY DEF DeleteEntry, LockedRow
  <2> QED
    BY <1>2, <1>4, <1>6, <2>1 DEF KnowledgeInv, LockedRowsStay
<1>12. RowSaysLast'
  <2>1. \A s \in Slugs : entries'[s].id # 0 =>
           entries'[s] = entries[s] /\ written'[entries'[s].id] = written[entries[s].id]
    BY <1>6, <1>7, <1>8, <1>9
  <2> QED
    BY <2>1 DEF KnowledgeInv, RowSaysLast
<1>13. \A j \in KnowledgeIds : Trail(written'[j], revisions'[j])
  BY <1>6, TrailOfNothing DEF KnowledgeInv
<1>14. (\A s \in mapped : EntryExists(s))'
  BY <1>2, <1>3, <1>6 DEF KnowledgeInv, KnowledgeTyped, EntryExists
<1> QED
  BY <1>5, <1>10, <1>11, <1>12, <1>13, <1>14 DEF KnowledgeInv

\* An upload records the row it found, or stores over what it did not find.
LEMMA UpsertEntryInv ==
  ASSUME KnowledgeInv, NEW u \in Uploads, NEW supplied \in BOOLEAN, UpsertEntry(u, supplied)
  PROVE  KnowledgeInv'
<1>1. PICK p, old, row, id :
         /\ p = uploads[u].slug /\ old = uploads[u].old /\ row = entries[p]
         /\ id = IF row.id # 0 THEN row.id ELSE u
  OBVIOUS
<1>2. /\ KnowledgeTyped /\ IdsOnce /\ LockedRowsStay /\ RowSaysLast /\ UploadTo(u, "done")
      /\ uploads[u].pc = "write" /\ p \in Slugs /\ old \in EntryRecord /\ row \in EntryRecord
      /\ mapped' = mapped /\ links' = links
  BY <1>1 DEF KnowledgeInv, KnowledgeTyped, UploadRecord, LockedRowsStay, UpsertEntry
<1>3. id \in KnowledgeIds /\ id # 0
  BY <1>1, <1>2, KnowledgeAssumption DEF EntryRecord, KnowledgeIds
<1>4. old.id # 0 => row = old /\ id = old.id
  BY <1>1, <1>2 DEF LockedRowsStay
<1>5. PICK aliases \in {0} \cup Uploads : aliases = withPreserved(u, supplied, old)
  BY <1>2 DEF withPreserved, EntryRecord
<1>6. PICK new : new = [id |-> id, body |-> u, aliases |-> aliases,
                        tags |-> IF old.id # 0 THEN {u} ELSE row.tags \cup {u}]
  OBVIOUS
<1>7. PICK text : text = [body |-> u, blind |-> old.id = 0]
  OBVIOUS
<1>8. /\ entries' = [entries EXCEPT ![p] = new]
      /\ written' = [written EXCEPT ![id] = Append(@, text)]
      /\ revisions' = IF old.id # 0 THEN [revisions EXCEPT ![id] = Append(@, old.body)]
                      ELSE revisions
  BY <1>1, <1>4, <1>5, <1>6, <1>7 DEF UpsertEntry, insertRevision
<1>9. /\ uploads' \in [Uploads -> UploadRecord] /\ uploads'[u].pc = "done"
      /\ \A v \in Uploads \ {u} : uploads'[v] = uploads[v]
  BY <1>2, UploadEnds
<1>10. new \in EntryRecord /\ text \in TextRecord
  BY <1>2, <1>3, <1>6, <1>7 DEF EntryRecord, TextRecord, KnowledgeIds
<1>11. \A s \in Slugs \ {p} : entries[s].id # id
  <2>1. row.id = 0 => \A s \in Slugs : entries[s].id # u
    <3>1. u # 0
      BY KnowledgeAssumption
    <3> QED
      BY <1>2, <3>1 DEF IdsOnce
  <2> QED
    BY <1>1, <1>2, <1>3, <2>1 DEF IdsOnce
<1>12. row.id = 0 => written[id] = <<>> /\ revisions[id] = <<>> /\ row = NoEntry
  BY <1>1, <1>2, <1>3, <1>11 DEF IdsOnce
<1>13. row.id # 0 => /\ Len(written[id]) > 0 /\ written[id][Len(written[id])].body = row.body
                     /\ row.body \in Uploads
  BY <1>1, <1>2 DEF RowSaysLast, EntryRecord
<1>14. /\ entries'[p] = new /\ \A s \in Slugs \ {p} : entries'[s] = entries[s]
       /\ written'[id] = Append(written[id], text)
       /\ \A j \in KnowledgeIds \ {id} : written'[j] = written[j] /\ revisions'[j] = revisions[j]
  BY <1>2, <1>3, <1>8 DEF KnowledgeTyped
<1>15. written[id] \in Seq(TextRecord) /\ revisions[id] \in Seq(Uploads)
  BY <1>2, <1>3 DEF KnowledgeTyped
<1>16. KnowledgeTyped'
  <2>1. entries' \in [Slugs -> EntryRecord]
    BY <1>2, <1>8, <1>10 DEF KnowledgeTyped
  <2>2. written' \in [KnowledgeIds -> Seq(TextRecord)]
    <3>1. Append(written[id], text) \in Seq(TextRecord)
      BY <1>10, <1>15, AppendProperties
    <3> QED
      BY <1>2, <1>8, <3>1 DEF KnowledgeTyped
  <2>3. revisions' \in [KnowledgeIds -> Seq(Uploads)]
    <3>1. old.id # 0 => Append(revisions[id], old.body) \in Seq(Uploads)
      BY <1>4, <1>13, <1>15, AppendProperties
    <3> QED
      BY <1>2, <1>8, <3>1 DEF KnowledgeTyped
  <2>4. /\ DOMAIN reads' = Readers
        /\ \A r \in Readers : "pc" \in DOMAIN reads'[r] /\ reads'[r].pc \in {"idle", "revision"}
    BY <1>2, ReadersShown DEF UpsertEntry
  <2> QED
    BY <1>2, <1>9, <2>1, <2>2, <2>3, <2>4 DEF KnowledgeTyped
<1>17. \A s \in Slugs : entries[s].id # 0 => entries[s].id \in KnowledgeIds
  BY <1>2 DEF KnowledgeTyped, EntryRecord, KnowledgeIds
<1>18. new.id = id /\ new.body = u /\ (id = u \/ uploads[id].pc = "done")
  BY <1>1, <1>2, <1>6 DEF IdsOnce
<1>19. IdsOnce'
  <2>1. \A s \in Slugs : entries'[s].id # 0 => uploads'[entries'[s].id].pc = "done"
    BY <1>2, <1>9, <1>14, <1>17, <1>18, <1>3 DEF IdsOnce, KnowledgeIds
  <2>2. \A s, t \in Slugs : entries'[s].id = entries'[t].id /\ entries'[s].id # 0 => s = t
    BY <1>2, <1>11, <1>14, <1>18 DEF IdsOnce
  <2>3. ASSUME NEW j \in KnowledgeIds, \A s \in Slugs : entries'[s].id # j
        PROVE  revisions'[j] = <<>> /\ written'[j] = <<>>
    <3>1. j # id
      BY <1>2, <1>14, <1>18, <2>3
    <3>2. \A s \in Slugs \ {p} : entries[s].id # j
      BY <1>14, <2>3
    <3>3. entries[p].id # j
      BY <1>1, <1>3, <3>1, KnowledgeAssumption DEF KnowledgeIds
    <3> QED
      BY <1>2, <1>14, <3>1, <3>2, <3>3 DEF IdsOnce
  <2>4. \A s \in Slugs : entries'[s].id = 0 => entries'[s] = NoEntry
    BY <1>2, <1>3, <1>14, <1>18 DEF IdsOnce
  <2> QED
    BY <2>1, <2>2, <2>3, <2>4 DEF IdsOnce
<1>20. LockedRowsStay'
  <2>1. \A v \in Uploads \ {u} :
           uploads[v].pc = "write" /\ uploads[v].old.id # 0 => uploads[v].slug # p
    BY <1>1, <1>2 DEF UpsertEntry, LockedRow, LockedRowsStay
  <2> QED
    BY <1>2, <1>9, <1>14, <2>1 DEF LockedRowsStay
<1>21. RowSaysLast'
  <2>1. \A s \in Slugs \ {p} : entries'[s].id # 0 =>
           entries'[s] = entries[s] /\ written'[entries'[s].id] = written[entries[s].id]
    BY <1>11, <1>14, <1>17
  <2>2. PICK log : log = written'[id]
    OBVIOUS
  <2>3. Len(log) = Len(written[id]) + 1 /\ log[Len(log)] = text /\ Len(written[id]) \in Nat
    BY <1>10, <1>14, <1>15, <2>2
  <2>4. Len(log) > 0 /\ log[Len(log)].body = new.body /\ new.body \in new.tags
    BY <1>6, <1>7, <2>3
  <2>5. new.tags # {new.body} => Len(log) > 1 /\ log[Len(log)].blind
    <3>1. CASE old.id # 0
      BY <1>6, <3>1
    <3>2. CASE old.id = 0 /\ row.id # 0
      <4>1. log[Len(log)].blind
        <5>1. text.blind
          BY <1>7, <3>2, Zenon
        <5> QED
          BY <2>3, <5>1, Zenon
      <4>2. Len(log) > 1
        BY <1>13, <2>3, <3>2
      <4> QED
        BY <4>1, <4>2
    <3>3. CASE old.id = 0 /\ row.id = 0
      <4>1. row.tags = {}
        BY <1>12, <3>3 DEF NoEntry
      <4> QED
        BY <1>6, <3>3, <4>1
    <3> QED
      BY <3>1, <3>2, <3>3
  <2> QED
    BY <1>2, <1>14, <1>18, <2>1, <2>2, <2>4, <2>5 DEF RowSaysLast
<1>22. \A j \in KnowledgeIds : Trail(written'[j], revisions'[j])
  <2>1. Trail(written[id], revisions[id])
    BY <1>3 DEF KnowledgeInv
  <2>2. CASE old.id # 0
    <3>1. revisions'[id] = Append(revisions[id], old.body)
      BY <1>2, <1>3, <1>8, <2>2 DEF KnowledgeTyped
    <3>2. row.id # 0 /\ row.body = old.body
      BY <1>4, <2>2
    <3>3. ~text.blind
      BY <1>7, <2>2
    <3>4. Trail(Append(written[id], text),
                Append(revisions[id], written[id][Len(written[id])].body))
      BY <1>10, <1>13, <1>15, <2>1, <3>2, <3>3, TrailGrows
    <3>5. Trail(written'[id], revisions'[id])
      BY <1>13, <1>14, <3>1, <3>2, <3>4
    <3> QED
      BY <1>14, <3>5 DEF KnowledgeInv
  <2>3. CASE old.id = 0
    <3>1. revisions'[id] = revisions[id]
      BY <1>8, <2>3
    <3>2. Trail(Append(written[id], text), revisions[id])
      BY <1>7, <1>10, <1>15, <2>1, <2>3, TrailStays
    <3> QED
      BY <1>14, <3>1, <3>2 DEF KnowledgeInv
  <2> QED
    BY <2>2, <2>3
<1>23. (\A s \in mapped : EntryExists(s))'
  BY <1>2, <1>3, <1>14, <1>18 DEF KnowledgeInv, KnowledgeTyped, EntryExists
<1> QED
  BY <1>16, <1>19, <1>20, <1>21, <1>22, <1>23 DEF KnowledgeInv

LEMMA KnowledgeStutters ==
  ASSUME KnowledgeInv, UNCHANGED knowledgeVars
  PROVE  KnowledgeInv'
  BY DEF KnowledgeInv, knowledgeVars, KnowledgeTyped, IdsOnce, LockedRowsStay, RowSaysLast,
     EntryExists

LEMMA KnowledgeNextInv == KnowledgeInv /\ [KnowledgeNext]_knowledgeVars => KnowledgeInv'
  BY SelectForUpdateInv, DeleteEntryInv, CheckTargetsInv, UpsertEntryInv, ReplaceLinksInv,
     StoreMapInv, GetEntryInv, ReadEntryInv, KnowledgeStutters DEF KnowledgeNext

\* The revisions of an entry are the texts it had, each once and in order, and
\* a map names what is there, for any slugs and uploads.
THEOREM TrailCorrect == KnowledgeSpec => []TrailIsComplete
<1>1. KnowledgeInv => TrailIsComplete
  <2> SUFFICES ASSUME KnowledgeInv
               PROVE  TrailIsComplete
    OBVIOUS
  <2>1. KnowledgeTypeOK
    BY DEF KnowledgeInv, KnowledgeTyped, EntryRecord, UploadRecord, KnowledgeTypeOK, KnowledgeIds
  <2>2. \A s \in Slugs :
          LET log == written[entries[s].id] IN
          EntryExists(s) =>
             /\ entries[s].body \in entries[s].tags
             /\ entries[s].tags # {entries[s].body} => Len(log) > 1 /\ log[Len(log)].blind
    BY DEF KnowledgeInv, RowSaysLast, EntryExists
  <2> QED
    BY <2>1, <2>2 DEF KnowledgeInv, TrailIsComplete
<1> QED
  BY KnowledgeInitInv, KnowledgeNextInv, <1>1, PTL DEF KnowledgeSpec

=============================================================================
