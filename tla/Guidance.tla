------------------------------ MODULE Guidance ------------------------------
(***************************************************************************)
(* The guidance service (guidance/internal): bindings of knowledge to      *)
(* scopes, guidance entries that name documents, and what is resolved from *)
(* them for one agent: the bindings with their order, shadowing, cap and   *)
(* inline budget, and the packet of documents with its byte budget.        *)
(*                                                                         *)
(* Writes are one statement each after the checks; a binding never changes *)
(* its target.  Targets and documents change in other services.            *)
(***************************************************************************)
EXTENDS Integers, Sequences, FiniteSets, FiniteSetsExt

CONSTANTS
    BindingIds,     \* ids, in the order they are drawn
    MaxResolved,    \* MaxResolvedBindings
    InlineBudget,   \* the inline budget of the request, in summaries
    PacketBytes,    \* room in the packet
    MaxEdits        \* bound: changes

VARIABLES
    bindings,   \* den_guidance.knowledge_bindings by id
    guides,     \* den_guidance.agent_guidance_entries by document
    targets,    \* what the knowledge service says of each target
    papers,     \* what the documents service says of each document
    edits       \* changes so far

guidanceVars == <<bindings, guides, targets, papers, edits>>

-----------------------------------------------------------------------------

Targets == {1, 2}
Papers == {1, 2}

NoBinding == [target |-> 0, scope |-> "none", policy |-> "none", shadows |-> FALSE]

\* NewKnowledgeBinding and validateBindingScope: a global binding shadows
\* nothing.
NewKnowledgeBinding ==
    {[target |-> t, scope |-> s, policy |-> p, shadows |-> sh] :
        t \in Targets, s \in {"task", "project", "global"},
        p \in {"must_read", "inline", "on_demand"}, sh \in BOOLEAN}
      \ {[target |-> t, scope |-> "global", policy |-> p, shadows |-> TRUE] :
            t \in Targets, p \in {"must_read", "inline", "on_demand"}}

NoGuide == [importance |-> "none", size |-> 0]

\* NewEntry: a section takes the document's size.
NewEntry == {[importance |-> i, size |-> n] : i \in {"required", "optional"}, n \in 1..PacketBytes}

GuidanceTypeOK ==
    /\ bindings \in [BindingIds -> NewKnowledgeBinding \cup {NoBinding}]
    /\ guides \in [Papers -> NewEntry \cup {NoGuide}]
    /\ targets \in [Targets -> {"active", "archived", "missing"}]
    /\ papers \in [Papers -> {"normal", "archived"}]

GuidanceInit ==
    /\ bindings = [i \in BindingIds |-> NoBinding]
    /\ guides = [d \in Papers |-> NoGuide]
    /\ targets = [t \in Targets |-> "active"]
    /\ papers = [d \in Papers |-> "normal"]
    /\ edits = 0

-----------------------------------------------------------------------------
(* Writes                                                                    *)

Edit == edits < MaxEdits /\ edits' = edits + 1

Taken(i, b) == \E j \in BindingIds \ {i} : bindings[j].target = b.target /\ bindings[j].scope = b.scope

\* The target is there, the scope may be written, and no binding of the target
\* in that scope exists.
CreateKnowledgeBinding(i, b) ==
    /\ Edit
    /\ bindings[i] = NoBinding /\ \A j \in BindingIds : j < i => bindings[j] # NoBinding
    /\ targets[b.target] # "missing"
    /\ ~Taken(i, b)
    /\ bindings' = [bindings EXCEPT ![i] = b]
    /\ UNCHANGED <<guides, targets, papers>>

\* Everything but the target is replaced; the target may be gone.
UpdateKnowledgeBinding(i, b) ==
    /\ Edit
    /\ bindings[i] # NoBinding /\ b.target = bindings[i].target /\ b # bindings[i]
    /\ ~Taken(i, b)
    /\ bindings' = [bindings EXCEPT ![i] = b]
    /\ UNCHANGED <<guides, targets, papers>>

DeleteKnowledgeBinding(i) ==
    /\ Edit
    /\ bindings[i] # NoBinding
    /\ bindings' = [bindings EXCEPT ![i] = NoBinding]
    /\ UNCHANGED <<guides, targets, papers>>

\* AddEntry, an upsert: the document is visible.
AddEntry(d, g) ==
    /\ Edit
    /\ papers[d] = "normal" /\ g # guides[d]
    /\ guides' = [guides EXCEPT ![d] = g]
    /\ UNCHANGED <<bindings, targets, papers>>

DeleteEntry(d) ==
    /\ Edit
    /\ guides[d] # NoGuide
    /\ guides' = [guides EXCEPT ![d] = NoGuide]
    /\ UNCHANGED <<bindings, targets, papers>>

\* The knowledge and documents services archive and delete what is named here.
TargetChanges(t, s) ==
    /\ Edit
    /\ targets[t] = "active"
    /\ targets' = [targets EXCEPT ![t] = s]
    /\ UNCHANGED <<bindings, guides, papers>>

PaperArchived(d) ==
    /\ Edit
    /\ papers[d] = "normal"
    /\ papers' = [papers EXCEPT ![d] = "archived"]
    /\ UNCHANGED <<bindings, guides, targets>>

-----------------------------------------------------------------------------
(* Resolution                                                                *)

scopeSpecificity(s) == CASE s = "task" -> 5 [] s = "project" -> 2 [] OTHER -> 1

readPolicyRank(p) == CASE p = "must_read" -> 0 [] p = "inline" -> 1 [] OTHER -> 2

\* Items are bindings with their id, and guidance entries in the same form.
Before(a, b) ==
    IF scopeSpecificity(a.scope) # scopeSpecificity(b.scope)
    THEN scopeSpecificity(a.scope) > scopeSpecificity(b.scope)
    ELSE IF readPolicyRank(a.policy) # readPolicyRank(b.policy)
    THEN readPolicyRank(a.policy) < readPolicyRank(b.policy)
    ELSE IF a.target # b.target THEN a.target < b.target ELSE a.id < b.id

sortBindings(S) ==
    [n \in 1..Cardinality(S) |->
        CHOOSE b \in S : Cardinality({c \in S : Before(c, b)}) = n - 1]

Items == {[id |-> i, target |-> bindings[i].target, scope |-> bindings[i].scope,
           policy |-> bindings[i].policy, shadows |-> bindings[i].shadows] :
              i \in {j \in BindingIds : bindings[j] # NoBinding}}

globalShadowedTargets(S) ==
    {b.target : b \in {c \in S : c.shadows}} \cap {b.target : b \in {c \in S : c.scope = "global"}}

Chosen(s) == {s[n] : n \in DOMAIN s}

\* Mutant: what comes first in the order fills the response.
capInOrder(items, limit) == Chosen(SubSeq(items, 1, IF Len(items) < limit THEN Len(items) ELSE limit))

\* capApplicableBindings and capResolvedBindings: the first ones; then every
\* later item that must be read takes the place of the last that need not.
capApplicableBindings(items, limit) ==
    LET late == SelectSeq(SubSeq(items, limit + 1, Len(items)), LAMBDA b : b.policy = "must_read")
        Replace[k \in 0..Len(late)] ==
            IF k = 0 THEN SubSeq(items, 1, limit)
            ELSE LET sel == Replace[k - 1]
                     free == {n \in 1..limit : sel[n].policy # "must_read"}
                 IN  IF free = {} THEN sel ELSE [sel EXCEPT ![Max(free)] = late[k]]
    IN  IF Len(items) <= limit THEN Chosen(items) ELSE Chosen(Replace[Len(late)])

\* ResolveKnowledgeBindings: shadowing sees every applicable binding, the cap
\* comes after it; a target that is gone or archived is excluded by name; the
\* inline budget is spent in order (a summary costs one).
ResolveKnowledgeBindings ==
    LET kept == capApplicableBindings(sortBindings(Items), MaxResolved)
        hidden == {b \in kept : b.scope = "global" /\ b.target \in globalShadowedTargets(Items)}
        gone == {b \in kept \ hidden : targets[b.target] # "active"}
        inline == {b \in kept \ (hidden \cup gone) : b.policy = "inline"}
    IN  [selections |-> kept \ (hidden \cup gone), excluded |-> hidden \cup gone,
         inline |-> {b \in inline : Cardinality({c \in inline : Before(c, b)}) < InlineBudget},
         truncated |-> Cardinality(Items) > MaxResolved]

\* Entries come after the bindings of their project, as document handles.
LegacyItems ==
    {[id |-> 10 + d, target |-> 10 + d, scope |-> "project",
      policy |-> IF guides[d].importance = "required" THEN "must_read" ELSE "on_demand",
      shadows |-> FALSE] : d \in {p \in Papers : guides[p] # NoGuide}}

ResolveContext ==
    LET all == ResolveKnowledgeBindings.selections \cup LegacyItems
    IN  [selections |-> capApplicableBindings(sortBindings(all), MaxResolved),
         truncated |-> \/ ResolveKnowledgeBindings.truncated
                       \/ Cardinality(all) > MaxResolved]

\* Resolve: required entries first, a section that does not fit is skipped and
\* the next one tried.
Resolve ==
    LET listed == sortBindings(LegacyItems)
        first == SelectSeq(listed, LAMBDA b : b.policy = "must_read")
                   \o SelectSeq(listed, LAMBDA b : b.policy # "must_read")
        Fill[k \in 0..Len(first)] ==
            IF k = 0 THEN [sources |-> {}, used |-> 0]
            ELSE LET p == Fill[k - 1]
                     d == first[k].id - 10
                     fits == papers[d] = "normal" /\ p.used + guides[d].size <= PacketBytes
                 IN  IF fits THEN [sources |-> p.sources \cup {d}, used |-> p.used + guides[d].size]
                     ELSE p
        full == Fill[Len(first)]
    IN  [sources |-> full.sources, used |-> full.used,
         incomplete |-> Cardinality(full.sources) < Len(first)]

\* What the archive preflight of the documents service asks.
DocumentReferences(d) == guides[d] # NoGuide

-----------------------------------------------------------------------------

GuidanceNext ==
    \/ \E i \in BindingIds :
          \/ \E b \in NewKnowledgeBinding : CreateKnowledgeBinding(i, b) \/ UpdateKnowledgeBinding(i, b)
          \/ DeleteKnowledgeBinding(i)
    \/ \E d \in Papers :
          \/ \E g \in NewEntry : AddEntry(d, g)
          \/ DeleteEntry(d)
          \/ PaperArchived(d)
    \/ \E t \in Targets, s \in {"archived", "missing"} : TargetChanges(t, s)

GuidanceSpec == GuidanceInit /\ [][GuidanceNext]_guidanceVars

-----------------------------------------------------------------------------
(* Properties *)

MustRead(S) == {b \in S : b.policy = "must_read"}

\* The reference: all that must be read, in order, and then the others.
BestOf(S, limit) ==
    LET ahead(c, b) == IF (c \in MustRead(S)) = (b \in MustRead(S)) THEN Before(c, b)
                       ELSE c \in MustRead(S)
    IN  {b \in S : Cardinality({c \in S \ {b} : ahead(c, b)}) < limit}

\* Whatever was bound, moved, archived or deleted before: a response is exactly
\* the best of what applies under the limit, nothing that must be read gives
\* way to something else, a global binding never shows beside the one that
\* shadows it, an answer that is not marked truncated accounts for every
\* binding, and a packet holds no archived document, no more than its bytes,
\* and says so when an entry is left out
\* (docs/knowledge-context-bindings-contract.md:24-65, capApplicableBindings).
ResolutionIsBest ==
    LET r == ResolveKnowledgeBindings
        c == ResolveContext
        packet == Resolve
    IN
    /\ GuidanceTypeOK
    /\ r.selections \cup r.excluded = BestOf(Items, MaxResolved)
    /\ c.selections = BestOf(r.selections \cup LegacyItems, MaxResolved)
    /\ \A b \in r.selections : b.scope = "global" => ~\E l \in Items : l.shadows /\ l.target = b.target
    /\ ~r.truncated => \A b \in Items : b \in r.selections \cup r.excluded
    /\ ~c.truncated => LegacyItems \cup r.selections = c.selections
    /\ packet.used <= PacketBytes
    /\ \A d \in packet.sources : papers[d] = "normal"
    /\ packet.incomplete = (\E d \in Papers : DocumentReferences(d) /\ d \notin packet.sources)
    /\ \A d \in Papers : guides[d].importance = "required" /\ papers[d] = "normal" /\ d \notin packet.sources
          => \E e \in packet.sources : guides[e].importance = "required"

=============================================================================
