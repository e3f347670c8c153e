------------------------ MODULE AssignmentManifest ------------------------
(***************************************************************************)
(* The reading list composed for an assignment                             *)
(* (mcp/internal/backend/assignment_manifest_compose.go): candidates come  *)
(* from the caller, from the guidance bindings, from the knowledge entries *)
(* named and from the librarian, each of which may fail; one candidate is  *)
(* kept per reference and the list is cut to a number of handles.          *)
(*                                                                         *)
(* A candidate is what its order depends on: the reference it names, how   *)
(* it was selected, its reading policy, its scope and its priority.        *)
(***************************************************************************)
EXTENDS Naturals, Sequences, SequencesExt, FiniteSetsExt

CONSTANTS References,      \* names, in the order of their strings
          Inherited,       \* lists of references a caller may hand on
          Named,           \* sets of knowledge entries a caller may name
          Resolutions,     \* lists of bindings the guidance may resolve
          Finds,           \* lists of references the librarian may return
          MaxHandles       \* the limits a caller may state

ASSUME ManifestAssumption ==
    /\ References \subseteq Nat
    /\ Named \subseteq SUBSET References /\ Finds \subseteq Seq(References)
    /\ MaxHandles \in Nat \ {0}
    /\ \A list \in Inherited \union Resolutions :
          \A i \in DOMAIN list : list[i].reference \in References

VARIABLES order,       \* the call: its arguments and what the services hold
          candidates,  \* gathered so far, in order
          manifest     \* the answer under construction

manifestVars == <<order, candidates, manifest>>

-----------------------------------------------------------------------------
Candidate(reference, selected, policy, scope, priority) ==
    [reference |-> reference, selected |-> selected, policy |-> policy,
     scope |-> scope, priority |-> priority,
     group |-> IF selected = "librarian" THEN "nearby-maps" ELSE ""]

(* A reference handed on keeps the group it came with, if it is a known    *)
(* one.                                                                    *)
normalizedInheritedCandidate(ref) ==
    [Candidate(ref.reference, "inherited_manifest", ref.policy, "none", 90)
        EXCEPT !.group = IF ref.group \in {"must-read", "task-local", "likely-useful",
                                          "nearby-maps"} THEN ref.group ELSE ""]

assignmentBindingCandidate(b) ==
    Candidate(b.reference, "knowledge_binding", b.policy, b.scope, b.priority)

(* An entry named, read or only known by its name.                         *)
knowledgeManifestCandidate(reference, placeholder) ==
    Candidate(reference, "explicit", "on_demand", "none", IF placeholder THEN 100 ELSE 0)

librarianManifestCandidate(reference) ==
    Candidate(reference, "librarian", "on_demand", "none", 0)

manifestGroup(c) ==
    IF c.group # "" THEN c.group
    ELSE IF c.policy = "must_read" THEN "must-read"
    ELSE IF c.selected \in {"explicit", "inherited_manifest"} THEN "task-local"
    ELSE "likely-useful"

manifestGroupRank(group) ==
    CASE group = "must-read" -> 0 [] group = "task-local" -> 1
      [] group = "likely-useful" -> 2 [] group = "nearby-maps" -> 3

manifestSourceRank(selected) ==
    CASE selected = "explicit" -> 0 [] selected = "inherited_manifest" -> 1
      [] selected = "knowledge_binding" -> 2 [] selected = "librarian" -> 3

manifestScopeSpecificity(scope) ==
    CASE scope = "task" -> 5 [] scope = "agent_profile" -> 4
      [] scope = "capability" -> 3 [] scope = "project" -> 2
      [] scope = "global" -> 1 [] scope = "none" -> 0

(* The first difference decides: group, source, scope (the narrower one),  *)
(* priority (the higher one), reference.                                   *)
manifestCandidateLess(a, b) ==
    LET key(c) == <<manifestGroupRank(manifestGroup(c)),
                    manifestSourceRank(c.selected),
                    9 - manifestScopeSpecificity(c.scope),
                    100 - c.priority, c.reference>>
    IN  \E i \in 1..5 : /\ key(a)[i] < key(b)[i]
                        /\ \A j \in 1..(i - 1) : key(a)[j] = key(b)[j]

(* MUTANT: a later candidate always takes the place of an earlier one.     *)
keepLater(kept, c) == [kept EXCEPT ![c.reference] = <<c>>]

(* One candidate of a reference stays: a new one only if it is less.       *)
keepBetter(kept, c) ==
    IF kept[c.reference] = <<>> \/ manifestCandidateLess(c, kept[c.reference][1])
    THEN [kept EXCEPT ![c.reference] = <<c>>] ELSE kept

deduplicateManifestCandidates(all) ==
    LET kept == FoldLeft(keepBetter, [r \in References |-> <<>>], all)
    IN  SetToSortSeq({kept[r][1] : r \in {r \in References : kept[r] # <<>>}},
                     manifestCandidateLess)

chooseManifestReferences(all, limit) ==
    LET unique == deduplicateManifestCandidates(all)
    IN  SubSeq(unique, 1, Min({limit, Len(unique)}))

-----------------------------------------------------------------------------
NoManifest == [phase |-> "idle", references |-> <<>>, truncated |-> FALSE,
               status |-> <<>>, dropped |-> {}, bindings |-> {}]

ManifestInit ==
    /\ order = [inherited |-> <<>>, explicit |-> {}, handles |-> 1, items |-> 0,
                bindings |-> <<>>, capped |-> FALSE, found |-> <<>>, missing |-> {}]
    /\ candidates = <<>>
    /\ manifest = NoManifest

(* A call: the references its caller hands on (an incomplete one is left   *)
(* out), the knowledge entries it names and its limits.                    *)
callAssignmentManifestCompose ==
    /\ manifest.phase = "idle"
    /\ \E inherited \in Inherited, explicit \in Named, handles \in 1..MaxHandles,
          items \in 0..1, bindings \in Resolutions, capped \in BOOLEAN, found \in Finds,
          missing \in {{}, {"guidance"}, {"knowledge"}, {"librarian"}} :
        /\ order' = [inherited |-> inherited, explicit |-> explicit, handles |-> handles,
                     items |-> items, bindings |-> bindings, capped |-> capped,
                     found |-> found, missing |-> missing]
        /\ candidates' = [i \in DOMAIN inherited |->
                              normalizedInheritedCandidate(inherited[i])]
    /\ manifest' = [NoManifest EXCEPT !.phase = "guidance"]

status(source, state) == [source |-> source, state |-> state]

(* The bindings resolved for the project and the scopes of the assignment; *)
(* one that is not a must-read counts only when it shares a word with the  *)
(* assignment.                                                             *)
assignmentRelevant(b) == b.policy = "must_read" \/ b.relevant

resolveGuidance(state) ==
    /\ manifest.phase = "guidance"
    /\ state # "ok" \/ "guidance" \notin order.missing
    /\ state = "unavailable" \/ "guidance" \notin order.missing
    /\ LET relevant == SelectSeq(order.bindings, assignmentRelevant)
       IN  IF state = "ok"
           THEN /\ candidates' = candidates \o
                      [i \in DOMAIN relevant |-> assignmentBindingCandidate(relevant[i])]
                /\ manifest' = [manifest EXCEPT
                      !.phase = "knowledge", !.truncated = order.capped,
                      !.bindings = ToSet(relevant),
                      !.status = Append(@, status("guidance",
                                          IF order.capped THEN "partial" ELSE "ok"))]
           ELSE /\ manifest' = [manifest EXCEPT !.phase = "knowledge",
                                   !.status = Append(@, status("guidance", state))]
                /\ UNCHANGED candidates
    /\ UNCHANGED order

(* The entries named, one request each; one that fails is dropped with a   *)
(* status of its own.  Without a knowledge backend every one stays, as a   *)
(* placeholder of the same reference.                                      *)
assignmentExplicitKnowledge(lost) ==
    /\ manifest.phase = "knowledge"
    /\ lost \subseteq order.explicit
    /\ "knowledge" \in order.missing => lost = {}
    /\ LET got == SetToSortSeq(order.explicit \ lost, <)
           absent == "knowledge" \in order.missing
           told == IF absent THEN IF order.explicit = {} THEN <<>>
                                  ELSE <<status("knowledge", "unavailable")>>
                   ELSE [i \in 1..Cardinality(lost) |-> status("knowledge", "partial")]
       IN  /\ candidates' = candidates \o
                 [i \in DOMAIN got |-> knowledgeManifestCandidate(got[i], absent)]
           /\ manifest' = [manifest EXCEPT !.phase = "librarian", !.dropped = lost,
                                           !.status = @ \o told]
    /\ UNCHANGED order

(* The librarian's items, cut to their limit.                              *)
queryLibrarian(state) ==
    /\ manifest.phase = "librarian"
    /\ order.items = 0 => state = "unasked"
    /\ order.items > 0 => state # "unasked"
    /\ state \in {"ok", "partial"} => "librarian" \notin order.missing
    /\ LET items == SubSeq(order.found, 1, Min({order.items, Len(order.found)}))
       IN  IF state \in {"ok", "partial"}
           THEN /\ candidates' = candidates \o
                      [i \in DOMAIN items |-> librarianManifestCandidate(items[i])]
                /\ manifest' = [manifest EXCEPT !.phase = "choose",
                      !.truncated = @ \/ Len(order.found) > order.items,
                      !.status = Append(@, status("librarian", state))]
           ELSE /\ manifest' = [manifest EXCEPT !.phase = "choose",
                      !.status = IF state = "unasked" THEN @
                                 ELSE Append(@, status("librarian", "unavailable"))]
                /\ UNCHANGED candidates
    /\ UNCHANGED order

chooseReferences ==
    /\ manifest.phase = "choose"
    /\ LET chosen == chooseManifestReferences(candidates, order.handles)
       IN  manifest' = [manifest EXCEPT
              !.phase = "done", !.references = chosen,
              !.truncated = @ \/ Len(deduplicateManifestCandidates(candidates)) > Len(chosen)]
    /\ UNCHANGED <<order, candidates>>

ManifestNext ==
    \/ callAssignmentManifestCompose
    \/ \E state \in {"ok", "partial", "unavailable"} : resolveGuidance(state)
    \/ \E lost \in SUBSET References : assignmentExplicitKnowledge(lost)
    \/ \E state \in {"ok", "partial", "unavailable", "unasked"} : queryLibrarian(state)
    \/ chooseReferences

ManifestSpec == ManifestInit /\ [][ManifestNext]_manifestVars

-----------------------------------------------------------------------------
(* The stage of the composition and what it has collected. *)
ManifestTypeOK ==
    /\ manifest.phase \in {"idle", "guidance", "knowledge", "librarian", "choose", "done"}
    /\ \A i \in DOMAIN candidates : candidates[i].reference \in References

(* However the services fail and whatever they return in which order, the  *)
(* list names no reference twice and is full unless everything fits; a     *)
(* reference that some must-read binding or hand-over names stands before  *)
(* every reference without one, and is left out only for others of that    *)
(* kind; that references were left out or named entries lost is told.      *)
(* (assignment_manifest_compose.go deduplicateManifestCandidates,          *)
(* chooseManifestReferences)                                               *)
MustReadsComeFirst ==
    /\ ManifestTypeOK
    /\ manifest.phase = "done" =>
           LET listed == [i \in DOMAIN manifest.references |-> manifest.references[i].reference]
               handed == {order.inherited[i] : i \in DOMAIN order.inherited}
               must == {b.reference : b \in {b \in manifest.bindings : b.policy = "must_read"}}
                       \union {h.reference : h \in
                           {h \in handed : manifestGroup(normalizedInheritedCandidate(h))
                                               = "must-read"}}
               named == {candidates[i].reference : i \in DOMAIN candidates}
           IN  /\ \A i, j \in DOMAIN listed : i # j => listed[i] # listed[j]
               /\ Len(listed) = Min({order.handles, Cardinality(named)})
               /\ \A i, j \in DOMAIN listed :
                     listed[i] \in must /\ listed[j] \notin must => i < j
               /\ ToSet(listed) \subseteq must \/ must \subseteq ToSet(listed)
               /\ named \subseteq ToSet(listed) \/ manifest.truncated
               /\ order.explicit \ named # {} =>
                     \E i \in DOMAIN manifest.status : manifest.status[i].source = "knowledge"
=============================================================================
