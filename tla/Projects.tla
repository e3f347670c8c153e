------------------------------ MODULE Projects ------------------------------
(***************************************************************************)
(* The projects service (projects/internal): one scope, its visibility,    *)
(* the patch of its other fields, its crew list and its deletion.  A patch *)
(* and a change of visibility are one statement each; a deletion reads the *)
(* scope first; an edit of the crew list locks the row, computes the list  *)
(* and writes it.                                                          *)
(***************************************************************************)
EXTENDS Integers, Sequences, FiniteSets

CONSTANTS
    Editors,    \* calls that edit the crew list: each adds its own address
    CrewLimit,  \* MaxCrewNotifyTargets
    MaxTurns    \* bound: other changes of the scope

ASSUME ProjectsAssumption == CrewLimit \in Nat /\ MaxTurns \in Nat

VARIABLES
    scope,      \* den_projects.scopes: the row of the scope
    turns,      \* other changes so far
    deleting,   \* a DeleteSpace that has read the scope
    editors,    \* the edits of the crew list
    crewLog     \* history: the edits in the order of their commits

projectVars == <<scope, turns, deleting, editors, crewLog>>

-----------------------------------------------------------------------------

NoScope == [visibility |-> "absent", kind |-> "project", patch |-> 0, crew |-> {}]

ScopeKinds == {"project", "system"}

ScopeRow ==
    [visibility : {"absent", "normal", "hidden", "archived"}, kind : ScopeKinds,
     patch : 0..MaxTurns, crew : SUBSET Editors]

CrewEdit == [add : Editors, remove : SUBSET Editors]

ProjectsTypeOK ==
    /\ scope \in ScopeRow
    /\ turns \in 0..MaxTurns
    /\ deleting \in BOOLEAN
    /\ editors \in [Editors -> [pc : {"idle", "locked", "done"}, crew : SUBSET Editors]]
    /\ crewLog \in Seq(CrewEdit)

ProjectsInit ==
    /\ scope = NoScope
    /\ turns = 0
    /\ deleting = FALSE
    /\ editors = [e \in Editors |-> [pc |-> "idle", crew |-> {}]]
    /\ crewLog = <<>>

-----------------------------------------------------------------------------

\* System and personal scopes, and a few ids, need force.
ProtectedFromDelete(s) == s.kind = "system"

LockedCrew == \E e \in Editors : editors[e].pc = "locked"

Turn(s) ==
    /\ turns < MaxTurns /\ ~LockedCrew
    /\ scope' = s
    /\ turns' = turns + 1
    /\ UNCHANGED editors

\* CreateProject and CreateSpace: an id is unique.
CreateScope(kind) ==
    /\ scope = NoScope
    /\ Turn([NoScope EXCEPT !.visibility = "normal", !.kind = kind])
    /\ UNCHANGED <<deleting, crewLog>>

\* UpdateProject: the fields the request names, the others as they are.
UpdateScope ==
    /\ scope # NoScope
    /\ Turn([scope EXCEPT !.patch = turns + 1])
    /\ UNCHANGED <<deleting, crewLog>>

\* UpdateVisibility; ArchiveSpace is the archived case of it.
UpdateVisibility(v) ==
    /\ scope.visibility \notin {"absent", v}
    /\ Turn([scope EXCEPT !.visibility = v])
    /\ UNCHANGED <<deleting, crewLog>>

\* DeleteSpace: what it reads may have changed when it deletes by id.
DeleteSpace(force) ==
    /\ ~deleting /\ scope # NoScope
    /\ ProtectedFromDelete(scope) => force
    /\ deleting' = TRUE
    /\ UNCHANGED <<scope, turns, editors, crewLog>>

DeleteScope ==
    /\ deleting /\ ~LockedCrew
    /\ scope' = NoScope
    /\ crewLog' = <<>>
    /\ deleting' = FALSE
    /\ UNCHANGED <<turns, editors>>

-----------------------------------------------------------------------------
(* UpdateCrewNotify                                                          *)

\* Mutant: the list is read without locking the row.
ReadCrewNotify(e) ==
    /\ editors[e].pc = "idle"
    /\ scope # NoScope
    /\ editors' = [editors EXCEPT ![e] = [pc |-> "locked", crew |-> scope.crew]]
    /\ UNCHANGED <<scope, turns, deleting, crewLog>>

\* lockCrewNotifySQL, select for update; an archived scope may be edited.
LockCrewNotify(e) ==
    /\ editors[e].pc = "idle" /\ ~LockedCrew
    /\ scope # NoScope
    /\ editors' = [editors EXCEPT ![e] = [pc |-> "locked", crew |-> scope.crew]]
    /\ UNCHANGED <<scope, turns, deleting, crewLog>>

\* Removals, then additions; a list that grew too long is refused.
apply(current, add, remove) ==
    LET next == (current \ remove) \cup add
    IN  IF Cardinality(next) > CrewLimit THEN {} ELSE next

UpdateCrewNotify(e, remove) ==
    LET next == apply(editors[e].crew, {e}, remove) IN
    /\ editors[e].pc = "locked"
    /\ editors' = [editors EXCEPT ![e].pc = "done"]
    /\ IF next = {} THEN UNCHANGED <<scope, crewLog>>
       ELSE /\ scope' = [scope EXCEPT !.crew = next]
            /\ crewLog' = Append(crewLog, [add |-> e, remove |-> remove])
    /\ UNCHANGED <<turns, deleting>>

-----------------------------------------------------------------------------

ProjectsNext ==
    \/ UpdateScope \/ DeleteScope
    \/ \E kind \in ScopeKinds : CreateScope(kind)
    \/ \E v \in {"normal", "hidden", "archived"} : UpdateVisibility(v)
    \/ \E force \in BOOLEAN : DeleteSpace(force)
    \/ \E e \in Editors :
          \/ LockCrewNotify(e)
          \/ \E remove \in {{}} \cup {{o} : o \in Editors \ {e}} : UpdateCrewNotify(e, remove)

ProjectsSpec == ProjectsInit /\ [][ProjectsNext]_projectVars

-----------------------------------------------------------------------------
(* Properties *)

\* No edit of the crew list is lost to another edit or to a patch of the
\* scope: an address is on the list exactly if an edit added it and no later
\* one removed it.  A list never outgrows the limit, and a scope created again
\* under the same id starts with nobody on it (projects/internal/store.go:98).
CrewEditsAreKept ==
    /\ ProjectsTypeOK
    /\ \A e \in Editors :
          e \in scope.crew <=>
             \E n \in DOMAIN crewLog :
                /\ crewLog[n].add = e
                /\ \A k \in DOMAIN crewLog : k > n => e \notin crewLog[k].remove
    /\ Cardinality(scope.crew) <= CrewLimit

=============================================================================
