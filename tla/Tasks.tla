------------------------------- MODULE Tasks --------------------------------
(***************************************************************************)
(* The tasks service (tasks/internal): task rows with their parents, the   *)
(* dependency graph, the audit history, the change feed and the human      *)
(* acceptances of one project.                                             *)
(*                                                                         *)
(* Every operation is a READ COMMITTED transaction of several statements.  *)
(* What keeps concurrent ones apart is never spelled out in the Go code:   *)
(* the row locks of "select ... for update", and the key share locks that  *)
(* the foreign keys of parent_id, task_dependencies and task_change_events *)
(* take on the tasks they name.  A request therefore carries the locks it  *)
(* holds and the writes it has not committed.  Several rows locked by one  *)
(* statement are locked together; a deadlock, a lost connection and a      *)
(* refused statement all end in Rollback.                                  *)
(***************************************************************************)
EXTENDS Integers, Sequences, FiniteSets

CONSTANTS
    TaskIds,   \* ids of tasks
    Requests,  \* requests, numbered as they arrive; the number is their clock
    Keys,      \* idempotency keys of acceptances
    Calls,     \* the calls agents make
    Starts,    \* the tables a run starts from: [tasks, deps]
    None,
    Keep       \* a patch that leaves parent_id alone

Status ==
    {"backlog", "planned", "in_progress", "review", "blocked", "done", "cancelled"}

\* "absent" stands for a row that does not exist; context: blocker_summary and
\* blocker_reason are set.
Task ==
    [status : Status \cup {"absent"}, parent : TaskIds \cup {None},
     context : BOOLEAN, updatedAt : Requests \cup {0}]

Effect == {"record_only", "complete_task", "complete_task_and_parent"}

Call ==
    [op : {"create", "update", "review", "add", "remove", "accept"},
     task : TaskIds, status : Status \cup {None}, parent : TaskIds \cup {None, Keep},
     context : BOOLEAN, on : TaskIds \cup {None}, key : Keys \cup {None},
     effect : Effect \cup {None}, pinned : BOOLEAN]

ASSUME TasksAssumption ==
    /\ Requests \subseteq Nat \ {0}
    /\ IsFiniteSet(TaskIds)
    /\ None \notin TaskIds /\ None \notin Keys /\ None \notin Status /\ None \notin Effect /\ None \notin Task
    /\ Keep \notin TaskIds /\ Keep # None
    /\ Calls \subseteq Call
    /\ \A s \in Starts : s.tasks \in [TaskIds -> Task] /\ s.deps \subseteq TaskIds \X TaskIds

\* An acceptance has a key and an effect, and no other call has or is pinned.
ASSUME CallsAssumption ==
    \A c \in Calls :
        IF c.op = "accept" THEN c.key \in Keys /\ c.effect \in Effect
        ELSE c.effect = None /\ ~c.pinned

\* The foreign key of parent_id: a parent is a row.
ASSUME StartsAssumption ==
    \A s \in Starts : \A t \in TaskIds : LET p == s.tasks[t].parent IN
        p # None => s.tasks[t].status # "absent" /\ s.tasks[p].status # "absent"

VARIABLES
    tasks,        \* den_tasks.tasks
    deps,         \* den_tasks.task_dependencies: pairs <<task, depends_on>>
    history,      \* den_tasks.task_history: the changes of status, by task
    changes,      \* den_tasks.task_change_events: pairs <<request, task>>
    acceptances,  \* den_tasks.human_acceptance_reviews
    reqs          \* the requests

tables == <<tasks, deps, history, changes, acceptances>>
taskVars == <<tasks, deps, history, changes, acceptances, reqs>>

-----------------------------------------------------------------------------

\* by: the agent, or the acceptance that completed the task.
Author == {<<>>} \cup (TaskIds \X Keys)
Entry == [task : TaskIds, old : Status, new : Status, by : Author]

\* What a request has written and not committed, and the children it counted.
Write ==
    [rows : [TaskIds -> Task \cup {None}], log : SUBSET Entry,
     add : SUBSET (TaskIds \X TaskIds), del : SUBSET (TaskIds \X TaskIds),
     notify : SUBSET TaskIds, saw : SUBSET TaskIds]

NoWrite ==
    [rows |-> [t \in TaskIds |-> None], log |-> {}, add |-> {}, del |-> {}, notify |-> {}, saw |-> {}]

Request ==
    [pc : {"new", "begun", "locked", "checked", "parent", "count", "complete",
           "written", "done"},
     call : Calls \cup {None}, patch : [status : Status \cup {None}, context : {"keep", "set", "clear"}],
     cur : Status \cup {None}, expect : Requests \cup {0, None},
     excl : SUBSET TaskIds, share : SUBSET TaskIds, write : Write]

NoRequest(pc) ==
    [pc |-> pc, call |-> None, patch |-> [status |-> None, context |-> "keep"], cur |-> None,
     expect |-> None, excl |-> {}, share |-> {}, write |-> NoWrite]

Acceptance ==
    [task : TaskIds, key : Keys, effect : Effect, before : Status, after : Status,
     parent : TaskIds \cup {None}, parentBefore : Status \cup {None},
     parentAfter : Status \cup {None}]

TasksTypeOK ==
    /\ tasks \in [TaskIds -> Task]
    /\ deps \subseteq TaskIds \X TaskIds
    /\ history \in [TaskIds -> Seq(Entry)]
    /\ changes \subseteq Requests \X TaskIds
    /\ acceptances \subseteq Acceptance
    /\ reqs \in [Requests -> Request]

TasksInit ==
    /\ \E s \in Starts : tasks = s.tasks /\ deps = s.deps
    /\ history = [t \in TaskIds |-> <<>>]
    /\ changes = {}
    /\ acceptances = {}
    /\ reqs = [r \in Requests |-> NoRequest("new")]

-----------------------------------------------------------------------------
(* Locks, graphs and views.                                                  *)

Exists(t) == t \in TaskIds /\ tasks[t].status # "absent"

CanLock(r, S) == \A q \in Requests \ {r} : S \cap (reqs[q].excl \cup reqs[q].share) = {}
CanShare(r, S) == \A q \in Requests \ {r} : S \cap reqs[q].excl = {}

\* Everything the edges of E lead to from a, a included.
Reachable(E, a) ==
    {x \in TaskIds : \A S \in SUBSET TaskIds :
        a \in S /\ (\A e \in E : e[1] \in S => e[2] \in S) => x \in S}

ParentEdges == {e \in TaskIds \X TaskIds : tasks[e[1]].parent = e[2]}

createsDependencyCycle(t, d) == t \in Reachable(deps, d)
createsParentCycle(t, p) == t \in Reachable(ParentEdges, p)

\* The loop of createsParentCycle ends at the task or at a task without parent.
ParentWalkEnds(t, p) ==
    createsParentCycle(t, p) \/ \E x \in Reachable(ParentEdges, p) : tasks[x].parent = None

Dependents(t) == {x \in TaskIds : <<x, t>> \in deps}

\* The rows as the statements of r see them: its own writes included.
Seen(r, t) == IF reqs[r].write.rows[t] = None THEN tasks[t] ELSE reqs[r].write.rows[t]

terminalStatus(s) == s \in {"done", "cancelled"}
dependencySatisfiedStatus(s) == s = "review" \/ terminalStatus(s)

Becomes(r, q) == reqs' = [reqs EXCEPT ![r] = q]
Ends(r) == Becomes(r, NoRequest("done")) /\ UNCHANGED tables
At(r, op, pc) == reqs[r].pc = pc /\ reqs[r].call.op = op

\* The writes of a request with one more row, the history of its status, the
\* tasks the feed is told of.
Written(w, t, row, old, by, notify) ==
    [w EXCEPT
        !.rows[t] = row,
        !.log = IF row.status = old THEN @
                ELSE @ \cup {[task |-> t, old |-> old, new |-> row.status, by |-> by]},
        !.notify = @ \cup notify]

-----------------------------------------------------------------------------
(* A request arrives and the service reads the task: outside the transaction *)
(* that will lock it.                                                        *)

BlockedContextMissing(row, c) ==
    c.status = "blocked" /\ row.status # "blocked" /\ ~c.context

buildPatch(row, c) ==
    [status |-> c.status,
     context |-> IF c.status \notin {None, "blocked"} /\ row.status = "blocked" THEN "clear"
                 ELSE IF c.context THEN "set" ELSE "keep"]

NextToArrive(r) ==
    /\ reqs[r].pc = "new"
    /\ \A q \in Requests : q < r => reqs[q].pc # "new"

\* The caller of a pinned acceptance sends the updated_at it has read.
Arrive(r, c) ==
    /\ NextToArrive(r)
    /\ IF c.op = "create"
       THEN ~Exists(c.task) /\ \A q \in Requests : reqs[q].pc \notin {"new", "done"} =>
                                   reqs[q].call.op # "create" \/ reqs[q].call.task # c.task
       ELSE Exists(c.task)
    /\ c.op = "update" => ~BlockedContextMissing(tasks[c.task], c)
    /\ Becomes(r, [NoRequest("begun") EXCEPT !.call = c,
            !.patch = IF c.op = "update" THEN buildPatch(tasks[c.task], c) ELSE @,
            !.expect = IF c.pinned THEN tasks[c.task].updatedAt ELSE None])
    /\ UNCHANGED tables

-----------------------------------------------------------------------------
(* CreateTask                                                                *)

CheckCreate(r) ==
    LET c == reqs[r].call IN
    /\ At(r, "create", "begun")
    /\ IF (c.parent # None => Exists(c.parent)) /\ (c.on # None => Exists(c.on))
       THEN Becomes(r, [reqs[r] EXCEPT !.pc = "checked"]) /\ UNCHANGED tables
       ELSE Ends(r)

WriteCreate(r) ==
    LET c == reqs[r].call
        row == [status |-> "planned", parent |-> c.parent, context |-> FALSE, updatedAt |-> r]
        told == {c.task, c.parent} \ {None}
        named == (told \cup {c.on}) \ {None}
    IN
    /\ At(r, "create", "checked")
    /\ CanShare(r, named)
    /\ Becomes(r, [reqs[r] EXCEPT !.pc = "written", !.share = named,
            !.write = [Written(NoWrite, c.task, row, "planned", <<>>, told) EXCEPT
                          !.add = {<<c.task, d>> : d \in {c.on} \ {None}}]])
    /\ UNCHANGED tables

-----------------------------------------------------------------------------
(* UpdateTask and TransitionTaskToReview                                     *)

\* getTaskForUpdateTx
LockForUpdate(r) ==
    LET t == reqs[r].call.task IN
    /\ At(r, "update", "begun")
    /\ CanLock(r, {t})
    /\ Becomes(r, [reqs[r] EXCEPT !.pc = "locked", !.excl = {t}, !.cur = tasks[t].status])
    /\ UNCHANGED tables

HasParent(c) == c.op = "update" /\ c.parent # Keep

\* The row an update leaves: updateTaskSQL.
Patched(r) ==
    LET q == reqs[r]
        row == tasks[q.call.task]
    IN
    [status |-> IF q.patch.status = None THEN row.status ELSE q.patch.status,
     parent |-> IF HasParent(q.call) THEN q.call.parent ELSE row.parent,
     context |-> IF q.patch.context = "keep" THEN row.context ELSE q.patch.context = "set",
     updatedAt |-> r]

taskPatchChanges(r) ==
    [Patched(r) EXCEPT !.updatedAt = 0] # [tasks[reqs[r].call.task] EXCEPT !.updatedAt = 0]

\* validateParent
validParent(t, p) == p = None \/ (p # t /\ Exists(p) /\ ~createsParentCycle(t, p))

CheckUpdate(r) ==
    LET c == reqs[r].call IN
    /\ At(r, "update", "locked")
    /\ HasParent(c) /\ c.parent \notin {None, c.task} => ParentWalkEnds(c.task, c.parent)
    /\ IF (HasParent(c) => validParent(c.task, c.parent)) /\ taskPatchChanges(r)
       THEN Becomes(r, [reqs[r] EXCEPT !.pc = "checked"]) /\ UNCHANGED tables
       ELSE Ends(r)

\* TransitionTaskToReview: a task in review is left alone, any other that is
\* not in progress is a conflict.
LockForReview(r) ==
    LET t == reqs[r].call.task IN
    /\ At(r, "review", "begun")
    /\ CanLock(r, {t})
    /\ IF tasks[t].status # "in_progress" THEN Ends(r)
       ELSE /\ Becomes(r, [reqs[r] EXCEPT !.pc = "checked", !.excl = {t}, !.cur = "in_progress",
                                          !.patch.status = "review"])
            /\ UNCHANGED tables

\* Mutant: the old parent is not told.
ToldNewParent(r) ==
    LET q == reqs[r]
        t == q.call.task
    IN
    {t} \cup (IF q.patch.status # None THEN Dependents(t) ELSE {})
        \cup (IF HasParent(q.call) THEN {q.call.parent} \ {None} ELSE {})

\* recordUpdateTaskChangesTx: the task, its dependents if the patch has a
\* status, the old and the new parent if it has a parent.
Told(r) ==
    LET q == reqs[r]
        t == q.call.task
    IN
    {t} \cup (IF q.patch.status # None THEN Dependents(t) ELSE {})
        \cup (IF HasParent(q.call)
              THEN {tasks[t].parent, q.call.parent} \ {None} ELSE {})

\* updateTaskTx.  The foreign keys of the event rows lock the tasks named.
WriteUpdate(r) ==
    LET q == reqs[r]
        t == q.call.task
    IN
    /\ q.pc = "checked"
    /\ q.call.op \in {"update", "review"}
    /\ CanShare(r, Told(r))
    /\ Becomes(r, [q EXCEPT !.pc = "written", !.share = Told(r),
                            !.write = Written(NoWrite, t, Patched(r), q.cur, <<>>, Told(r))])
    /\ UNCHANGED tables

-----------------------------------------------------------------------------
(* AddDependency and RemoveDependency                                        *)

CheckAdd(r) ==
    LET c == reqs[r].call IN
    /\ At(r, "add", "begun")
    /\ IF c.on # c.task /\ Exists(c.on) /\ ~createsDependencyCycle(c.task, c.on)
       THEN Becomes(r, [reqs[r] EXCEPT !.pc = "checked"]) /\ UNCHANGED tables
       ELSE Ends(r)

\* Another request has inserted or deleted the row and not committed.
RowInDoubt(r, e) == \E q \in Requests \ {r} : e \in reqs[q].write.add \cup reqs[q].write.del

\* A row that is there already is left alone, and its foreign keys with it.
WriteAdd(r) ==
    LET c == reqs[r].call
        e == <<c.task, c.on>>
        named == IF e \in deps THEN {c.task} ELSE {c.task, c.on}
    IN
    /\ At(r, "add", "checked")
    /\ ~RowInDoubt(r, e)
    /\ CanShare(r, named)
    /\ Becomes(r, [reqs[r] EXCEPT !.pc = "written", !.share = named,
            !.write = [NoWrite EXCEPT !.add = {e} \ deps, !.notify = {c.task}]])
    /\ UNCHANGED tables

\* A row that another request has inserted and not committed is not seen.
WriteRemove(r) ==
    LET c == reqs[r].call
        e == <<c.task, c.on>>
    IN
    /\ At(r, "remove", "begun")
    /\ e \in deps => ~RowInDoubt(r, e)
    /\ CanShare(r, {c.task})
    /\ Becomes(r, [reqs[r] EXCEPT !.pc = "written", !.share = {c.task},
            !.write = [NoWrite EXCEPT !.del = {e} \cap deps, !.notify = {c.task}]])
    /\ UNCHANGED tables

-----------------------------------------------------------------------------
(* RecordHumanAcceptance                                                     *)

Replayed(c) == \E a \in acceptances : a.task = c.task /\ a.key = c.key

\* A key that was used returns the recorded result, or a conflict if the facts
\* differ; a task that changed since the caller read it and a cancelled task
\* are conflicts.
LockForAcceptance(r) ==
    LET q == reqs[r]
        c == q.call
        row == tasks[c.task]
    IN
    /\ At(r, "accept", "begun")
    /\ CanLock(r, {c.task})
    /\ IF \/ Replayed(c)
          \/ q.expect \notin {None, row.updatedAt}
          \/ row.status = "cancelled" /\ c.effect # "record_only"
       THEN Ends(r)
       ELSE /\ Becomes(r, [q EXCEPT !.pc = "locked", !.excl = {c.task}, !.cur = row.status])
            /\ UNCHANGED tables

\* completeTaskTx: the blocker of a blocked task is cleared.
Completed(r, row) ==
    [row EXCEPT !.status = "done", !.context = IF row.status = "blocked" THEN FALSE ELSE @,
                !.updatedAt = r]

completeTaskTx(r, w, t) ==
    IF tasks[t].status = "done" THEN w
    ELSE Written(w, t, Completed(r, tasks[t]), tasks[t].status,
                 <<reqs[r].call.task, reqs[r].call.key>>, {t} \cup Dependents(t))

CompleteTask(r) ==
    LET q == reqs[r]
        c == q.call
        w == IF c.effect = "record_only" THEN NoWrite ELSE completeTaskTx(r, NoWrite, c.task)
    IN
    /\ At(r, "accept", "locked")
    /\ CanShare(r, w.notify)
    /\ Becomes(r, [q EXCEPT !.share = w.notify, !.write = w,
            !.pc = IF c.effect = "complete_task_and_parent" THEN "parent" ELSE "written"])
    /\ UNCHANGED tables

\* Mutant: the parent is read without a lock.
ReadParent(r) ==
    LET q == reqs[r]
        p == tasks[q.call.task].parent
    IN
    /\ At(r, "accept", "parent")
    /\ IF p = None \/ tasks[p].status = "cancelled" THEN Ends(r)
       ELSE Becomes(r, [q EXCEPT !.pc = "count"]) /\ UNCHANGED tables

LockParent(r) ==
    LET q == reqs[r]
        p == tasks[q.call.task].parent
    IN
    /\ At(r, "accept", "parent")
    /\ p # None => CanLock(r, {p})
    /\ IF p = None \/ tasks[p].status = "cancelled" THEN Ends(r)
       ELSE /\ Becomes(r, [q EXCEPT !.pc = "count", !.excl = @ \cup {p}])
            /\ UNCHANGED tables

Children(r, p) == {t \in TaskIds : Seen(r, t).parent = p}

\* The two counts read what is committed, and what the request has written.
parentCompletionEligibleTx(r) ==
    LET q == reqs[r]
        p == tasks[q.call.task].parent
    IN
    /\ At(r, "accept", "count")
    /\ IF /\ \A t \in Children(r, p) : terminalStatus(Seen(r, t).status)
          /\ \A d \in TaskIds : <<p, d>> \in deps => dependencySatisfiedStatus(Seen(r, d).status)
       THEN Becomes(r, [q EXCEPT !.pc = "complete", !.write.saw = Children(r, p)]) /\ UNCHANGED tables
       ELSE Ends(r)

CompleteParent(r) ==
    LET q == reqs[r]
        w == completeTaskTx(r, q.write, tasks[q.call.task].parent)
    IN
    /\ At(r, "accept", "complete")
    /\ CanShare(r, w.notify)
    /\ Becomes(r, [q EXCEPT !.pc = "written", !.share = @ \cup w.notify, !.write = w])
    /\ UNCHANGED tables

\* insertHumanAcceptanceTx
AcceptanceOf(r) ==
    LET c == reqs[r].call
        both == c.effect = "complete_task_and_parent"
        p == tasks[c.task].parent
    IN
    [task |-> c.task, key |-> c.key, effect |-> c.effect,
     before |-> reqs[r].cur, after |-> Seen(r, c.task).status,
     parent |-> IF both THEN p ELSE None,
     parentBefore |-> IF both THEN tasks[p].status ELSE None,
     parentAfter |-> IF both THEN Seen(r, p).status ELSE None]

-----------------------------------------------------------------------------

EntryOf(w, t) == CHOOSE e \in w.log : e.task = t

\* The commit shows every write at once and releases the locks.
Commit(r) ==
    LET q == reqs[r]
        w == q.write
        accepted == q.call.op = "accept"
    IN
    /\ q.pc = "written"
    /\ tasks' = [t \in TaskIds |-> Seen(r, t)]
    /\ deps' = (deps \ w.del) \cup w.add
    /\ history' = [t \in TaskIds |-> IF \E e \in w.log : e.task = t
                                     THEN Append(history[t], EntryOf(w, t)) ELSE history[t]]
    /\ changes' = changes \cup {<<r, t>> : t \in w.notify \cup (IF accepted THEN {q.call.task} ELSE {})}
    /\ acceptances' = acceptances \cup (IF accepted THEN {AcceptanceOf(r)} ELSE {})
    /\ Becomes(r, NoRequest("done"))

\* A deadlock, a refused statement or a lost connection undoes the request.
Rollback(r) ==
    /\ reqs[r].pc \notin {"new", "done"}
    /\ Ends(r)

RequestStep(r) ==
    \/ CheckCreate(r) \/ WriteCreate(r)
    \/ LockForUpdate(r) \/ CheckUpdate(r) \/ LockForReview(r) \/ WriteUpdate(r)
    \/ CheckAdd(r) \/ WriteAdd(r) \/ WriteRemove(r)
    \/ LockForAcceptance(r) \/ CompleteTask(r)
    \/ LockParent(r) \/ parentCompletionEligibleTx(r) \/ CompleteParent(r)
    \/ Commit(r)

TasksNext ==
    \E r \in Requests :
        (\E c \in Calls : Arrive(r, c)) \/ RequestStep(r) \/ Rollback(r)

TasksSpec == TasksInit /\ [][TasksNext]_taskVars

-----------------------------------------------------------------------------
(* Properties.                                                               *)

\* The audit history of a task is a chain that ends in its status, whatever
\* updates, transitions and acceptances ran against each other (writeHistory
\* takes the old value from the row it has locked).
HistoryIsChain ==
    /\ TasksTypeOK
    /\ \A t \in TaskIds : LET h == history[t] IN
          /\ \A i \in 2..Len(h) : h[i].old = h[i - 1].new
          /\ h # <<>> => h[Len(h)].new = tasks[t].status

\* A recorded acceptance has completed what its record says and nothing else,
\* once, however often it is retried (RecordHumanAcceptance); and a pinned one
\* is about the version its caller has read: from the comparison to the commit
\* the row stays that version.
AcceptanceAppliesOnce ==
    LET by(x, author) == Cardinality({i \in 1..Len(history[x]) : history[x][i].by = author}) IN
    /\ \A a \in acceptances, x \in TaskIds :
          by(x, <<a.task, a.key>>) =
             IF \/ x = a.task /\ a.before # a.after
                \/ x = a.parent /\ a.parentBefore # a.parentAfter
             THEN 1 ELSE 0
    /\ \A x \in TaskIds : \A i \in 1..Len(history[x]) :
          history[x][i].by # <<>> =>
             \E a \in acceptances : history[x][i].by = <<a.task, a.key>>
    /\ \A r \in Requests :
          reqs[r].expect # None /\ reqs[r].pc \notin {"new", "begun", "done"} =>
             tasks[reqs[r].call.task].updatedAt = reqs[r].expect

\* The children that were counted before a parent is completed are its
\* children when the completion commits: none is created or moved in between
\* (the foreign keys of parent_id and task_change_events against the row lock).
ParentCompletedAsCounted ==
    \A r \in Requests :
        reqs[r].pc \in {"complete", "written"} /\ reqs[r].call.effect = "complete_task_and_parent" =>
            Children(r, tasks[reqs[r].call.task].parent) = reqs[r].write.saw

\* The three together: what the store has written about status changes, their
\* authors and their reasons is what happened (writeHistory,
\* RecordHumanAcceptance, completeParentForAcceptanceTx).
AuditIsTrue == HistoryIsChain /\ AcceptanceAppliesOnce /\ ParentCompletedAsCounted

\* What the change feed shows of a task (scanTaskSummary).
Summary(t) ==
    [row |-> tasks[t],
     dependencies |-> {d \in TaskIds : <<t, d>> \in deps},
     unfinished |-> {d \in TaskIds : <<t, d>> \in deps /\ ~dependencySatisfiedStatus(tasks[d].status)},
     subtasks |-> {x \in TaskIds : tasks[x].parent = t}]

\* No summary goes stale in silence: a commit that changes what the feed shows
\* of a task brings an event of that task (recordTaskChangesTx), although the
\* dependents were listed before the commit.
FeedCoversChanges ==
    [][<<tasks, deps>> # <<tasks, deps>>' => \A t \in TaskIds : Summary(t) # Summary(t)' =>
          \E r \in Requests : <<r, t>> \in changes' \ changes]_taskVars

\* docs/tasks-lifeboat-contract.md:193: "The parent chain must not contain
\* cycles."
ParentsAreAcyclic ==
    \A t \in TaskIds : \A p \in TaskIds : tasks[t].parent = p => ~createsParentCycle(t, p)

=============================================================================
