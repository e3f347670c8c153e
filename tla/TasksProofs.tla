---------------------------- MODULE TasksProofs ----------------------------
(***************************************************************************)
(* Proofs about module Tasks, for every finite set of tasks and any number *)
(* of requests, calls and keys.                                            *)
(***************************************************************************)
EXTENDS Tasks, FiniteSetTheorems, SequenceTheorems, TLAPS

-----------------------------------------------------------------------------
(* What a request knows                                                      *)

InFlight(q) == q.pc \notin {"new", "done"}
Holding(q) == q.pc \notin {"new", "done", "begun"}
Locking(q) == Holding(q) /\ q.call.op \in {"update", "review", "accept"}
Accepting(q) == Holding(q) /\ q.call.op = "accept"
WithParent(q) == Accepting(q) /\ q.call.effect = "complete_task_and_parent"
ParentLocked(q) == WithParent(q) /\ q.pc \in {"count", "complete", "written"}

\* Where the operations are, and what they have not done yet.
Placed(q) ==
    /\ q.pc \in {"new", "done"} => q = NoRequest(q.pc)
    /\ InFlight(q) => q.call \in Calls
    /\ q.pc = "begun" => q.excl = {}
    /\ q.pc \in {"begun", "locked", "checked"} => q.share = {} /\ q.write = NoWrite
    /\ q.pc = "locked" => q.call.op \in {"update", "accept"}
    /\ q.pc = "checked" => q.call.op \in {"create", "update", "review", "add"}
    /\ q.pc \in {"parent", "count", "complete"} => WithParent(q)
    /\ InFlight(q) /\ q.call.op # "accept" => q.expect = None

\* The locked rows are as they were read.
Locked(q) ==
    /\ InFlight(q) => IF q.call.op = "create" THEN ~Exists(q.call.task) ELSE Exists(q.call.task)
    /\ \A t \in q.excl : Exists(t)
    /\ Locking(q) => q.call.task \in q.excl /\ q.cur = tasks[q.call.task].status
    /\ Accepting(q) => ~Replayed(q.call) /\ q.expect \in {None, tasks[q.call.task].updatedAt}
    /\ ParentLocked(q) => tasks[q.call.task].parent \in q.excl

\* The tasks a checked request names are rows.
Named(q) ==
    /\ q.pc = "checked" /\ q.call.op \in {"create", "update"} /\ q.call.parent \notin {None, Keep} =>
          Exists(q.call.parent)
    /\ q.pc = "checked" /\ q.call.op = "create" => q.call.parent # Keep
    /\ q.pc = "checked" /\ q.call.op \in {"create", "add"} /\ q.call.on # None => Exists(q.call.on)
    /\ q.pc = "checked" /\ q.call.op = "add" => q.call.on # None

\* A row that is written is locked or new, and the feed is told of it and of
\* those that depend on it; its parents, if it is moved, are shared and told;
\* an acceptance completes its task and the parent, and moves neither.
RowFits(q, w, t) ==
    LET row == w.rows[t] IN
    /\ IF q.call.op = "create" THEN t = q.call.task ELSE t \in q.excl
    /\ row.status # "absent" /\ (q.call.op = "create" => row.status = "planned")
    /\ row.parent # None => Exists(row.parent)
    /\ t \in w.notify
    /\ row.parent # tasks[t].parent => {row.parent, tasks[t].parent} \ {None} \subseteq q.share \cap w.notify
    /\ q.call.op # "create" /\ row.status # tasks[t].status =>
          (\E e \in w.log : e.task = t) /\ Dependents(t) \subseteq w.notify
    /\ q.call.op = "accept" =>
          /\ row.status = "done" /\ row.parent = tasks[t].parent
          /\ t = q.call.task \/ (WithParent(q) /\ t = tasks[q.call.task].parent)

AuthorOf(q) == IF q.call.op = "accept" THEN <<q.call.task, q.call.key>> ELSE <<>>

\* An entry of the log is about a row that is written.
EntryFits(q, w, e) ==
    /\ q.call.op # "create"
    /\ w.rows[e.task] # None
    /\ e.old = tasks[e.task].status /\ e.new = w.rows[e.task].status /\ e.old # e.new
    /\ e.by = AuthorOf(q)

WriteFits(q, w) ==
    /\ \A t \in TaskIds : w.rows[t] # None => RowFits(q, w, t)
    /\ \A e \in w.log : EntryFits(q, w, e)
    /\ \A e \in w.add : e[1] \in w.notify /\ e[2] \in q.share
    /\ \A e \in w.del : e[1] \in w.notify

SeenBy(q, t) == IF q.write.rows[t] = None THEN tasks[t] ELSE q.write.rows[t]
ChildrenBy(q, p) == {t \in TaskIds : SeenBy(q, t).parent = p}

Counted(q) ==
    WithParent(q) /\ q.pc \in {"complete", "written"} =>
        ChildrenBy(q, tasks[q.call.task].parent) = q.write.saw

Fits(q) ==
    Placed(q) /\ Locked(q) /\ Named(q) /\ Counted(q) /\ WriteFits(q, q.write)

-----------------------------------------------------------------------------
(* The invariant                                                             *)

Exclusive ==
    \A r, q \in Requests : r # q => reqs[r].excl \cap (reqs[q].excl \cup reqs[q].share) = {}

Creating(q) == InFlight(q) /\ q.call.op = "create"

CreatesDiffer ==
    \A r, q \in Requests :
        r # q /\ Creating(reqs[r]) /\ Creating(reqs[q]) => reqs[r].call.task # reqs[q].call.task

\* Parents are rows, and what is not a row has no parent and no history.
Rooted ==
    \A t \in TaskIds :
        /\ tasks[t].parent # None => Exists(t) /\ Exists(tasks[t].parent)
        /\ ~Exists(t) => history[t] = <<>>

Chained ==
    \A t \in TaskIds : LET h == history[t] IN
       /\ \A i \in 2..Len(h) : h[i].old = h[i - 1].new
       /\ h # <<>> => h[Len(h)].new = tasks[t].status

EntriesBy(h, author) == {i \in 1..Len(h) : h[i].by = author}

Recorded ==
    /\ \A a \in acceptances, x \in TaskIds :
          Cardinality(EntriesBy(history[x], <<a.task, a.key>>)) =
             IF \/ x = a.task /\ a.before # a.after
                \/ x = a.parent /\ a.parentBefore # a.parentAfter
             THEN 1 ELSE 0
    /\ \A x \in TaskIds : \A i \in 1..Len(history[x]) :
          history[x][i].by # <<>> =>
             \E a \in acceptances : history[x][i].by = <<a.task, a.key>>

TasksInv ==
    /\ TasksTypeOK
    /\ \A r \in Requests : Fits(reqs[r])
    /\ Exclusive /\ CreatesDiffer /\ Rooted /\ Chained /\ Recorded


-----------------------------------------------------------------------------
(* Types of writes and requests                                              *)

LEMMA StartTypes ==
    /\ NoWrite \in Write
    /\ NoRequest("new") \in Request /\ NoRequest("done") \in Request
<1>1. NoWrite \in Write
  BY DEF NoWrite, Write
<1> QED
  BY <1>1 DEF NoRequest, Request

\* What NoWrite and NoRequest hold.
LEMMA StartFields ==
    /\ \A t \in TaskIds : NoWrite.rows[t] = None
    /\ NoWrite.log = {} /\ NoWrite.add = {} /\ NoWrite.del = {} /\ NoWrite.notify = {} /\ NoWrite.saw = {}
    /\ \A pc \in {"new", "done", "begun"} :
          /\ NoRequest(pc).pc = pc /\ NoRequest(pc).excl = {} /\ NoRequest(pc).share = {}
          /\ NoRequest(pc).write = NoWrite /\ NoRequest(pc).expect = None
BY DEF NoWrite, NoRequest

\* A request that is over, or not begun, knows nothing.
LEMMA IdleFits ==
    ASSUME NEW q \in {NoRequest("new"), NoRequest("done")}
    PROVE  Fits(q) /\ ~InFlight(q) /\ q.excl = {} /\ q.share = {} /\ q \in Request
<1>1. /\ q \in Request /\ q.pc \in {"new", "done"} /\ q = NoRequest(q.pc)
      /\ q.excl = {} /\ q.share = {} /\ q.write = NoWrite
  BY StartTypes, StartFields
<1>2. ~InFlight(q) /\ ~Holding(q)
  BY <1>1 DEF InFlight, Holding
<1>3. Placed(q) /\ Locked(q) /\ Named(q) /\ Counted(q)
  BY <1>1, <1>2 DEF Placed, Locked, Named, Counted, Locking, Accepting, ParentLocked, WithParent
<1>4. /\ \A t \in TaskIds : q.write.rows[t] = None
      /\ q.write.log = {} /\ q.write.add = {} /\ q.write.del = {}
  BY <1>1, StartFields
<1> QED
  BY <1>1, <1>2, <1>3, <1>4 DEF Fits, WriteFits

\* The same in the next state: such a request names no table.
LEMMA IdleFitsAlways ==
    ASSUME NEW q \in {NoRequest("new"), NoRequest("done")}
    PROVE  Fits(q)'
<1>1. /\ q \in Request /\ q.pc \in {"new", "done"} /\ q = NoRequest(q.pc)
      /\ q.excl = {} /\ q.share = {} /\ q.write = NoWrite
  BY StartTypes, StartFields
<1>2. ~InFlight(q) /\ ~Holding(q)
  BY <1>1 DEF InFlight, Holding
<1>3. Placed(q)' /\ Locked(q)' /\ Named(q)' /\ Counted(q)'
  BY <1>1, <1>2 DEF Placed, Locked, Named, Counted, Locking, Accepting, ParentLocked, WithParent, InFlight, Holding
<1>4. /\ \A t \in TaskIds : q.write.rows[t] = None
      /\ q.write.log = {} /\ q.write.add = {} /\ q.write.del = {}
  BY <1>1, StartFields
<1> QED
  BY <1>1, <1>2, <1>3, <1>4 DEF Fits, WriteFits

-----------------------------------------------------------------------------
(* Steps that write no table                                                 *)

\* No other request holds what q holds.
Free(r, q) ==
    \A p \in Requests \ {r} :
        /\ q.excl \cap (reqs[p].excl \cup reqs[p].share) = {}
        /\ reqs[p].excl \cap q.share = {}

\* No other request creates what q creates.
Fresh(r, q) ==
    Creating(q) => \A p \in Requests \ {r} : Creating(reqs[p]) => reqs[p].call.task # q.call.task

\* A request that fits the tables of the next state fits as the next state's
\* request.
LEMMA FitsPrimed ==
    ASSUME NEW p \in Requests, NEW o, o = reqs'[p], Fits(o)'
    PROVE  Fits(reqs[p])'
<1>1. Placed(reqs[p])'
  BY DEF Fits, Placed, InFlight, WithParent, Accepting, Holding
<1>2. Locked(reqs[p])'
  BY DEF Fits, Locked, InFlight, Holding, Locking, Accepting, ParentLocked, WithParent, Exists, Replayed
<1>3. Named(reqs[p])'
  BY DEF Fits, Named, Exists
<1>4. Counted(reqs[p])'
  BY DEF Fits, Counted, WithParent, Accepting, Holding, ChildrenBy, SeenBy
<1>5. (\A t \in TaskIds : reqs[p].write.rows[t] # None => RowFits(reqs[p], reqs[p].write, t))'
  BY DEF Fits, WriteFits, RowFits, WithParent, Accepting, Holding, Exists, Dependents
<1>6. (\A e \in reqs[p].write.log : EntryFits(reqs[p], reqs[p].write, e))'
  BY DEF Fits, WriteFits, EntryFits, AuthorOf
<1>7. (/\ \A e \in reqs[p].write.add : e[1] \in reqs[p].write.notify /\ e[2] \in reqs[p].share
       /\ \A e \in reqs[p].write.del : e[1] \in reqs[p].write.notify)'
  BY DEF Fits, WriteFits
<1> QED
  BY <1>1, <1>2, <1>3, <1>4, <1>5, <1>6, <1>7 DEF Fits, WriteFits

LEMMA StepKept ==
    ASSUME TasksInv, NEW r \in Requests, NEW q \in Request, Becomes(r, q), UNCHANGED tables,
           Fits(q), Free(r, q), Fresh(r, q)
    PROVE  TasksInv'
<1>1. /\ reqs \in [Requests -> Request] /\ reqs' = [reqs EXCEPT ![r] = q]
      /\ UNCHANGED <<tasks, deps, history, changes, acceptances>>
  BY DEF TasksInv, TasksTypeOK, Becomes, tables
<1>2. reqs'[r] = q /\ \A p \in Requests \ {r} : reqs'[p] = reqs[p]
  BY <1>1
<1>3. TasksTypeOK'
  BY <1>1 DEF TasksInv, TasksTypeOK
<1>4. ASSUME NEW p \in Requests PROVE Fits(reqs[p])'
  <2>1. PICK o \in Request : o = reqs'[p]
    BY <1>3 DEF TasksTypeOK
  <2>2. Fits(o)
    BY <1>2, <2>1 DEF TasksInv
  <2>3. Fits(o)'
    BY <1>1, <2>2 DEF Fits, Placed, Locked, Named, Counted, Locking, Accepting, ParentLocked,
       WithParent, Exists, Replayed, WriteFits, RowFits, EntryFits, ChildrenBy, SeenBy, Dependents
  <2> QED
    BY <2>1, <2>3, FitsPrimed
<1>5. Exclusive'
  BY <1>2 DEF TasksInv, Exclusive, Free
<1>6. CreatesDiffer'
  BY <1>2 DEF TasksInv, CreatesDiffer, Fresh, Creating, InFlight
<1>7. Rooted' /\ Chained'
  BY <1>1 DEF TasksInv, Rooted, Chained, Exists
<1>8. Recorded'
  BY <1>1, Zenon DEF TasksInv, Recorded, EntriesBy
<1> QED
  BY <1>3, <1>4, <1>5, <1>6, <1>7, <1>8 DEF TasksInv

\* A request ends.
LEMMA EndsKept ==
    ASSUME TasksInv, NEW r \in Requests, Ends(r)
    PROVE  TasksInv'
<1>1. PICK q \in {NoRequest("new"), NoRequest("done")} : q = NoRequest("done")
  OBVIOUS
<1>2. Fits(q) /\ ~InFlight(q) /\ q.excl = {} /\ q.share = {} /\ q \in Request
  BY <1>1, IdleFits
<1>3. Becomes(r, q) /\ UNCHANGED tables
  BY <1>1 DEF Ends
<1>4. Free(r, q) /\ Fresh(r, q)
  BY <1>2 DEF Free, Fresh, Creating
<1> QED
  BY <1>2, <1>3, <1>4, StepKept

\* A request goes on with the locks it has.
LEMMA GoesOn ==
    ASSUME TasksInv, NEW r \in Requests, NEW q \in Request, Becomes(r, q), UNCHANGED tables,
           InFlight(reqs[r]), q.call = reqs[r].call, q.excl = reqs[r].excl, q.share = reqs[r].share,
           Fits(q)
    PROVE  TasksInv'
<1>1. Free(r, q)
  BY DEF TasksInv, Exclusive, Free
<1>2. Fresh(r, q)
  BY DEF TasksInv, CreatesDiffer, Fresh, Creating, InFlight
<1> QED
  BY <1>1, <1>2, StepKept

-----------------------------------------------------------------------------
(* Requests that have written nothing                                        *)

LEMMA UnwrittenFits ==
    ASSUME NEW q \in Request, q.write = NoWrite, q.pc \notin {"complete", "written"},
           Placed(q), Locked(q), Named(q)
    PROVE  Fits(q)
<1>1. /\ \A t \in TaskIds : q.write.rows[t] = None
      /\ q.write.log = {} /\ q.write.add = {} /\ q.write.del = {}
  BY StartFields
<1>2. Counted(q)
  BY DEF Counted
<1> QED
  BY <1>1, <1>2 DEF Fits, WriteFits

\* The same request, further on.
Moved(o, q, pc) ==
    /\ q = [o EXCEPT !.pc = pc]
    /\ q.pc = pc /\ q.call = o.call /\ q.patch = o.patch /\ q.cur = o.cur /\ q.expect = o.expect
    /\ q.excl = o.excl /\ q.share = o.share /\ q.write = o.write

Positions == {"begun", "locked", "checked", "parent", "count", "complete", "written"}

LEMMA MovedRequest ==
    ASSUME NEW o \in Request, NEW pc \in Positions
    PROVE  \E q \in Request : Moved(o, q, pc)
<1>1. [o EXCEPT !.pc = pc] \in Request
  BY DEF Request, Positions
<1>2. PICK q \in Request : q = [o EXCEPT !.pc = pc]
  BY <1>1
<1>3. Moved(o, q, pc)
  BY <1>2 DEF Request, Moved
<1> QED
  BY <1>3

LEMMA CallTypes ==
    ASSUME NEW c \in Calls
    PROVE  /\ c \in Call
           /\ c.op \in {"create", "update", "review", "add", "remove", "accept"}
           /\ c.task \in TaskIds
           /\ c.parent \in TaskIds \cup {None, Keep} /\ c.on \in TaskIds \cup {None}
           /\ c.status \in Status \cup {None}
           /\ c.op = "accept" => c.key \in Keys /\ c.effect \in Effect
           /\ c.op # "accept" => c.effect = None /\ ~c.pinned
<1>1. c \in Call
  BY TasksAssumption
<1> QED
  BY <1>1, CallsAssumption DEF Call

\* A request that passes its checks.
LEMMA ChecksKept ==
    ASSUME TasksInv, NEW r \in Requests, NEW o \in Request, o = reqs[r],
           o.pc \in {"begun", "locked"}, o.call.op \in {"create", "update", "add"},
           o.call.op = "update" => o.pc = "locked",
           o.call.op \in {"create", "update"} /\ o.call.parent \notin {None, Keep} => Exists(o.call.parent),
           o.call.op = "create" => o.call.parent # Keep,
           o.call.op \in {"create", "add"} /\ o.call.on # None => Exists(o.call.on),
           o.call.op = "add" => o.call.on # None,
           Becomes(r, [reqs[r] EXCEPT !.pc = "checked"]), UNCHANGED tables
    PROVE  TasksInv'
<1>1. Fits(o)
  BY DEF TasksInv
<1>2. PICK q \in Request : Moved(o, q, "checked")
  BY MovedRequest DEF Positions
<1>3. Placed(q)
  BY <1>1, <1>2 DEF Moved, Fits, Placed, InFlight
<1>4. Locked(q)
  BY <1>1, <1>2 DEF Moved, Fits, Placed, Locked, InFlight, Locking, Accepting, ParentLocked, WithParent, Holding
<1>5. Named(q)
  BY <1>2 DEF Moved, Named
<1>6. Fits(q)
  BY <1>1, <1>2, <1>3, <1>4, <1>5, UnwrittenFits DEF Moved, Fits, Placed
<1>7. InFlight(reqs[r])
  BY DEF InFlight
<1>8. Becomes(r, q)
  BY <1>2 DEF Moved
<1> QED
  BY <1>2, <1>6, <1>7, <1>8, GoesOn DEF Moved

LEMMA CheckCreateKept ==
    ASSUME TasksInv, NEW r \in Requests, CheckCreate(r)
    PROVE  TasksInv'
<1>1. PICK o \in Request : o = reqs[r]
  BY DEF TasksInv, TasksTypeOK
<1>2. CASE (o.call.parent # None => Exists(o.call.parent)) /\ (o.call.on # None => Exists(o.call.on))
  <2>1. o.call.parent # Keep
    BY <1>2, TasksAssumption DEF Exists
  <2> QED
    BY <1>1, <1>2, <2>1, ChecksKept DEF CheckCreate, At
<1>3. CASE ~((o.call.parent # None => Exists(o.call.parent)) /\ (o.call.on # None => Exists(o.call.on)))
  BY <1>1, <1>3, EndsKept DEF CheckCreate
<1> QED
  BY <1>2, <1>3

LEMMA CheckUpdateKept ==
    ASSUME TasksInv, NEW r \in Requests, CheckUpdate(r)
    PROVE  TasksInv'
<1>1. PICK o \in Request : o = reqs[r]
  BY DEF TasksInv, TasksTypeOK
<1>2. CASE (HasParent(o.call) => validParent(o.call.task, o.call.parent)) /\ taskPatchChanges(r)
  <2>1. o.call.parent \notin {None, Keep} => Exists(o.call.parent)
    BY <1>1, <1>2 DEF HasParent, validParent, CheckUpdate, At
  <2> QED
    BY <1>1, <1>2, <2>1, ChecksKept DEF CheckUpdate, At
<1>3. CASE ~((HasParent(o.call) => validParent(o.call.task, o.call.parent)) /\ taskPatchChanges(r))
  BY <1>1, <1>3, EndsKept DEF CheckUpdate
<1> QED
  BY <1>2, <1>3

LEMMA CheckAddKept ==
    ASSUME TasksInv, NEW r \in Requests, CheckAdd(r)
    PROVE  TasksInv'
<1>1. PICK o \in Request : o = reqs[r]
  BY DEF TasksInv, TasksTypeOK
<1>2. CASE o.call.on # o.call.task /\ Exists(o.call.on) /\ ~createsDependencyCycle(o.call.task, o.call.on)
  <2>1. o.call.on # None
    BY <1>2, TasksAssumption DEF Exists
  <2> QED
    BY <1>1, <1>2, <2>1, ChecksKept DEF CheckAdd, At
<1>3. CASE ~(o.call.on # o.call.task /\ Exists(o.call.on) /\ ~createsDependencyCycle(o.call.task, o.call.on))
  BY <1>1, <1>3, EndsKept DEF CheckAdd
<1> QED
  BY <1>2, <1>3

-----------------------------------------------------------------------------
(* Requests that lock their task                                             *)

LEMMA LocksKept ==
    ASSUME TasksInv, NEW r \in Requests, NEW o \in Request, o = reqs[r], o.pc = "begun",
           CanLock(r, {o.call.task}),
           NEW q \in Request, Becomes(r, q), UNCHANGED tables,
           \/ q.pc = "locked" /\ o.call.op \in {"update", "accept"}
           \/ q.pc = "checked" /\ o.call.op = "review",
           q.call = o.call, q.excl = {o.call.task}, q.share = o.share, q.write = o.write,
           q.expect = o.expect, q.cur = tasks[o.call.task].status,
           o.call.op = "accept" =>
               ~Replayed(o.call) /\ o.expect \in {None, tasks[o.call.task].updatedAt}
    PROVE  TasksInv'
<1>1. Fits(o)
  BY DEF TasksInv
<1>2. Placed(q)
  BY <1>1 DEF Fits, Placed, InFlight
<1>3. Locked(q)
  BY <1>1 DEF Fits, Locked, InFlight, Locking, Accepting, ParentLocked, WithParent, Holding
<1>4. Named(q)
  BY DEF Named
<1>5. Fits(q)
  BY <1>1, <1>2, <1>3, <1>4, UnwrittenFits DEF Fits, Placed
<1>6. Free(r, q)
  BY <1>1 DEF Fits, Placed, Free, CanLock
<1>7. Fresh(r, q)
  BY DEF Fresh, Creating
<1> QED
  BY <1>5, <1>6, <1>7, StepKept

LEMMA LockForUpdateKept ==
    ASSUME TasksInv, NEW r \in Requests, LockForUpdate(r)
    PROVE  TasksInv'
<1>1. PICK o \in Request : o = reqs[r]
  BY DEF TasksInv, TasksTypeOK
<1>2. o.pc = "begun" /\ o.call.op = "update" /\ o.call \in Calls /\ Exists(o.call.task) /\ Fits(o)
  BY <1>1 DEF TasksInv, Fits, Placed, Locked, LockForUpdate, At, InFlight
<1>3. PICK t \in TaskIds : t = o.call.task
  BY <1>2, CallTypes
<1>4. PICK s \in Status : s = tasks[t].status
  BY <1>2, <1>3 DEF Exists, TasksInv, TasksTypeOK, Task
<1>5. PICK p \in Request : Moved(o, p, "locked")
  BY MovedRequest DEF Positions
<1>6. [p EXCEPT !.excl = {t}] \in Request
  BY DEF Request
<1>7. PICK x \in Request : x = [p EXCEPT !.excl = {t}]
  BY <1>6
<1>8. [x EXCEPT !.cur = s] \in Request
  BY DEF Request
<1>9. PICK q \in Request : q = [x EXCEPT !.cur = s]
  BY <1>8
<1>10. q = [o EXCEPT !.pc = "locked", !.excl = {t}, !.cur = s]
  BY <1>5, <1>7, <1>9 DEF Moved, Request
<1>11. /\ q.pc = "locked" /\ q.call = o.call /\ q.excl = {t} /\ q.share = o.share /\ q.write = o.write
       /\ q.expect = o.expect /\ q.cur = s
  BY <1>5, <1>7, <1>9 DEF Moved, Request
<1>12. Becomes(r, q) /\ CanLock(r, {t}) /\ UNCHANGED tables
  BY <1>1, <1>3, <1>4, <1>10 DEF LockForUpdate
<1> QED
  BY <1>1, <1>2, <1>3, <1>4, <1>11, <1>12, LocksKept

LEMMA LockForReviewKept ==
    ASSUME TasksInv, NEW r \in Requests, LockForReview(r)
    PROVE  TasksInv'
<1>1. PICK o \in Request : o = reqs[r]
  BY DEF TasksInv, TasksTypeOK
<1>2. o.pc = "begun" /\ o.call.op = "review" /\ o.call \in Calls /\ Fits(o)
  BY <1>1 DEF TasksInv, Fits, Placed, LockForReview, At, InFlight
<1>3. PICK t \in TaskIds : t = o.call.task
  BY <1>2, CallTypes
<1>4. CASE tasks[t].status # "in_progress"
  BY <1>1, <1>3, <1>4, EndsKept DEF LockForReview
<1>5. CASE tasks[t].status = "in_progress"
  <2>1. PICK p \in Request : Moved(o, p, "checked")
    BY MovedRequest DEF Positions
  <2>2. [p EXCEPT !.excl = {t}] \in Request
    BY DEF Request
  <2>3. PICK x \in Request : x = [p EXCEPT !.excl = {t}]
    BY <2>2
  <2>4. [x EXCEPT !.cur = "in_progress"] \in Request
    BY DEF Request, Status
  <2>5. PICK y \in Request : y = [x EXCEPT !.cur = "in_progress"]
    BY <2>4
  <2>6. [y EXCEPT !.patch.status = "review"] \in Request
    BY DEF Request, Status
  <2>7. PICK q \in Request : q = [y EXCEPT !.patch.status = "review"]
    BY <2>6
  <2>8. q = [o EXCEPT !.pc = "checked", !.excl = {t}, !.cur = "in_progress", !.patch.status = "review"]
    BY <2>1, <2>3, <2>5, <2>7 DEF Moved, Request
  <2>9. /\ q.pc = "checked" /\ q.call = o.call /\ q.excl = {t} /\ q.share = o.share /\ q.write = o.write
        /\ q.expect = o.expect /\ q.cur = tasks[t].status
    BY <1>5, <2>1, <2>3, <2>5, <2>7 DEF Moved, Request
  <2>10. Becomes(r, q) /\ CanLock(r, {t}) /\ UNCHANGED tables
    BY <1>1, <1>3, <1>5, <2>8 DEF LockForReview
  <2> QED
    BY <1>1, <1>2, <1>3, <2>9, <2>10, LocksKept
<1> QED
  BY <1>4, <1>5

LEMMA LockForAcceptanceKept ==
    ASSUME TasksInv, NEW r \in Requests, LockForAcceptance(r)
    PROVE  TasksInv'
<1>1. PICK o \in Request : o = reqs[r]
  BY DEF TasksInv, TasksTypeOK
<1>2. o.pc = "begun" /\ o.call.op = "accept" /\ o.call \in Calls /\ Exists(o.call.task) /\ Fits(o)
  BY <1>1 DEF TasksInv, Fits, Placed, Locked, LockForAcceptance, At, InFlight
<1>3. PICK t \in TaskIds : t = o.call.task
  BY <1>2, CallTypes
<1>4. PICK s \in Status : s = tasks[t].status
  BY <1>2, <1>3 DEF Exists, TasksInv, TasksTypeOK, Task
<1> DEFINE refused == \/ Replayed(o.call)
                      \/ o.expect \notin {None, tasks[t].updatedAt}
                      \/ tasks[t].status = "cancelled" /\ o.call.effect # "record_only"
<1>5. CASE refused
  BY <1>1, <1>3, <1>5, EndsKept DEF LockForAcceptance
<1>6. CASE ~refused
  <2>1. PICK p \in Request : Moved(o, p, "locked")
    BY MovedRequest DEF Positions
  <2>2. [p EXCEPT !.excl = {t}] \in Request
    BY DEF Request
  <2>3. PICK x \in Request : x = [p EXCEPT !.excl = {t}]
    BY <2>2
  <2>4. [x EXCEPT !.cur = s] \in Request
    BY DEF Request
  <2>5. PICK q \in Request : q = [x EXCEPT !.cur = s]
    BY <2>4
  <2>6. q = [o EXCEPT !.pc = "locked", !.excl = {t}, !.cur = s]
    BY <2>1, <2>3, <2>5 DEF Moved, Request
  <2>7. /\ q.pc = "locked" /\ q.call = o.call /\ q.excl = {t} /\ q.share = o.share /\ q.write = o.write
        /\ q.expect = o.expect /\ q.cur = s
    BY <2>1, <2>3, <2>5 DEF Moved, Request
  <2>8. Becomes(r, q) /\ CanLock(r, {t}) /\ UNCHANGED tables
    BY <1>1, <1>3, <1>4, <1>6, <2>6 DEF LockForAcceptance
  <2> QED
    BY <1>1, <1>2, <1>3, <1>4, <1>6, <2>7, <2>8, LocksKept
<1> QED
  BY <1>5, <1>6

-----------------------------------------------------------------------------
(* Arrival                                                                   *)

Begun(c, status, context, expect) ==
    [NoRequest("begun") EXCEPT !.call = c, !.patch = [status |-> status, context |-> context],
                               !.expect = expect]

LEMMA BegunRequest ==
    ASSUME NEW c \in Calls, NEW status \in Status \cup {None}, NEW context \in {"keep", "set", "clear"},
           NEW expect \in Requests \cup {0, None}
    PROVE  LET q == Begun(c, status, context, expect) IN
           /\ q \in Request
           /\ q.pc = "begun" /\ q.call = c /\ q.expect = expect
           /\ q.excl = {} /\ q.share = {} /\ q.write = NoWrite
<1>1. NoWrite \in Write
  BY StartTypes
<1> QED
  BY <1>1 DEF NoRequest, Request, Begun

LEMMA ArriveKept ==
    ASSUME TasksInv, NEW r \in Requests, NEW c \in Calls, Arrive(r, c)
    PROVE  TasksInv'
<1>1. c.task \in TaskIds /\ c.status \in Status \cup {None}
  BY CallTypes
<1>2. PICK row \in Task : row = tasks[c.task]
  BY <1>1 DEF TasksInv, TasksTypeOK
<1>3. PICK expect \in Requests \cup {0, None} : expect = IF c.pinned THEN tasks[c.task].updatedAt ELSE None
  BY <1>2 DEF Task
<1>4. PICK status \in Status \cup {None}, context \in {"keep", "set", "clear"} :
          [status |-> status, context |-> context] =
              IF c.op = "update" THEN buildPatch(row, c) ELSE NoRequest("begun").patch
  BY <1>1 DEF buildPatch, NoRequest
<1> DEFINE next == Begun(c, status, context, expect)
<1>5. /\ next \in Request
      /\ next.pc = "begun" /\ next.call = c /\ next.expect = expect
      /\ next.excl = {} /\ next.share = {} /\ next.write = NoWrite
  BY BegunRequest
<1>6. next = [NoRequest("begun") EXCEPT !.call = c,
                 !.patch = IF c.op = "update" THEN buildPatch(row, c) ELSE @,
                 !.expect = expect]
  BY <1>4 DEF NoRequest, Begun
<1>7. Becomes(r, next) /\ UNCHANGED tables
  BY <1>2, <1>3, <1>6 DEF Arrive
<1> HIDE DEF next
<1>8. PICK q \in Request : q = next
  BY <1>5
<1>9. Placed(q)
  BY <1>3, <1>5, <1>8, CallTypes DEF Placed, InFlight
<1>10. Locked(q)
  BY <1>5, <1>8 DEF Locked, InFlight, Locking, Accepting, ParentLocked, WithParent, Holding, Arrive
<1>11. Named(q)
  BY <1>5, <1>8 DEF Named
<1>12. Fits(q)
  BY <1>5, <1>8, <1>9, <1>10, <1>11, UnwrittenFits
<1>13. Free(r, q)
  BY <1>5, <1>8 DEF Free
<1>14. Fresh(r, q)
  BY <1>5, <1>8 DEF Fresh, Creating, InFlight, Arrive
<1> QED
  BY <1>7, <1>8, <1>12, <1>13, <1>14, StepKept

-----------------------------------------------------------------------------
(* Writes                                                                    *)

IsWritten(v, w, t, row, old, by, notify) ==
    /\ v = Written(w, t, row, old, by, notify)
    /\ v.rows = [w.rows EXCEPT ![t] = row]
    /\ v.log = IF row.status = old THEN w.log
               ELSE w.log \cup {[task |-> t, old |-> old, new |-> row.status, by |-> by]}
    /\ v.notify = w.notify \cup notify
    /\ v.add = w.add /\ v.del = w.del /\ v.saw = w.saw

LEMMA WrittenTypes ==
    ASSUME NEW w \in Write, NEW t \in TaskIds, NEW row \in Task, row.status # "absent",
           NEW old \in Status, NEW by \in Author, NEW notify \in SUBSET TaskIds
    PROVE  \E v \in Write : IsWritten(v, w, t, row, old, by, notify)
<1>1. [w EXCEPT !.rows[t] = row] \in Write
  BY DEF Write
<1>2. PICK x \in Write : x = [w EXCEPT !.rows[t] = row]
  BY <1>1
<1>3. /\ x.rows = [w.rows EXCEPT ![t] = row] /\ x.log = w.log /\ x.notify = w.notify
      /\ x.add = w.add /\ x.del = w.del /\ x.saw = w.saw
  BY <1>2 DEF Write
<1>4. row.status \in Status
  BY DEF Task
<1>5. [task |-> t, old |-> old, new |-> row.status, by |-> by] \in Entry
  BY <1>4 DEF Entry
<1>6. PICK log \in SUBSET Entry :
          log = IF row.status = old THEN w.log
                ELSE w.log \cup {[task |-> t, old |-> old, new |-> row.status, by |-> by]}
  BY <1>5 DEF Write
<1>7. [x EXCEPT !.log = log] \in Write
  BY DEF Write
<1>8. PICK y \in Write : y = [x EXCEPT !.log = log]
  BY <1>7
<1>9. /\ y.rows = x.rows /\ y.log = log /\ y.notify = x.notify
      /\ y.add = x.add /\ y.del = x.del /\ y.saw = x.saw
  BY <1>8 DEF Write
<1>10. w.notify \cup notify \in SUBSET TaskIds
  BY DEF Write
<1>11. [y EXCEPT !.notify = w.notify \cup notify] \in Write
  BY <1>10 DEF Write
<1>12. PICK v \in Write : v = [y EXCEPT !.notify = w.notify \cup notify]
  BY <1>11
<1>13. /\ v.rows = y.rows /\ v.log = y.log /\ v.notify = w.notify \cup notify
       /\ v.add = y.add /\ v.del = y.del /\ v.saw = y.saw
  BY <1>12 DEF Write
<1>14. v = Written(w, t, row, old, by, notify)
  BY <1>2, <1>6, <1>8, <1>12 DEF Write, Written
<1> QED
  BY <1>3, <1>6, <1>9, <1>13, <1>14 DEF IsWritten

\* The same request, with what it has written.
Wrote(o, q, pc, share, write) ==
    /\ q = [o EXCEPT !.pc = pc, !.share = share, !.write = write]
    /\ q.pc = pc /\ q.share = share /\ q.write = write
    /\ q.call = o.call /\ q.cur = o.cur /\ q.expect = o.expect /\ q.excl = o.excl

LEMMA WroteRequest ==
    ASSUME NEW o \in Request, NEW pc \in Positions, NEW share \in SUBSET TaskIds, NEW write \in Write
    PROVE  \E q \in Request : Wrote(o, q, pc, share, write)
<1>1. PICK p \in Request : Moved(o, p, pc)
  BY MovedRequest
<1>2. [p EXCEPT !.share = share] \in Request
  BY DEF Request
<1>3. PICK x \in Request : x = [p EXCEPT !.share = share]
  BY <1>2
<1>4. /\ x.pc = pc /\ x.share = share /\ x.call = o.call /\ x.cur = o.cur /\ x.expect = o.expect
      /\ x.excl = o.excl
  BY <1>1, <1>3 DEF Request, Moved
<1>5. [x EXCEPT !.write = write] \in Request
  BY DEF Request
<1>6. PICK q \in Request : q = [x EXCEPT !.write = write]
  BY <1>5
<1>7. q = [o EXCEPT !.pc = pc, !.share = share, !.write = write]
  BY <1>1, <1>3, <1>6 DEF Request, Moved
<1>8. /\ q.pc = x.pc /\ q.share = x.share /\ q.write = write /\ q.call = x.call /\ q.cur = x.cur
      /\ q.expect = x.expect /\ q.excl = x.excl
  BY <1>6 DEF Request
<1> QED
  BY <1>4, <1>7, <1>8 DEF Wrote


\* A request that has written what fits the rows, under the locks it has and
\* the shared ones it takes.
LEMMA WritesKept ==
    ASSUME TasksInv, NEW r \in Requests, NEW o \in Request, o = reqs[r], InFlight(o),
           NEW q \in Request, q.call = o.call, q.excl = o.excl, CanShare(r, q.share \ o.share),
           Fits(q), Becomes(r, q), UNCHANGED tables
    PROVE  TasksInv'
<1>1. Free(r, q)
  BY DEF TasksInv, Exclusive, CanShare, Free
<1>2. Fresh(r, q)
  BY DEF TasksInv, CreatesDiffer, Fresh, Creating, InFlight
<1> QED
  BY <1>1, <1>2, StepKept

LEMMA WriteCreateKept ==
    ASSUME TasksInv, NEW r \in Requests, WriteCreate(r)
    PROVE  TasksInv'
<1>1. PICK o \in Request : o = reqs[r]
  BY DEF TasksInv, TasksTypeOK
<1>2. o.pc = "checked" /\ o.call.op = "create" /\ o.call \in Calls /\ Fits(o) /\ InFlight(o)
  BY <1>1 DEF TasksInv, Fits, Placed, WriteCreate, At, InFlight
<1>3. PICK c \in Calls : c = o.call
  BY <1>2
<1>4. /\ c.task \in TaskIds /\ ~Exists(c.task) /\ c.parent \in TaskIds \cup {None} /\ c.on \in TaskIds \cup {None}
      /\ c.parent # None => Exists(c.parent)
  BY <1>2, <1>3, CallTypes DEF Fits, Named, Locked
<1> DEFINE row == [status |-> "planned", parent |-> c.parent, context |-> FALSE, updatedAt |-> r]
           told == {c.task, c.parent} \ {None}
           named == (told \cup {c.on}) \ {None}
           add == {<<c.task, d>> : d \in {c.on} \ {None}}
<1>5. row \in Task /\ row.status = "planned" /\ row.parent = c.parent
  BY <1>4, TasksAssumption DEF Task, Status
<1>6. told \in SUBSET TaskIds /\ named \in SUBSET TaskIds /\ add \in SUBSET (TaskIds \X TaskIds) /\ told \subseteq named
  BY <1>4
<1>7. "planned" \in Status /\ <<>> \in Author /\ NoWrite \in Write
  BY StartTypes DEF Status, Author
<1>8. PICK v \in Write :
          /\ v = Written(NoWrite, c.task, row, "planned", <<>>, told)
          /\ v.rows = [NoWrite.rows EXCEPT ![c.task] = row]
          /\ v.log = NoWrite.log /\ v.notify = told /\ v.del = {}
  <2> HIDE DEF row, told
  <2>1. PICK v \in Write : IsWritten(v, NoWrite, c.task, row, "planned", <<>>, told)
    BY <1>4, <1>5, <1>6, <1>7, WrittenTypes DEF Status
  <2> QED
    BY <1>5, <2>1, StartFields DEF IsWritten
<1>9. [v EXCEPT !.add = add] \in Write
  BY <1>6 DEF Write
<1>10. PICK w \in Write : w = [v EXCEPT !.add = add]
  BY <1>9
<1>11. w.rows = v.rows /\ w.log = v.log /\ w.notify = told /\ w.add = add /\ w.del = {}
  BY <1>8, <1>10 DEF Write
<1>12. PICK q \in Request : Wrote(o, q, "written", named, w)
  BY <1>6, WroteRequest DEF Positions
<1>13. q = [reqs[r] EXCEPT !.pc = "written", !.share = named,
               !.write = [Written(NoWrite, c.task, row, "planned", <<>>, told) EXCEPT !.add = add]]
  BY <1>1, <1>8, <1>10, <1>12 DEF Wrote
<1>14. Becomes(r, q) /\ CanShare(r, named) /\ UNCHANGED tables
  BY <1>1, <1>3, <1>13 DEF WriteCreate
<1> HIDE DEF row, told, named, add
<1>15. /\ w.log = {} /\ w.rows[c.task] = row
       /\ \A t \in TaskIds \ {c.task} : w.rows[t] = None
  BY <1>4, <1>5, <1>8, <1>11, StartFields DEF NoWrite
<1>16. /\ q.pc = "written" /\ q.call = c /\ q.excl = o.excl /\ q.share = named /\ q.write = w
       /\ q.expect = o.expect
  BY <1>3, <1>12 DEF Wrote
<1>17. Placed(q) /\ Named(q)
  BY <1>2, <1>3, <1>16 DEF Fits, Placed, Named, InFlight
<1>18. Locked(q) /\ Counted(q)
  BY <1>2, <1>3, <1>4, <1>16 DEF Fits, Locked, Counted, InFlight, Locking, Accepting, ParentLocked, WithParent, Holding
<1>19. RowFits(q, w, c.task)
  <2>1. tasks[c.task].parent = None
    BY <1>4 DEF TasksInv, Rooted
  <2>2. {c.parent, None} \ {None} \subseteq named \cap told /\ c.task \in told
    BY <1>4, TasksAssumption DEF named, told
  <2> QED
    BY <1>2, <1>3, <1>4, <1>5, <1>11, <1>15, <1>16, <2>1, <2>2 DEF RowFits
<1>20. Fits(q)
  <2>1. \A e \in w.add : e[1] \in w.notify /\ e[2] \in q.share
    <3>1. ASSUME NEW e \in w.add PROVE e[1] \in w.notify /\ e[2] \in q.share
      <4>1. PICK d \in {c.on} \ {None} : e = <<c.task, d>>
        BY <1>11, <3>1 DEF add
      <4>2. c.task \in told /\ d \in named
        BY <1>4, TasksAssumption DEF named, told
      <4> QED
        BY <1>11, <1>16, <4>1, <4>2
    <3> QED
      BY <3>1
  <2>2. \A t \in TaskIds : w.rows[t] # None => RowFits(q, w, t)
    BY <1>15, <1>19
  <2>3. WriteFits(q, w)
    BY <1>11, <1>15, <2>1, <2>2 DEF WriteFits
  <2> QED
    BY <1>16, <1>17, <1>18, <2>3 DEF Fits
<1>21. CanShare(r, q.share \ o.share)
  BY <1>14, <1>16 DEF CanShare
<1> QED
  BY <1>1, <1>2, <1>3, <1>14, <1>16, <1>20, <1>21, WritesKept

LEMMA PatchedTypes ==
    ASSUME TasksInv, NEW r \in Requests, NEW o \in Request, o = reqs[r],
           o.call \in Calls, Exists(o.call.task), HasParent(o.call) => o.call.parent \in TaskIds \cup {None}
    PROVE  /\ Patched(r) \in Task /\ Patched(r).status # "absent"
           /\ Patched(r).parent = IF HasParent(o.call) THEN o.call.parent ELSE tasks[o.call.task].parent
<1>1. PICK row \in Task : row = tasks[o.call.task] /\ row.status # "absent"
  BY DEF Exists, TasksInv, TasksTypeOK
<1>2. o.patch.status \in Status \cup {None} /\ o.patch.context \in {"keep", "set", "clear"}
  BY DEF Request
<1>3. /\ row.status \in Status /\ row.parent \in TaskIds \cup {None} /\ row.context \in BOOLEAN
  BY <1>1 DEF Task
<1>4. PICK status \in Status : status = IF o.patch.status = None THEN row.status ELSE o.patch.status
  BY <1>2, <1>3
<1>5. PICK parent \in TaskIds \cup {None} : parent = IF HasParent(o.call) THEN o.call.parent ELSE row.parent
  BY <1>3
<1>6. PICK context \in BOOLEAN :
          context = IF o.patch.context = "keep" THEN row.context ELSE o.patch.context = "set"
  BY <1>3
<1>7. Patched(r) = [status |-> status, parent |-> parent, context |-> context, updatedAt |-> r]
  BY <1>1, <1>4, <1>5, <1>6 DEF Patched
<1>8. "absent" \notin Status
  BY DEF Status
<1> QED
  BY <1>1, <1>4, <1>5, <1>7, <1>8 DEF Task

LEMMA ToldTypes ==
    ASSUME TasksInv, NEW r \in Requests, NEW o \in Request, o = reqs[r],
           o.call \in Calls, Exists(o.call.task), HasParent(o.call) => o.call.parent \in TaskIds \cup {None}
    PROVE  Told(r) \in SUBSET TaskIds
<1>1. tasks[o.call.task].parent \in TaskIds \cup {None} /\ o.call.task \in TaskIds
  BY DEF Exists, TasksInv, TasksTypeOK, Task
<1> QED
  BY <1>1 DEF Told, Dependents

LEMMA WriteUpdateKept ==
    ASSUME TasksInv, NEW r \in Requests, WriteUpdate(r)
    PROVE  TasksInv'
<1>1. PICK o \in Request : o = reqs[r]
  BY DEF TasksInv, TasksTypeOK
<1>2. /\ o.pc = "checked" /\ o.call.op \in {"update", "review"} /\ o.call \in Calls /\ Fits(o) /\ InFlight(o)
      /\ Locking(o) /\ Exists(o.call.task) /\ o.call.task \in o.excl /\ o.cur = tasks[o.call.task].status
  BY <1>1 DEF TasksInv, Fits, Placed, Locked, WriteUpdate, InFlight, Locking, Holding
<1>3. PICK c \in Calls : c = o.call
  BY <1>2
<1>4. PICK t \in TaskIds : t = c.task
  BY <1>3, CallTypes
<1>5. /\ HasParent(c) => c.parent \in TaskIds \cup {None}
      /\ HasParent(c) /\ c.parent # None => Exists(c.parent)
  BY <1>2, <1>3, CallTypes DEF Fits, Named, HasParent
<1>6. PICK row \in Task : row = Patched(r)
  BY <1>1, <1>2, <1>3, <1>5, PatchedTypes
<1>7. /\ row.status # "absent"
      /\ row.parent = IF HasParent(c) THEN c.parent ELSE tasks[t].parent
  BY <1>1, <1>2, <1>3, <1>4, <1>5, <1>6, PatchedTypes
<1>8. PICK told \in SUBSET TaskIds : told = Told(r)
  BY <1>1, <1>2, <1>3, <1>5, ToldTypes
<1>9. PICK s \in Status : s = o.cur
  BY <1>2, <1>3, <1>4 DEF Exists, TasksInv, TasksTypeOK, Task
<1>10. PICK w \in Write : IsWritten(w, NoWrite, t, row, s, <<>>, told)
  BY <1>7, StartTypes, WrittenTypes DEF Author
<1>11. PICK q \in Request : Wrote(o, q, "written", told, w)
  BY WroteRequest DEF Positions
<1>12. q = [reqs[r] EXCEPT !.pc = "written", !.share = Told(r),
                !.write = Written(NoWrite, t, Patched(r), o.cur, <<>>, Told(r))]
  BY <1>1, <1>6, <1>8, <1>9, <1>10, <1>11 DEF Wrote, IsWritten
<1>13. Becomes(r, q) /\ CanShare(r, told) /\ UNCHANGED tables
  BY <1>1, <1>3, <1>4, <1>8, <1>12 DEF WriteUpdate
<1>14. /\ w.rows[t] = row /\ \A x \in TaskIds \ {t} : w.rows[x] = None
       /\ w.log = IF row.status = s THEN {}
                  ELSE {[task |-> t, old |-> s, new |-> row.status, by |-> <<>>]}
       /\ w.notify = told /\ w.add = {} /\ w.del = {}
  BY <1>10, StartFields DEF IsWritten, NoWrite
<1>15. /\ q.pc = "written" /\ q.call = c /\ q.excl = o.excl /\ q.share = told /\ q.write = w
       /\ q.expect = o.expect /\ q.cur = s
  BY <1>3, <1>9, <1>11 DEF Wrote
<1>16. Placed(q) /\ Named(q)
  BY <1>2, <1>3, <1>15 DEF Fits, Placed, Named, InFlight
<1>17. Locked(q) /\ Counted(q)
  BY <1>2, <1>3, <1>9, <1>15 DEF Fits, Locked, Counted, InFlight, Locking, Accepting, ParentLocked, WithParent, Holding
<1>18. RowFits(q, w, t)
  <2>1. row.parent # None => Exists(row.parent)
    BY <1>5, <1>7 DEF TasksInv, Rooted
  <2>2. row.parent # tasks[t].parent => {row.parent, tasks[t].parent} \ {None} \subseteq told
    BY <1>1, <1>3, <1>4, <1>7, <1>8 DEF Told
  <2>3. row.status # tasks[t].status => \E e \in w.log : e.task = t
    <3>1. PICK e : e = [task |-> t, old |-> s, new |-> row.status, by |-> <<>>]
      OBVIOUS
    <3> QED
      BY <1>2, <1>3, <1>4, <1>9, <1>14, <3>1
  <2>4. row.status # tasks[t].status => Dependents(t) \subseteq told
    BY <1>1, <1>3, <1>4, <1>6, <1>8 DEF Told, Patched
  <2>5. t \in told
    BY <1>1, <1>3, <1>4, <1>8 DEF Told
  <2> QED
    BY <1>2, <1>3, <1>4, <1>7, <1>14, <1>15, <2>1, <2>2, <2>3, <2>4, <2>5 DEF RowFits
<1>19. \A e \in w.log : EntryFits(q, w, e)
  <2>1. row # None
    BY TasksAssumption
  <2> QED
    BY <1>2, <1>3, <1>4, <1>9, <1>14, <1>15, <2>1 DEF EntryFits, AuthorOf
<1>20. Fits(q)
  <2>1. WriteFits(q, w)
    BY <1>14, <1>18, <1>19 DEF WriteFits
  <2> QED
    BY <1>15, <1>16, <1>17, <2>1 DEF Fits
<1>21. CanShare(r, q.share \ o.share)
  BY <1>13, <1>15 DEF CanShare
<1> QED
  BY <1>1, <1>2, <1>3, <1>13, <1>15, <1>20, <1>21, WritesKept

\* A dependency that is added or removed writes no task.
LEMMA EdgeKept ==
    ASSUME TasksInv, NEW r \in Requests, NEW o \in Request, o = reqs[r],
           o.pc \in {"begun", "checked"}, o.call.op \in {"add", "remove"},
           NEW share \in SUBSET TaskIds, CanShare(r, share),
           NEW w \in Write, w.rows = NoWrite.rows, w.log = {},
           \A e \in w.add : e[1] \in w.notify /\ e[2] \in share,
           \A e \in w.del : e[1] \in w.notify,
           NEW q \in Request, Wrote(o, q, "written", share, w), Becomes(r, q), UNCHANGED tables
    PROVE  TasksInv'
<1>1. /\ o.call \in Calls /\ Fits(o) /\ InFlight(o)
  BY DEF TasksInv, Fits, Placed, InFlight
<1>2. /\ q.pc = "written" /\ q.call = o.call /\ q.excl = o.excl /\ q.share = share /\ q.write = w
      /\ q.expect = o.expect
  BY DEF Wrote
<1>3. Placed(q) /\ Named(q)
  BY <1>1, <1>2 DEF Fits, Placed, Named, InFlight
<1>4. Locked(q) /\ Counted(q)
  BY <1>1, <1>2 DEF Fits, Locked, Counted, InFlight, Locking, Accepting, ParentLocked, WithParent, Holding
<1>5. Fits(q)
  BY <1>2, <1>3, <1>4, StartFields DEF Fits, WriteFits
<1>6. CanShare(r, q.share \ o.share)
  BY <1>2 DEF CanShare
<1> QED
  BY <1>1, <1>2, <1>5, <1>6, WritesKept

AddWrite(add, notify) == [NoWrite EXCEPT !.add = add, !.notify = notify]
DelWrite(del, notify) == [NoWrite EXCEPT !.del = del, !.notify = notify]

LEMMA EdgeTypes ==
    ASSUME NEW edges \in SUBSET (TaskIds \X TaskIds), NEW notify \in SUBSET TaskIds
    PROVE  /\ \E w \in Write :
                 /\ w = AddWrite(edges, notify) /\ w.rows = NoWrite.rows /\ w.log = {}
                 /\ w.add = edges /\ w.del = {} /\ w.notify = notify
           /\ \E w \in Write :
                 /\ w = DelWrite(edges, notify) /\ w.rows = NoWrite.rows /\ w.log = {}
                 /\ w.add = {} /\ w.del = edges /\ w.notify = notify
<1>1. AddWrite(edges, notify) \in Write /\ DelWrite(edges, notify) \in Write
  BY DEF AddWrite, DelWrite, NoWrite, Write
<1>2. PICK v \in Write, w \in Write : v = AddWrite(edges, notify) /\ w = DelWrite(edges, notify)
  BY <1>1
<1>3. /\ v.rows = NoWrite.rows /\ v.log = {} /\ v.add = edges /\ v.del = {} /\ v.notify = notify
      /\ w.rows = NoWrite.rows /\ w.log = {} /\ w.add = {} /\ w.del = edges /\ w.notify = notify
  BY <1>2 DEF AddWrite, DelWrite, NoWrite
<1> QED
  BY <1>2, <1>3

LEMMA WriteAddKept ==
    ASSUME TasksInv, NEW r \in Requests, WriteAdd(r)
    PROVE  TasksInv'
<1>1. PICK o \in Request : o = reqs[r]
  BY DEF TasksInv, TasksTypeOK
<1>2. o.pc = "checked" /\ o.call.op = "add" /\ o.call \in Calls /\ o.call.on \in TaskIds
  BY <1>1, CallTypes DEF TasksInv, Fits, Placed, Named, WriteAdd, At, InFlight
<1>3. PICK c \in Calls : c = o.call
  BY <1>2
<1>4. PICK t \in TaskIds, d \in TaskIds : t = c.task /\ d = c.on
  BY <1>2, <1>3, CallTypes
<1>5. PICK named \in SUBSET TaskIds : named = IF <<t, d>> \in deps THEN {t} ELSE {t, d}
  OBVIOUS
<1>6. PICK edges \in SUBSET (TaskIds \X TaskIds) : edges = {<<t, d>>} \ deps
  <2>1. <<t, d>> \in TaskIds \X TaskIds
    OBVIOUS
  <2>2. {<<t, d>>} \ deps \in SUBSET (TaskIds \X TaskIds)
    BY <2>1
  <2> QED
    BY <2>2
<1>7. PICK notify \in SUBSET TaskIds : notify = {t}
  OBVIOUS
<1>8. PICK w \in Write : /\ w = AddWrite(edges, notify) /\ w.rows = NoWrite.rows /\ w.log = {}
                         /\ w.add = edges /\ w.del = {} /\ w.notify = notify
  BY EdgeTypes
<1>9. w = [NoWrite EXCEPT !.add = {<<c.task, c.on>>} \ deps, !.notify = {c.task}]
  BY <1>4, <1>6, <1>7, <1>8 DEF AddWrite
<1>10. PICK q \in Request : Wrote(o, q, "written", named, w)
  BY WroteRequest DEF Positions
<1>11. Becomes(r, q) /\ CanShare(r, named) /\ UNCHANGED tables
  BY <1>1, <1>3, <1>4, <1>5, <1>9, <1>10 DEF WriteAdd, Wrote
<1>12. ASSUME NEW e \in w.add PROVE e[1] \in w.notify /\ e[2] \in named
  <2>1. e = <<t, d>> /\ e \notin deps
    BY <1>6, <1>8, <1>12
  <2> QED
    BY <1>5, <1>7, <1>8, <2>1
<1>13. \A e \in w.del : e[1] \in w.notify
  BY <1>8
<1> QED
  BY <1>1, <1>2, <1>8, <1>10, <1>11, <1>12, <1>13, EdgeKept

LEMMA WriteRemoveKept ==
    ASSUME TasksInv, NEW r \in Requests, WriteRemove(r)
    PROVE  TasksInv'
<1>1. PICK o \in Request : o = reqs[r]
  BY DEF TasksInv, TasksTypeOK
<1>2. o.pc = "begun" /\ o.call.op = "remove" /\ o.call \in Calls
  BY <1>1 DEF TasksInv, Fits, Placed, WriteRemove, At, InFlight
<1>3. PICK c \in Calls : c = o.call
  BY <1>2
<1>4. PICK t \in TaskIds : t = c.task
  BY CallTypes
<1>5. PICK edges \in SUBSET (TaskIds \X TaskIds) : edges = {<<t, c.on>>} \cap deps
  BY DEF TasksInv, TasksTypeOK
<1>6. PICK notify \in SUBSET TaskIds : notify = {t}
  OBVIOUS
<1>7. PICK w \in Write : /\ w = DelWrite(edges, notify) /\ w.rows = NoWrite.rows /\ w.log = {}
                         /\ w.add = {} /\ w.del = edges /\ w.notify = notify
  BY EdgeTypes
<1>8. w = [NoWrite EXCEPT !.del = {<<c.task, c.on>>} \cap deps, !.notify = {c.task}]
  BY <1>4, <1>5, <1>6, <1>7 DEF DelWrite
<1>9. PICK q \in Request : Wrote(o, q, "written", notify, w)
  BY WroteRequest DEF Positions
<1>10. Becomes(r, q) /\ CanShare(r, notify) /\ UNCHANGED tables
  BY <1>1, <1>3, <1>4, <1>6, <1>8, <1>9 DEF WriteRemove, Wrote
<1>11. \A e \in w.add : e[1] \in w.notify /\ e[2] \in notify
  BY <1>7
<1>12. ASSUME NEW e \in w.del PROVE e[1] \in w.notify
  <2>1. e = <<t, c.on>>
    BY <1>5, <1>7, <1>12
  <2> QED
    BY <1>6, <1>7, <2>1
<1> QED
  BY <1>1, <1>2, <1>7, <1>9, <1>10, <1>11, <1>12, EdgeKept

-----------------------------------------------------------------------------
(* Acceptances                                                               *)

\* What is written goes on fitting a request that has more locks.
LEMMA WriteFitsOn ==
    ASSUME NEW o, NEW q, NEW w, WriteFits(o, w),
           q.call = o.call, o.excl \subseteq q.excl, o.share \subseteq q.share, WithParent(o) => WithParent(q)
    PROVE  WriteFits(q, w)
BY DEF WriteFits, RowFits, EntryFits, AuthorOf

Allowed(o, t) ==
    /\ t \in o.excl
    /\ t = o.call.task \/ (WithParent(o) /\ t = tasks[o.call.task].parent)

LEMMA CompletedTypes ==
    ASSUME NEW r \in Requests, NEW row \in Task
    PROVE  \E done \in Task : done = Completed(r, row) /\ done.status = "done" /\ done.parent = row.parent
<1>1. PICK context \in BOOLEAN : context = IF row.status = "blocked" THEN FALSE ELSE row.context
  BY DEF Task
<1>2. [row EXCEPT !.status = "done", !.context = context, !.updatedAt = r] \in Task
  BY DEF Task, Status
<1>3. PICK done \in Task : done = [row EXCEPT !.status = "done", !.context = context, !.updatedAt = r]
  BY <1>2
<1>4. done = Completed(r, row)
  BY <1>1, <1>3 DEF Completed, Task
<1> QED
  BY <1>3, <1>4 DEF Task

\* completeTaskTx writes what fits, and moves no task.
LEMMA CompletesFit ==
    ASSUME TasksInv, NEW r \in Requests, NEW o \in Request, o = reqs[r], Accepting(o), o.call \in Calls,
           NEW w \in Write, WriteFits(o, w), NEW t \in TaskIds, Allowed(o, t)
    PROVE  \E v \in Write :
              /\ v = completeTaskTx(r, w, t)
              /\ WriteFits(o, v)
              /\ v.saw = w.saw
<1>1. Fits(o)
  BY DEF TasksInv
<1>2. CASE tasks[t].status = "done"
  BY <1>2 DEF completeTaskTx
<1>3. CASE tasks[t].status # "done"
  <2>1. Exists(t)
    BY <1>1 DEF Fits, Locked, Allowed
  <2>2. PICK row \in Task : row = tasks[t]
    BY DEF TasksInv, TasksTypeOK
  <2>3. PICK s \in Status : s = row.status
    BY <2>1, <2>2 DEF Exists, Task
  <2>4. PICK done \in Task : done = Completed(r, row) /\ done.status = "done" /\ done.parent = row.parent
    BY CompletedTypes
  <2>5. PICK by \in Author : by = <<o.call.task, o.call.key>>
    BY CallTypes DEF Author, Accepting
  <2>6. PICK told \in SUBSET TaskIds : told = {t} \cup Dependents(t)
    BY DEF Dependents
  <2>7. PICK v \in Write : IsWritten(v, w, t, done, s, by, told)
    BY <2>4, WrittenTypes
  <2>8. v = completeTaskTx(r, w, t)
    BY <1>3, <2>2, <2>3, <2>4, <2>5, <2>6, <2>7 DEF completeTaskTx, IsWritten
  <2>9. PICK e : e = [task |-> t, old |-> s, new |-> "done", by |-> by]
    OBVIOUS
  <2>10. /\ v.rows[t] = done /\ \A x \in TaskIds \ {t} : v.rows[x] = w.rows[x]
         /\ v.log = w.log \cup {e} /\ v.saw = w.saw
         /\ v.notify = w.notify \cup told /\ v.add = w.add /\ v.del = w.del
    BY <1>3, <2>2, <2>3, <2>4, <2>7, <2>9 DEF IsWritten, Write
  <2>11. RowFits(o, v, t)
    <3>1. row.parent # None => Exists(row.parent)
      BY <2>2 DEF TasksInv, Rooted
    <3>2. \E x \in v.log : x.task = t
      BY <2>9, <2>10
    <3>3. t \in v.notify /\ Dependents(t) \subseteq v.notify
      BY <2>6, <2>10
    <3> QED
      BY <2>2, <2>4, <2>10, <3>1, <3>2, <3>3 DEF RowFits, Allowed, Accepting
  <2>12. ASSUME NEW x \in TaskIds \ {t}, v.rows[x] # None PROVE RowFits(o, v, x)
    <3>1. RowFits(o, w, x) /\ v.rows[x] = w.rows[x] /\ w.log \subseteq v.log /\ w.notify \subseteq v.notify
      BY <2>10, <2>12 DEF WriteFits
    <3> QED
      BY <3>1 DEF RowFits
  <2>13. EntryFits(o, v, e)
    <3>1. done # None
      BY TasksAssumption
    <3> QED
      BY <1>3, <2>2, <2>3, <2>4, <2>5, <2>9, <2>10, <3>1 DEF EntryFits, AuthorOf, Accepting
  <2>14. ASSUME NEW x \in w.log PROVE EntryFits(o, v, x)
    <3>1. EntryFits(o, w, x) /\ x.task \in TaskIds
      BY DEF WriteFits, Write, Entry
    <3>2. CASE x.task # t
      BY <2>10, <3>1, <3>2 DEF EntryFits
    <3>3. CASE x.task = t
      <4>1. w.rows[t] # None /\ w.rows[t].status = "done"
        BY <3>1, <3>3 DEF EntryFits, WriteFits, RowFits, Accepting
      <4>2. done # None
        BY TasksAssumption
      <4> QED
        BY <2>4, <2>10, <3>1, <3>3, <4>1, <4>2 DEF EntryFits
    <3> QED
      BY <3>2, <3>3
  <2>15. \A x \in TaskIds : v.rows[x] # None => RowFits(o, v, x)
    BY <2>11, <2>12
  <2>16. \A x \in v.log : EntryFits(o, v, x)
    BY <2>10, <2>13, <2>14
  <2>17. /\ \A x \in v.add : x[1] \in v.notify /\ x[2] \in o.share
         /\ \A x \in v.del : x[1] \in v.notify
    BY <2>10 DEF WriteFits
  <2> QED
    BY <2>8, <2>10, <2>15, <2>16, <2>17 DEF WriteFits
<1> QED
  BY <1>2, <1>3

\* An acceptance that goes on: with the locks it has, or with its parent's.
LEMMA AcceptingKept ==
    ASSUME TasksInv, NEW r \in Requests, NEW o \in Request, o = reqs[r], Accepting(o),
           NEW q \in Request, q.call = o.call, q.cur = o.cur, q.expect = o.expect,
           q.pc \in {"parent", "count", "complete", "written"},
           q.pc # "written" => WithParent(o),
           o.excl \subseteq q.excl, o.share \subseteq q.share, WriteFits(o, q.write),
           \A t \in q.excl : Exists(t),
           ParentLocked(q) => tasks[o.call.task].parent \in q.excl,
           Counted(q), Free(r, q), Becomes(r, q), UNCHANGED tables
    PROVE  TasksInv'
<1>1. Fits(o) /\ Locking(o) /\ Accepting(q) /\ (WithParent(o) <=> WithParent(q)) /\ InFlight(o) /\ InFlight(q)
  BY DEF TasksInv, Locking, Accepting, WithParent, Holding, InFlight
<1>2. Placed(q)
  BY <1>1 DEF Fits, Placed, InFlight, Accepting
<1>3. Locked(q)
  BY <1>1 DEF Fits, Locked, Locking, Accepting
<1>4. Named(q)
  BY DEF Named
<1>5. WriteFits(q, q.write)
  BY <1>1, WriteFitsOn
<1>6. Fits(q)
  BY <1>2, <1>3, <1>4, <1>5 DEF Fits
<1>7. Fresh(r, q)
  BY <1>1 DEF Fresh, Creating, Accepting
<1> QED
  BY <1>6, <1>7, StepKept

LEMMA CompleteTaskKept ==
    ASSUME TasksInv, NEW r \in Requests, CompleteTask(r)
    PROVE  TasksInv'
<1>1. PICK o \in Request : o = reqs[r]
  BY DEF TasksInv, TasksTypeOK
<1>2. /\ o.pc = "locked" /\ o.call.op = "accept" /\ o.call \in Calls /\ Fits(o) /\ Accepting(o)
      /\ o.excl \subseteq TaskIds
  BY <1>1 DEF TasksInv, Fits, Placed, CompleteTask, At, InFlight, Accepting, Holding, Request
<1>3. PICK t \in TaskIds : t = o.call.task
  BY <1>2, CallTypes
<1>4. WriteFits(o, NoWrite) /\ Allowed(o, t) /\ NoWrite \in Write /\ o.share = {}
  <2>1. o.write = NoWrite /\ t \in o.excl
    BY <1>2, <1>3 DEF Fits, Placed, Locked, Locking, Accepting
  <2>2. WriteFits(o, NoWrite)
    BY StartFields DEF WriteFits
  <2>3. o.share = {}
    BY <1>2 DEF Fits, Placed
  <2> QED
    BY <1>3, <2>1, <2>2, <2>3, StartTypes DEF Allowed
<1>5. PICK v \in Write : v = completeTaskTx(r, NoWrite, t) /\ WriteFits(o, v)
  BY <1>1, <1>2, <1>4, CompletesFit
<1>6. PICK w \in Write : w = (IF o.call.effect = "record_only" THEN NoWrite ELSE v) /\ WriteFits(o, w)
  BY <1>4, <1>5
<1>7. PICK share \in SUBSET TaskIds : share = w.notify
  BY DEF Write
<1>8. PICK pc \in {"parent", "written"} :
          pc = IF o.call.effect = "complete_task_and_parent" THEN "parent" ELSE "written"
  OBVIOUS
<1>9. PICK q \in Request : Wrote(o, q, pc, share, w)
  BY WroteRequest DEF Positions
<1>10. q = [reqs[r] EXCEPT !.share = w.notify, !.write = w, !.pc = pc]
  BY <1>1, <1>7, <1>9 DEF Wrote, Request
<1>11. Becomes(r, q) /\ CanShare(r, w.notify) /\ UNCHANGED tables
  BY <1>1, <1>3, <1>5, <1>6, <1>8, <1>10 DEF CompleteTask
<1>12. /\ q.pc = pc /\ q.call = o.call /\ q.cur = o.cur /\ q.expect = o.expect /\ q.excl = o.excl
       /\ q.share = w.notify /\ q.write = w
  BY <1>7, <1>9 DEF Wrote
<1>13. Free(r, q)
  BY <1>1, <1>11, <1>12 DEF TasksInv, Exclusive, CanShare, Free
<1>14. Counted(q) /\ ~ParentLocked(q) /\ (q.pc # "written" => WithParent(o))
  BY <1>2, <1>8, <1>12 DEF Counted, ParentLocked, WithParent, Accepting, Holding
<1>15. \A x \in q.excl : Exists(x)
  BY <1>2, <1>12 DEF Fits, Locked
<1> QED
  BY <1>1, <1>2, <1>4, <1>6, <1>8, <1>11, <1>12, <1>13, <1>14, <1>15, AcceptingKept

LEMMA LockParentKept ==
    ASSUME TasksInv, NEW r \in Requests, LockParent(r)
    PROVE  TasksInv'
<1>1. PICK o \in Request : o = reqs[r]
  BY DEF TasksInv, TasksTypeOK
<1>2. /\ o.pc = "parent" /\ o.call.op = "accept" /\ o.call \in Calls /\ Fits(o) /\ WithParent(o) /\ Accepting(o)
      /\ o.excl \subseteq TaskIds
  BY <1>1 DEF TasksInv, Fits, Placed, LockParent, At, InFlight, WithParent, Request
<1>3. PICK t \in TaskIds : t = o.call.task
  BY <1>2, CallTypes
<1>4. PICK p \in TaskIds \cup {None} : p = tasks[t].parent
  BY DEF TasksInv, TasksTypeOK, Task
<1>5. CASE p = None \/ tasks[p].status = "cancelled"
  BY <1>1, <1>3, <1>4, <1>5, EndsKept DEF LockParent
<1>6. CASE ~(p = None \/ tasks[p].status = "cancelled")
  <2>1. Exists(p)
    BY <1>4, <1>6 DEF TasksInv, Rooted
  <2>2. PICK excl \in SUBSET TaskIds : excl = o.excl \cup {p}
    BY <1>2, <1>4, <1>6
  <2>3. PICK x \in Request : Moved(o, x, "count")
    BY MovedRequest DEF Positions
  <2>4. [x EXCEPT !.excl = excl] \in Request
    BY DEF Request
  <2>5. PICK q \in Request : q = [x EXCEPT !.excl = excl]
    BY <2>4
  <2>6. q = [reqs[r] EXCEPT !.pc = "count", !.excl = @ \cup {p}]
    BY <1>1, <2>2, <2>3, <2>5 DEF Moved, Request
  <2>7. Becomes(r, q) /\ CanLock(r, {p}) /\ UNCHANGED tables
    BY <1>1, <1>3, <1>4, <1>6, <2>6 DEF LockParent
  <2>8. /\ q.pc = "count" /\ q.call = o.call /\ q.cur = o.cur /\ q.expect = o.expect /\ q.excl = o.excl \cup {p}
        /\ q.share = o.share /\ q.write = o.write
    BY <2>2, <2>3, <2>5 DEF Moved, Request
  <2>9. Free(r, q)
    BY <1>1, <2>7, <2>8 DEF TasksInv, Exclusive, CanLock, Free
  <2>10. Counted(q)
    BY <2>8 DEF Counted
  <2>11. \A y \in q.excl : Exists(y)
    BY <1>2, <2>1, <2>8 DEF Fits, Locked
  <2>12. WriteFits(o, q.write)
    BY <1>2, <2>8 DEF Fits
  <2> QED
    BY <1>1, <1>2, <1>3, <1>4, <2>7, <2>8, <2>9, <2>10, <2>11, <2>12, AcceptingKept
<1> QED
  BY <1>5, <1>6

\* The children of the parent, in the request's own view.
LEMMA ChildrenSame ==
    ASSUME NEW o, NEW q, NEW p, o.write.rows = q.write.rows
    PROVE  ChildrenBy(o, p) = ChildrenBy(q, p)
BY DEF ChildrenBy, SeenBy

LEMMA CountKept ==
    ASSUME TasksInv, NEW r \in Requests, parentCompletionEligibleTx(r)
    PROVE  TasksInv'
<1>1. PICK o \in Request : o = reqs[r]
  BY DEF TasksInv, TasksTypeOK
<1>2. /\ o.pc = "count" /\ o.call.op = "accept" /\ o.call \in Calls /\ Fits(o) /\ WithParent(o) /\ Accepting(o)
      /\ ParentLocked(o)
  BY <1>1 DEF TasksInv, Fits, Placed, parentCompletionEligibleTx, At, InFlight, WithParent, ParentLocked
<1>3. PICK p : p = tasks[o.call.task].parent
  OBVIOUS
<1> DEFINE finished ==
        /\ \A t \in Children(r, p) : terminalStatus(Seen(r, t).status)
        /\ \A d \in TaskIds : <<p, d>> \in deps => dependencySatisfiedStatus(Seen(r, d).status)
<1>4. CASE ~finished
  BY <1>1, <1>3, <1>4, EndsKept DEF parentCompletionEligibleTx
<1>5. CASE finished
  <2>1. PICK children \in SUBSET TaskIds : children = Children(r, p)
    BY DEF Children
  <2>2. o.write \in Write
    BY DEF Request
  <2>3. [o.write EXCEPT !.saw = children] \in Write
    BY <2>2 DEF Write
  <2>4. PICK w \in Write : w = [o.write EXCEPT !.saw = children]
    BY <2>3
  <2>5. /\ w.rows = o.write.rows /\ w.log = o.write.log /\ w.saw = children
        /\ w.notify = o.write.notify /\ w.add = o.write.add /\ w.del = o.write.del
    BY <2>2, <2>4 DEF Write
  <2>6. PICK x \in Request : Moved(o, x, "complete")
    BY MovedRequest DEF Positions
  <2>7. [x EXCEPT !.write = w] \in Request
    BY DEF Request
  <2>8. PICK q \in Request : q = [x EXCEPT !.write = w]
    BY <2>7
  <2>9. q = [reqs[r] EXCEPT !.pc = "complete", !.write.saw = Children(r, p)]
    BY <1>1, <2>1, <2>4, <2>6, <2>8 DEF Moved, Request
  <2>10. Becomes(r, q) /\ UNCHANGED tables
    BY <1>1, <1>3, <1>5, <2>9 DEF parentCompletionEligibleTx
  <2>11. /\ q.pc = "complete" /\ q.call = o.call /\ q.cur = o.cur /\ q.expect = o.expect /\ q.excl = o.excl
         /\ q.share = o.share /\ q.write = w
    BY <2>6, <2>8 DEF Moved, Request
  <2>12. Free(r, q)
    BY <1>1, <2>11 DEF TasksInv, Exclusive, Free
  <2>13. Counted(q)
    <3>1. Children(r, p) = ChildrenBy(o, p)
      BY <1>1 DEF Children, Seen, ChildrenBy, SeenBy
    <3>2. ChildrenBy(o, p) = ChildrenBy(q, p)
      BY <2>5, <2>11, ChildrenSame
    <3> QED
      BY <1>3, <2>1, <2>5, <2>11, <3>1, <3>2 DEF Counted
  <2>14. WriteFits(o, q.write)
    BY <1>2, <2>5, <2>11 DEF Fits, WriteFits, RowFits, EntryFits
  <2>15. (\A y \in q.excl : Exists(y)) /\ tasks[o.call.task].parent \in q.excl
    BY <1>2, <2>11 DEF Fits, Locked
  <2> QED
    BY <1>1, <1>2, <2>10, <2>11, <2>12, <2>13, <2>14, <2>15, AcceptingKept
<1> QED
  BY <1>4, <1>5

LEMMA CompleteParentKept ==
    ASSUME TasksInv, NEW r \in Requests, CompleteParent(r)
    PROVE  TasksInv'
<1>1. PICK o \in Request : o = reqs[r]
  BY DEF TasksInv, TasksTypeOK
<1>2. /\ o.pc = "complete" /\ o.call.op = "accept" /\ o.call \in Calls /\ Fits(o) /\ WithParent(o) /\ Accepting(o)
      /\ ParentLocked(o) /\ o.write \in Write /\ o.excl \subseteq TaskIds /\ o.share \subseteq TaskIds
  BY <1>1 DEF TasksInv, Fits, Placed, CompleteParent, At, InFlight, WithParent, ParentLocked, Request
<1>3. tasks[o.call.task].parent \in o.excl
  BY <1>2 DEF Fits, Locked
<1>4. PICK p \in TaskIds : p = tasks[o.call.task].parent
  BY <1>2, <1>3
<1>5. WriteFits(o, o.write) /\ Allowed(o, p)
  BY <1>2, <1>3, <1>4 DEF Fits, Allowed
<1>6. PICK v \in Write : v = completeTaskTx(r, o.write, p) /\ WriteFits(o, v) /\ v.saw = o.write.saw
  BY <1>1, <1>2, <1>5, CompletesFit
<1>7. PICK share \in SUBSET TaskIds : share = o.share \cup v.notify
  BY <1>2 DEF Write
<1>8. PICK q \in Request : Wrote(o, q, "written", share, v)
  BY WroteRequest DEF Positions
<1>9. q = [reqs[r] EXCEPT !.pc = "written", !.share = @ \cup v.notify, !.write = v]
  BY <1>1, <1>7, <1>8 DEF Wrote
<1>10. Becomes(r, q) /\ CanShare(r, v.notify) /\ UNCHANGED tables
  BY <1>1, <1>4, <1>6, <1>9 DEF CompleteParent
<1>11. /\ q.pc = "written" /\ q.call = o.call /\ q.cur = o.cur /\ q.expect = o.expect /\ q.excl = o.excl
       /\ q.share = o.share \cup v.notify /\ q.write = v
  BY <1>7, <1>8 DEF Wrote
<1>12. Free(r, q)
  BY <1>1, <1>10, <1>11 DEF TasksInv, Exclusive, CanShare, Free
<1>13. Counted(q)
  <2>1. \A w \in {o.write, v} : \A t \in TaskIds : w.rows[t] # None => w.rows[t].parent = tasks[t].parent
    BY <1>2, <1>5, <1>6 DEF WriteFits, RowFits
  <2>2. ChildrenBy(q, p) = ChildrenBy(o, p)
    BY <1>11, <2>1 DEF ChildrenBy, SeenBy
  <2>3. ChildrenBy(o, p) = o.write.saw
    BY <1>2, <1>4 DEF Fits, Counted
  <2> QED
    BY <1>4, <1>6, <1>11, <2>2, <2>3 DEF Counted
<1>14. \A y \in q.excl : Exists(y)
  BY <1>2, <1>11 DEF Fits, Locked
<1> QED
  BY <1>1, <1>2, <1>3, <1>6, <1>10, <1>11, <1>12, <1>13, <1>14, AcceptingKept

-----------------------------------------------------------------------------
(* The commit                                                                *)

\* What a request knows outlasts a commit that touches nothing it has locked.
LEMMA OthersFit ==
    ASSUME TasksTypeOK, NEW q \in Request, Fits(q),
           \A t \in TaskIds : Exists(t) => Exists(t)',
           \A t \in TaskIds : t \in q.excl \/ (Creating(q) /\ t = q.call.task) => tasks'[t] = tasks[t],
           \A t \in TaskIds : \A p \in q.excl : tasks'[t].parent = p <=> tasks[t].parent = p,
           \A t \in q.excl : Dependents(t)' \subseteq Dependents(t),
           Accepting(q) /\ Replayed(q.call)' => Replayed(q.call)
    PROVE  Fits(q)'
<1>1. q.excl \subseteq TaskIds /\ (InFlight(q) => q.call \in Calls /\ q.call.task \in TaskIds)
  BY CallTypes DEF Request, Fits, Placed
<1>2. Locking(q) => q.call.task \in q.excl /\ tasks'[q.call.task] = tasks[q.call.task]
  BY <1>1 DEF Fits, Locked
<1>3. Creating(q) => tasks'[q.call.task] = tasks[q.call.task]
  BY <1>1 DEF Creating
<1>4. Placed(q)'
  BY DEF Fits, Placed, InFlight, WithParent, Accepting, Holding
<1>5. Locked(q)'
  <2>1. (InFlight(q) => IF q.call.op = "create" THEN ~Exists(q.call.task) ELSE Exists(q.call.task))'
    BY <1>1, <1>3 DEF Fits, Locked, InFlight, Creating, Exists
  <2>2. (\A t \in q.excl : Exists(t))'
    BY <1>1 DEF Fits, Locked
  <2>3. (Locking(q) => q.call.task \in q.excl /\ q.cur = tasks[q.call.task].status)'
    BY <1>2 DEF Fits, Locked, Locking, Holding
  <2>4. (Accepting(q) => ~Replayed(q.call) /\ q.expect \in {None, tasks[q.call.task].updatedAt})'
    <3>1. Accepting(q) => Locking(q)
      BY DEF Accepting, Locking
    <3>2. ASSUME Accepting(q) PROVE ~Replayed(q.call)' /\ q.expect \in {None, tasks'[q.call.task].updatedAt}
      BY <1>2, <3>1, <3>2 DEF Fits, Locked
    <3> QED
      BY <3>2 DEF Accepting, Holding
  <2>5. (ParentLocked(q) => tasks[q.call.task].parent \in q.excl)'
    BY <1>2 DEF Fits, Locked, ParentLocked, WithParent, Accepting, Locking, Holding
  <2> QED
    BY <2>1, <2>2, <2>3, <2>4, <2>5 DEF Locked
<1>6. Named(q)'
  BY DEF Fits, Named, Exists
<1>7. Counted(q)'
  <2>1. CASE WithParent(q) /\ q.pc \in {"complete", "written"}
    <3>1. Locking(q) /\ ParentLocked(q)
      BY <2>1 DEF Locking, WithParent, Accepting, ParentLocked
    <3>2. PICK p \in q.excl : p = tasks[q.call.task].parent /\ p = tasks'[q.call.task].parent
      BY <1>2, <3>1 DEF Fits, Locked
    <3>3. \A t \in TaskIds : SeenBy(q, t)'.parent = p <=> SeenBy(q, t).parent = p
      BY <3>2 DEF SeenBy
    <3>4. ChildrenBy(q, p)' = ChildrenBy(q, p)
      BY <3>3 DEF ChildrenBy
    <3> QED
      BY <2>1, <3>2, <3>4 DEF Fits, Counted, ChildrenBy, SeenBy
  <2>2. CASE ~(WithParent(q) /\ q.pc \in {"complete", "written"})
    BY <2>2 DEF Counted, WithParent, Accepting, Holding
  <2> QED
    BY <2>1, <2>2
<1>8. ASSUME NEW t \in TaskIds, q.write.rows[t] # None PROVE RowFits(q, q.write, t)'
  <2>1. PICK row : row = q.write.rows[t]
    OBVIOUS
  <2>2. RowFits(q, q.write, t)
    BY <1>8 DEF Fits, WriteFits
  <2>3. InFlight(q)
    BY <1>8, StartFields DEF Fits, Placed, InFlight
  <2>4. tasks'[t] = tasks[t]
    BY <2>2, <2>3 DEF RowFits, Creating
  <2>5. row.parent # None => Exists(row.parent)'
    BY <2>1, <2>2 DEF RowFits, Exists
  <2>6. q.call.op = "accept" => t = q.call.task \/ (WithParent(q) /\ t = tasks'[q.call.task].parent)
    BY <1>2, <2>2 DEF RowFits, WithParent, Accepting, Locking
  <2>7. q.call.op # "create" => Dependents(t)' \subseteq Dependents(t)
    BY <2>2 DEF RowFits
  <2> QED
    BY <2>1, <2>2, <2>4, <2>5, <2>6, <2>7 DEF RowFits, WithParent, Accepting, Holding
<1>9. ASSUME NEW e \in q.write.log PROVE EntryFits(q, q.write, e)'
  <2>1. e.task \in TaskIds /\ EntryFits(q, q.write, e)
    BY DEF Fits, WriteFits, Request, Write, Entry
  <2>2. RowFits(q, q.write, e.task)
    BY <2>1 DEF Fits, WriteFits, EntryFits
  <2>3. tasks'[e.task] = tasks[e.task]
    BY <2>1, <2>2 DEF RowFits, EntryFits
  <2> QED
    BY <2>1, <2>3 DEF EntryFits, AuthorOf
<1>10. WriteFits(q, q.write)'
  <2>1. (\A t \in TaskIds : q.write.rows[t] # None => RowFits(q, q.write, t))'
    BY <1>8
  <2>2. (\A e \in q.write.log : EntryFits(q, q.write, e))'
    BY <1>9
  <2>3. WriteFits(q, q.write)
    BY DEF Fits
  <2> QED
    BY <2>1, <2>2, <2>3 DEF WriteFits
<1> QED
  BY <1>4, <1>5, <1>6, <1>7, <1>10 DEF Fits

\* The request that commits.
Committing(r, o) ==
    /\ o = reqs[r] /\ o.pc = "written" /\ o.call \in Calls /\ Fits(o) /\ InFlight(o) /\ Holding(o)
    /\ o.write \in Write /\ o.excl \subseteq TaskIds

LEMMA CommitStarts ==
    ASSUME TasksInv, NEW r \in Requests, Commit(r)
    PROVE  \E o \in Request : Committing(r, o)
<1>1. PICK o \in Request : o = reqs[r]
  BY DEF TasksInv, TasksTypeOK
<1>2. Committing(r, o)
  BY <1>1 DEF Committing, TasksInv, Fits, Placed, Commit, InFlight, Holding, Request
<1> QED
  BY <1>2

LEMMA CommitRows ==
    ASSUME TasksInv, NEW r \in Requests, NEW o \in Request, Committing(r, o), Commit(r)
    PROVE  /\ tasks' \in [TaskIds -> Task]
           /\ \A t \in TaskIds : o.write.rows[t] = None => tasks'[t] = tasks[t]
           /\ \A t \in TaskIds : o.write.rows[t] # None =>
                 tasks'[t] = o.write.rows[t] /\ RowFits(o, o.write, t) /\ Exists(t)'
           /\ \A t \in TaskIds : Exists(t) => Exists(t)'
<1>1. ASSUME NEW t \in TaskIds
      PROVE  Seen(r, t) = (IF o.write.rows[t] = None THEN tasks[t] ELSE o.write.rows[t]) /\ Seen(r, t) \in Task
  BY DEF Committing, Seen, TasksInv, TasksTypeOK, Write
<1>2. tasks' = [t \in TaskIds |-> Seen(r, t)]
  BY DEF Commit
<1>3. tasks' \in [TaskIds -> Task] /\ \A t \in TaskIds : tasks'[t] = Seen(r, t)
  BY <1>1, <1>2
<1>4. \A t \in TaskIds : o.write.rows[t] # None => RowFits(o, o.write, t)
  BY DEF Committing, Fits, WriteFits
<1>5. \A t \in TaskIds : o.write.rows[t] # None => Exists(t)'
  BY <1>1, <1>3, <1>4 DEF RowFits, Exists
<1>6. \A t \in TaskIds : Exists(t) => Exists(t)'
  BY <1>1, <1>3, <1>5 DEF Exists
<1> QED
  BY <1>1, <1>3, <1>4, <1>5, <1>6

\* What the commit appends to a history.
LEMMA CommitLog ==
    ASSUME TasksInv, NEW r \in Requests, NEW o \in Request, Committing(r, o), Commit(r), NEW t \in TaskIds
    PROVE  \/ /\ history'[t] = history[t]
              /\ \A e \in o.write.log : e.task # t
           \/ \E e \in o.write.log :
                 /\ e \in Entry /\ e.task = t /\ EntryFits(o, o.write, e)
                 /\ history'[t] = Append(history[t], e)
<1>1. history' = [x \in TaskIds |-> IF \E e \in o.write.log : e.task = x
                                    THEN Append(history[x], EntryOf(o.write, x)) ELSE history[x]]
  BY DEF Commit, Committing
<1>2. CASE \E e \in o.write.log : e.task = t
  <2>1. PICK e : e = EntryOf(o.write, t)
    OBVIOUS
  <2>2. e \in o.write.log /\ e.task = t
    BY <1>2, <2>1 DEF EntryOf
  <2>3. e \in Entry /\ EntryFits(o, o.write, e)
    BY <2>2 DEF Committing, Fits, WriteFits, Write
  <2>4. history'[t] = Append(history[t], e)
    BY <1>1, <1>2, <2>1
  <2> QED
    BY <2>2, <2>3, <2>4
<1>3. CASE ~\E e \in o.write.log : e.task = t
  BY <1>1, <1>3
<1> QED
  BY <1>2, <1>3

LEMMA CommitKeepsRoots ==
    ASSUME TasksInv, NEW r \in Requests, NEW o \in Request, Committing(r, o), Commit(r)
    PROVE  Rooted'
<1>1. SUFFICES ASSUME NEW t \in TaskIds
               PROVE  /\ (tasks[t].parent # None => Exists(t) /\ Exists(tasks[t].parent))'
                      /\ (~Exists(t) => history[t] = <<>>)'
  BY DEF Rooted
<1>2. Rooted /\ (\A x \in TaskIds : Exists(x) => Exists(x)')
  BY CommitRows DEF TasksInv
<1>3. (tasks[t].parent # None => Exists(t) /\ Exists(tasks[t].parent))'
  <2>1. PICK row : row = tasks'[t]
    OBVIOUS
  <2>2. CASE o.write.rows[t] = None
    <3>1. row = tasks[t]
      BY <2>1, <2>2, CommitRows
    <3>2. row.parent # None => Exists(t) /\ Exists(row.parent)
      BY <1>2, <3>1 DEF Rooted
    <3>3. row.parent # None => Exists(t)' /\ Exists(row.parent)'
      BY <1>2, <3>2 DEF Exists
    <3> QED
      BY <2>1, <3>3 DEF Exists
  <2>3. CASE o.write.rows[t] # None
    <3>1. row = o.write.rows[t] /\ RowFits(o, o.write, t) /\ Exists(t)'
      BY <2>1, <2>3, CommitRows
    <3>2. row.parent # None => Exists(row.parent)
      BY <3>1 DEF RowFits
    <3>3. row.parent # None => Exists(row.parent)'
      BY <1>2, <3>2 DEF Exists
    <3> QED
      BY <2>1, <3>1, <3>3 DEF Exists
  <2> QED
    BY <2>2, <2>3
<1>4. ASSUME ~Exists(t)' PROVE history'[t] = <<>>
  <2>1. o.write.rows[t] = None /\ ~Exists(t)
    BY <1>2, <1>4, CommitRows
  <2>2. \A e \in o.write.log : EntryFits(o, o.write, e)
    BY DEF Committing, Fits, WriteFits
  <2>3. history'[t] = history[t]
    BY <2>1, <2>2, CommitLog DEF EntryFits
  <2> QED
    BY <1>2, <2>1, <2>3 DEF Rooted
<1> QED
  BY <1>3, <1>4

\* Append to a sequence of entries.
LEMMA AppendFacts ==
    ASSUME NEW h \in Seq(Entry), NEW e \in Entry
    PROVE  /\ Append(h, e) \in Seq(Entry) /\ Len(h) \in Nat
           /\ Len(Append(h, e)) = Len(h) + 1
           /\ \A i \in 1..Len(h) : Append(h, e)[i] = h[i]
           /\ Append(h, e)[Len(h) + 1] = e
BY AppendProperties

LEMMA CommitKeepsChains ==
    ASSUME TasksInv, NEW r \in Requests, NEW o \in Request, Committing(r, o), Commit(r)
    PROVE  Chained'
<1>1. SUFFICES ASSUME NEW t \in TaskIds, NEW h, h = history'[t]
               PROVE  /\ \A i \in 2..Len(h) : h[i].old = h[i - 1].new
                      /\ h # <<>> => h[Len(h)].new = tasks'[t].status
  BY DEF Chained
<1>2. PICK g \in Seq(Entry) : g = history[t]
  BY DEF TasksInv, TasksTypeOK
<1>3. /\ \A i \in 2..Len(g) : g[i].old = g[i - 1].new
      /\ g # <<>> => g[Len(g)].new = tasks[t].status
      /\ ~Exists(t) => g = <<>>
  BY <1>2 DEF TasksInv, Chained, Rooted
<1>4. CASE h = g /\ \A e \in o.write.log : e.task # t
  <2>1. g # <<>> => tasks'[t].status = tasks[t].status
    <3>1. CASE o.write.rows[t] = None
      BY <3>1, CommitRows
    <3>2. CASE o.write.rows[t] # None
      <4>1. tasks'[t] = o.write.rows[t] /\ RowFits(o, o.write, t)
        BY <3>2, CommitRows
      <4>2. o.call.op = "create" => ~Exists(t)
        BY <4>1 DEF RowFits, Committing, Fits, Locked
      <4> QED
        BY <1>3, <1>4, <4>1, <4>2 DEF RowFits
    <3> QED
      BY <3>1, <3>2
  <2> QED
    BY <1>3, <1>4, <2>1
<1>5. ASSUME NEW e \in Entry, e.task = t, EntryFits(o, o.write, e), h = Append(g, e)
      PROVE  /\ \A i \in 2..Len(h) : h[i].old = h[i - 1].new
             /\ h # <<>> => h[Len(h)].new = tasks'[t].status
  <2>1. e.old = tasks[t].status /\ e.new = tasks'[t].status
    BY <1>5, CommitRows DEF EntryFits
  <2>2. /\ Len(g) \in Nat /\ Len(h) = Len(g) + 1
        /\ \A i \in 1..Len(g) : h[i] = g[i]
        /\ h[Len(g) + 1] = e
    BY <1>5, AppendFacts
  <2>3. ASSUME NEW i \in 2..Len(h) PROVE h[i].old = h[i - 1].new
    <3>1. CASE i = Len(g) + 1
      <4>1. Len(g) \in 1..Len(g) /\ i - 1 = Len(g) /\ g # <<>>
        BY <2>2, <3>1
      <4>2. h[i - 1].new = tasks[t].status
        BY <1>3, <2>2, <4>1
      <4> QED
        BY <2>1, <2>2, <3>1, <4>2
    <3>2. CASE i # Len(g) + 1
      <4>1. i \in 2..Len(g) /\ i \in 1..Len(g) /\ i - 1 \in 1..Len(g)
        BY <2>2, <3>2
      <4> QED
        BY <1>3, <2>2, <4>1
    <3> QED
      BY <3>1, <3>2
  <2> QED
    BY <2>1, <2>2, <2>3
<1> QED
  BY <1>1, <1>2, <1>4, <1>5, CommitLog

LEMMA EntriesOfAppend ==
    ASSUME NEW h \in Seq(Entry), NEW e \in Entry, NEW author
    PROVE  /\ e.by # author => EntriesBy(Append(h, e), author) = EntriesBy(h, author)
           /\ e.by = author /\ EntriesBy(h, author) = {} => Cardinality(EntriesBy(Append(h, e), author)) = 1
<1>1. PICK n \in Nat : n = Len(h)
  BY AppendFacts
<1>2. PICK g : g = Append(h, e)
  OBVIOUS
<1>3. Len(g) = n + 1 /\ (\A i \in 1..n : g[i] = h[i]) /\ g[n + 1] = e
  BY <1>1, <1>2, AppendFacts
<1>4. 1..(n + 1) = 1..n \cup {n + 1}
  OBVIOUS
<1>5. EntriesBy(g, author) = EntriesBy(h, author) \cup (IF e.by = author THEN {n + 1} ELSE {})
  BY <1>1, <1>3, <1>4 DEF EntriesBy
<1>6. Cardinality({n + 1}) = 1
  BY FS_Singleton
<1> QED
  BY <1>2, <1>5, <1>6

\* The acceptance a commit records, and the entries it writes for it.
LEMMA AcceptanceFacts ==
    ASSUME TasksInv, NEW r \in Requests, NEW o \in Request, Committing(r, o), Commit(r), o.call.op = "accept"
    PROVE  \E a \in Acceptance :
              /\ a = AcceptanceOf(r)
              /\ a.task = o.call.task /\ a.key = o.call.key
              /\ \A x \in TaskIds :
                    (\E e \in o.write.log : e.task = x) <=>
                       \/ x = a.task /\ a.before # a.after
                       \/ x = a.parent /\ a.parentBefore # a.parentAfter
<1>1. /\ o = reqs[r] /\ Fits(o) /\ Accepting(o) /\ Locking(o) /\ o.call \in Calls
      /\ o.call.task \in TaskIds /\ o.call.key \in Keys /\ o.call.effect \in Effect
      /\ o.call.task \in o.excl /\ o.cur = tasks[o.call.task].status
  BY CallTypes DEF Committing, Accepting, Locking, Holding, Fits, Locked
<1>2. PICK t \in TaskIds : t = o.call.task
  BY <1>1
<1>3. \A x \in TaskIds : Exists(x) => Seen(r, x) \in Task /\ Seen(r, x).status \in Status /\ tasks[x].status \in Status
  <2> SUFFICES ASSUME NEW x \in TaskIds, Exists(x)
               PROVE  Seen(r, x) \in Task /\ Seen(r, x).status \in Status /\ tasks[x].status \in Status
    OBVIOUS
  <2>1. tasks[x] \in Task /\ tasks[x].status # "absent"
    BY DEF Exists, TasksInv, TasksTypeOK
  <2>2. o.write.rows[x] # None => o.write.rows[x] \in Task /\ o.write.rows[x].status # "absent"
    BY DEF Committing, Fits, WriteFits, RowFits, Write
  <2> QED
    BY <1>1, <2>1, <2>2 DEF Seen, Task
<1>4. \A x \in TaskIds : (\E e \in o.write.log : e.task = x) <=> Seen(r, x).status # tasks[x].status
  <2> SUFFICES ASSUME NEW x \in TaskIds
               PROVE  (\E e \in o.write.log : e.task = x) <=> Seen(r, x).status # tasks[x].status
    OBVIOUS
  <2>1. ASSUME NEW e \in o.write.log, e.task = x PROVE Seen(r, x).status # tasks[x].status
    BY <1>1, <2>1 DEF Fits, WriteFits, EntryFits, Seen
  <2>2. ASSUME Seen(r, x).status # tasks[x].status PROVE \E e \in o.write.log : e.task = x
    BY <1>1, <2>2 DEF Fits, WriteFits, RowFits, Seen, Accepting
  <2> QED
    BY <2>1, <2>2
<1>5. \A x \in TaskIds : Seen(r, x).status # tasks[x].status =>
          x = t \/ (WithParent(o) /\ x = tasks[t].parent)
  BY <1>1, <1>2 DEF Fits, WriteFits, RowFits, Seen, Accepting
<1>6. PICK before \in Status, after \in Status : before = tasks[t].status /\ after = Seen(r, t).status
  BY <1>1, <1>2, <1>3 DEF Fits, Locked
<1>7. CASE o.call.effect = "complete_task_and_parent"
  <2>1. WithParent(o) /\ ParentLocked(o)
    BY <1>1, <1>7 DEF WithParent, ParentLocked, Committing
  <2>2. PICK p \in TaskIds : p = tasks[t].parent /\ Exists(p)
    BY <1>1, <1>2, <2>1 DEF Fits, Locked, Committing
  <2>3. PICK pBefore \in Status, pAfter \in Status : pBefore = tasks[p].status /\ pAfter = Seen(r, p).status
    BY <1>3, <2>2
  <2>4. PICK a : a = [task |-> t, key |-> o.call.key, effect |-> o.call.effect, before |-> before, after |-> after,
                      parent |-> p, parentBefore |-> pBefore, parentAfter |-> pAfter]
    OBVIOUS
  <2>5. a \in Acceptance
    BY <1>1, <2>4 DEF Acceptance
  <2>6. a = AcceptanceOf(r)
    BY <1>1, <1>2, <1>6, <1>7, <2>2, <2>3, <2>4 DEF AcceptanceOf
  <2>7. \A x \in TaskIds : Seen(r, x).status # tasks[x].status <=>
                       \/ x = a.task /\ a.before # a.after
                       \/ x = a.parent /\ a.parentBefore # a.parentAfter
    BY <1>5, <1>6, <2>2, <2>3, <2>4
  <2>8. a.task = o.call.task /\ a.key = o.call.key
    BY <1>2, <2>4
  <2> QED
    BY <1>4, <2>5, <2>6, <2>7, <2>8
<1>8. CASE o.call.effect # "complete_task_and_parent"
  <2>1. ~WithParent(o)
    BY <1>8 DEF WithParent
  <2>2. PICK a : a = [task |-> t, key |-> o.call.key, effect |-> o.call.effect, before |-> before, after |-> after,
                      parent |-> None, parentBefore |-> None, parentAfter |-> None]
    OBVIOUS
  <2>3. a \in Acceptance
    BY <1>1, <2>2 DEF Acceptance
  <2>4. a = AcceptanceOf(r)
    BY <1>1, <1>2, <1>6, <1>8, <2>2 DEF AcceptanceOf
  <2>5. \A x \in TaskIds : Seen(r, x).status # tasks[x].status <=>
                       \/ x = a.task /\ a.before # a.after
                       \/ x = a.parent /\ a.parentBefore # a.parentAfter
    BY <1>5, <1>6, <2>1, <2>2
  <2>6. a.task = o.call.task /\ a.key = o.call.key
    BY <1>2, <2>2
  <2> QED
    BY <1>4, <2>3, <2>4, <2>5, <2>6
<1> QED
  BY <1>7, <1>8

LEMMA CommitAcceptances ==
    ASSUME TasksInv, NEW r \in Requests, NEW o \in Request, Committing(r, o), Commit(r)
    PROVE  acceptances' = acceptances \cup (IF o.call.op = "accept" THEN {AcceptanceOf(r)} ELSE {})
BY DEF Commit, Committing

LEMMA CommitKeepsRecords ==
    ASSUME TasksInv, NEW r \in Requests, NEW o \in Request, Committing(r, o), Commit(r)
    PROVE  Recorded'
<1>1. PICK author : author = AuthorOf(o)
  OBVIOUS
<1>2. ASSUME NEW x \in TaskIds
      PROVE  /\ history[x] \in Seq(Entry)
             /\ \/ history'[x] = history[x] /\ ~\E e \in o.write.log : e.task = x
                \/ \E e \in Entry : /\ e.by = author /\ history'[x] = Append(history[x], e)
                                    /\ \E d \in o.write.log : d.task = x
  BY <1>1, CommitLog DEF EntryFits, TasksInv, TasksTypeOK
<1>3. \A a \in acceptances : <<a.task, a.key>> # author
  <2>1. CASE o.call.op = "accept"
    <3>1. ~Replayed(o.call)
      BY <2>1 DEF Committing, Fits, Locked, Accepting
    <3>2. author = <<o.call.task, o.call.key>>
      BY <1>1, <2>1 DEF AuthorOf
    <3> QED
      BY <3>1, <3>2 DEF Replayed
  <2>2. CASE o.call.op # "accept"
    BY <1>1, <2>2 DEF AuthorOf
  <2> QED
    BY <2>1, <2>2
<1>4. acceptances \subseteq acceptances'
  BY CommitAcceptances
<1>5. ASSUME NEW x \in TaskIds, NEW i \in 1..Len(history'[x]), history'[x][i].by # <<>>
      PROVE  \E a \in acceptances' : history'[x][i].by = <<a.task, a.key>>
  <2>1. PICK h \in Seq(Entry) : h = history[x]
    BY <1>2
  <2>2. CASE history'[x] = h
    <3>1. \E a \in acceptances : h[i].by = <<a.task, a.key>>
      BY <1>5, <2>1, <2>2 DEF TasksInv, Recorded
    <3> QED
      BY <1>4, <2>2, <3>1
  <2>3. ASSUME NEW e \in Entry, e.by = author, history'[x] = Append(h, e)
        PROVE  \E a \in acceptances' : history'[x][i].by = <<a.task, a.key>>
    <3>1. /\ Len(h) \in Nat /\ Len(history'[x]) = Len(h) + 1
          /\ \A j \in 1..Len(h) : history'[x][j] = h[j]
          /\ history'[x][Len(h) + 1] = e
      BY <2>3, AppendFacts
    <3>2. CASE i \in 1..Len(h)
      <4>1. \E a \in acceptances : h[i].by = <<a.task, a.key>>
        BY <1>5, <2>1, <3>1, <3>2 DEF TasksInv, Recorded
      <4> QED
        BY <1>4, <3>1, <3>2, <4>1
    <3>3. CASE i \notin 1..Len(h)
      <4>1. i = Len(h) + 1
        BY <3>1, <3>3
      <4>2. author # <<>>
        BY <1>5, <2>3, <3>1, <4>1
      <4>3. o.call.op = "accept"
        BY <1>1, <4>2 DEF AuthorOf
      <4>4. PICK a \in acceptances' : a.task = o.call.task /\ a.key = o.call.key
        BY <4>3, AcceptanceFacts, CommitAcceptances
      <4> QED
        BY <1>1, <2>3, <3>1, <4>1, <4>3, <4>4 DEF AuthorOf
    <3> QED
      BY <3>2, <3>3
  <2> QED
    BY <1>2, <2>1, <2>2, <2>3
<1>6. ASSUME NEW a \in acceptances, NEW x \in TaskIds
      PROVE  Cardinality(EntriesBy(history'[x], <<a.task, a.key>>)) =
                 IF \/ x = a.task /\ a.before # a.after
                    \/ x = a.parent /\ a.parentBefore # a.parentAfter
                 THEN 1 ELSE 0
  <2>1. EntriesBy(history'[x], <<a.task, a.key>>) = EntriesBy(history[x], <<a.task, a.key>>)
    <3>1. PICK h \in Seq(Entry) : h = history[x]
      BY <1>2
    <3>2. PICK by : by = <<a.task, a.key>> /\ by # author
      BY <1>3
    <3>3. ASSUME NEW e \in Entry, e.by = author PROVE EntriesBy(Append(h, e), by) = EntriesBy(h, by)
      BY <3>2, <3>3, EntriesOfAppend
    <3> QED
      BY <1>2, <3>1, <3>2, <3>3
  <2> QED
    BY <2>1 DEF TasksInv, Recorded
<1>7. ASSUME o.call.op = "accept", NEW a, a = AcceptanceOf(r), NEW x \in TaskIds
      PROVE  Cardinality(EntriesBy(history'[x], <<a.task, a.key>>)) =
                 IF \/ x = a.task /\ a.before # a.after
                    \/ x = a.parent /\ a.parentBefore # a.parentAfter
                 THEN 1 ELSE 0
  <2>1. /\ a.task = o.call.task /\ a.key = o.call.key
        /\ (\E e \in o.write.log : e.task = x) <=>
                       \/ x = a.task /\ a.before # a.after
                       \/ x = a.parent /\ a.parentBefore # a.parentAfter
    BY <1>7, AcceptanceFacts
  <2>2. author = <<a.task, a.key>> /\ author # <<>>
    BY <1>1, <1>7, <2>1 DEF AuthorOf
  <2>3. EntriesBy(history[x], author) = {}
    <3>1. \A i \in 1..Len(history[x]) : history[x][i].by # author
      BY <1>3, <2>2 DEF TasksInv, Recorded
    <3> QED
      BY <3>1 DEF EntriesBy
  <2>4. CASE history'[x] = history[x] /\ ~\E e \in o.write.log : e.task = x
    <3>1. Cardinality({}) = 0
      BY FS_EmptySet
    <3> QED
      BY <2>1, <2>2, <2>3, <2>4, <3>1
  <2>5. ASSUME NEW e \in Entry, e.by = author, history'[x] = Append(history[x], e),
               \E d \in o.write.log : d.task = x
        PROVE  Cardinality(EntriesBy(history'[x], <<a.task, a.key>>)) =
                 IF \/ x = a.task /\ a.before # a.after
                    \/ x = a.parent /\ a.parentBefore # a.parentAfter
                 THEN 1 ELSE 0
    <3>1. Cardinality(EntriesBy(history'[x], author)) = 1
      BY <1>2, <2>3, <2>5, EntriesOfAppend
    <3> QED
      BY <2>1, <2>2, <2>5, <3>1
  <2> QED
    BY <1>2, <2>4, <2>5
<1>8. \A a \in acceptances' : a \in acceptances \/ (o.call.op = "accept" /\ a = AcceptanceOf(r))
  BY CommitAcceptances
<1> QED
  BY <1>5, <1>6, <1>7, <1>8 DEF Recorded

LEMMA CommitKeepsTypes ==
    ASSUME TasksInv, NEW r \in Requests, NEW o \in Request, Committing(r, o), Commit(r)
    PROVE  TasksTypeOK'
<1>1. TasksTypeOK
  BY DEF TasksInv
<1>2. tasks' \in [TaskIds -> Task]
  BY CommitRows
<1>3. deps' \subseteq TaskIds \X TaskIds
  BY <1>1 DEF Commit, Committing, TasksTypeOK, Write
<1>4. history' \in [TaskIds -> Seq(Entry)]
  <2>1. \A t \in TaskIds : history[t] \in Seq(Entry)
    BY <1>1 DEF TasksTypeOK
  <2>2. ASSUME NEW t \in TaskIds PROVE history'[t] \in Seq(Entry)
    <3>1. PICK h \in Seq(Entry) : h = history[t]
      BY <2>1
    <3>2. \A e \in Entry : Append(h, e) \in Seq(Entry)
      BY AppendFacts
    <3>3. history'[t] = h \/ \E e \in Entry : history'[t] = Append(h, e)
      BY <3>1, CommitLog
    <3> QED
      BY <3>1, <3>2, <3>3
  <2>3. \E f : history' = [t \in TaskIds |-> f[t]]
    <3>1. history' = [t \in TaskIds |-> IF \E e \in o.write.log : e.task = t
                                        THEN Append(history[t], EntryOf(o.write, t)) ELSE history[t]]
      BY DEF Commit, Committing
    <3>2. history' = [t \in TaskIds |-> history'[t]]
      BY <3>1
    <3> QED
      BY <3>2
  <2> QED
    BY <2>2, <2>3
<1>5. changes' \subseteq Requests \X TaskIds
  <2>1. o.write.notify \subseteq TaskIds /\ o.call.task \in TaskIds
    BY CallTypes DEF Committing, Write
  <2>2. changes' = changes \cup {<<r, t>> : t \in o.write.notify \cup
                                     (IF o.call.op = "accept" THEN {o.call.task} ELSE {})}
    BY DEF Commit, Committing
  <2> QED
    BY <1>1, <2>1, <2>2 DEF TasksTypeOK
<1>6. acceptances' \subseteq Acceptance
  <2>1. o.call.op = "accept" => AcceptanceOf(r) \in Acceptance
    BY AcceptanceFacts
  <2> QED
    BY <1>1, <2>1, CommitAcceptances DEF TasksTypeOK
<1>7. reqs' \in [Requests -> Request]
  BY <1>1, StartTypes DEF Commit, Becomes, TasksTypeOK
<1> QED
  BY <1>2, <1>3, <1>4, <1>5, <1>6, <1>7 DEF TasksTypeOK

LEMMA CommitKept ==
    ASSUME TasksInv, NEW r \in Requests, Commit(r)
    PROVE  TasksInv'
<1>1. PICK o \in Request : Committing(r, o)
  BY CommitStarts
<1>2. /\ o = reqs[r] /\ Fits(o) /\ Holding(o) /\ InFlight(o)
      /\ reqs \in [Requests -> Request] /\ TasksTypeOK
      /\ o.call.task \in TaskIds
  BY <1>1, CallTypes DEF Committing, TasksInv, TasksTypeOK
<1>3. TasksTypeOK'
  BY <1>1, CommitKeepsTypes
<1>4. PICK idle \in {NoRequest("new"), NoRequest("done")} : idle = NoRequest("done")
  OBVIOUS
<1>5. reqs' = [reqs EXCEPT ![r] = idle]
  BY <1>4 DEF Commit, Becomes
<1>6. reqs'[r] = idle /\ \A p \in Requests \ {r} : reqs'[p] = reqs[p]
  BY <1>2, <1>5
<1>7. idle.excl = {} /\ idle.share = {} /\ ~InFlight(idle)
  BY <1>4, IdleFits
<1>8. ASSUME NEW p \in Requests \ {r}, NEW q \in Request, q = reqs[p] PROVE Fits(q)'
  <2>1. Fits(q) /\ q.excl \subseteq TaskIds
    BY <1>8 DEF TasksInv, Request
  <2>2. /\ q.excl \cap (o.excl \cup o.share) = {} /\ o.excl \cap q.share = {}
        /\ Creating(q) /\ Creating(o) => q.call.task # o.call.task
    BY <1>2, <1>8 DEF TasksInv, Exclusive, CreatesDiffer
  <2>3. /\ \A t \in TaskIds : Exists(t) => Exists(t)'
        /\ \A t \in TaskIds : o.write.rows[t] = None => tasks'[t] = tasks[t]
        /\ \A t \in TaskIds : o.write.rows[t] # None => tasks'[t] = o.write.rows[t] /\ RowFits(o, o.write, t)
    BY <1>1, CommitRows
  <2>4. Creating(o) => ~Exists(o.call.task)
    BY <1>2 DEF Creating, Fits, Locked
  <2>5. \A t \in o.excl : Exists(t)
    BY <1>2 DEF Fits, Locked
  <2>6. \A t \in q.excl : Exists(t)
    BY <2>1 DEF Fits, Locked
  <2>7. Creating(q) => ~Exists(q.call.task)
    BY <2>1 DEF Creating, Fits, Locked
  <2>8. ASSUME NEW t \in TaskIds, t \in q.excl \/ (Creating(q) /\ t = q.call.task)
        PROVE  tasks'[t] = tasks[t]
    <3>1. SUFFICES ASSUME o.write.rows[t] # None PROVE FALSE
      BY <2>3
    <3>2. RowFits(o, o.write, t)
      BY <2>3, <3>1
    <3>3. CASE o.call.op = "create"
      <4>1. t = o.call.task /\ Creating(o)
        BY <1>2, <3>2, <3>3 DEF RowFits, Creating
      <4> QED
        BY <2>2, <2>4, <2>6, <2>8, <4>1
    <3>4. CASE o.call.op # "create"
      <4>1. t \in o.excl
        BY <3>2, <3>4 DEF RowFits
      <4> QED
        BY <2>2, <2>5, <2>7, <2>8, <4>1
    <3> QED
      BY <3>3, <3>4
  <2>9. ASSUME NEW t \in TaskIds, NEW x \in q.excl PROVE tasks'[t].parent = x <=> tasks[t].parent = x
    <3>1. x # None /\ x \notin o.share
      BY <2>1, <2>2, TasksAssumption
    <3>2. CASE o.write.rows[t] = None
      BY <2>3, <3>2
    <3>3. CASE o.write.rows[t] # None
      BY <2>3, <3>1, <3>3 DEF RowFits
    <3> QED
      BY <3>2, <3>3
  <2>10. Accepting(q) /\ Replayed(q.call)' => Replayed(q.call)
    <3>1. SUFFICES ASSUME Accepting(q), NEW a \in acceptances', a.task = q.call.task, a.key = q.call.key
                   PROVE  Replayed(q.call)
      BY DEF Replayed
    <3>2. q.call.task \in q.excl
      BY <2>1, <3>1 DEF Fits, Locked, Locking, Accepting
    <3>3. CASE a \in acceptances
      BY <3>1, <3>3 DEF Replayed
    <3>4. CASE o.call.op = "accept" /\ a = AcceptanceOf(r)
      <4>1. a.task = o.call.task
        BY <1>1, <3>4, AcceptanceFacts
      <4>2. o.call.task \in o.excl
        BY <1>2, <3>4 DEF Fits, Locked, Locking
      <4> QED
        BY <2>2, <3>1, <3>2, <4>1, <4>2
    <3> QED
      BY <1>1, <3>1, <3>3, <3>4, CommitAcceptances
  <2>11. ASSUME NEW t \in q.excl PROVE Dependents(t)' \subseteq Dependents(t)
    <3>1. SUFFICES ASSUME NEW x \in TaskIds, <<x, t>> \in deps', <<x, t>> \notin deps PROVE FALSE
      BY DEF Dependents
    <3>2. <<x, t>> \in o.write.add
      BY <1>1, <3>1 DEF Commit, Committing
    <3>3. t \in o.share
      BY <1>2, <3>2 DEF Fits, WriteFits
    <3> QED
      BY <2>2, <3>3
  <2> QED
    BY <1>2, <2>1, <2>3, <2>8, <2>9, <2>10, <2>11, OthersFit
<1>9. ASSUME NEW p \in Requests PROVE Fits(reqs[p])'
  <2>1. PICK q \in Request : q = reqs'[p]
    BY <1>3 DEF TasksTypeOK
  <2>2. Fits(q)'
    <3>1. CASE p = r
      <4>1. q \in {NoRequest("new"), NoRequest("done")}
        BY <1>6, <2>1, <3>1
      <4> QED
        BY <4>1, IdleFitsAlways
    <3>2. CASE p # r
      BY <1>6, <1>8, <2>1, <3>2
    <3> QED
      BY <3>1, <3>2
  <2> QED
    BY <2>1, <2>2, FitsPrimed
<1>10. Exclusive'
  BY <1>6, <1>7 DEF TasksInv, Exclusive
<1>11. CreatesDiffer'
  BY <1>6, <1>7 DEF TasksInv, CreatesDiffer, Creating, InFlight
<1>12. Rooted' /\ Chained' /\ Recorded'
  BY <1>1, CommitKeepsRoots, CommitKeepsChains, CommitKeepsRecords
<1> QED
  BY <1>3, <1>9, <1>10, <1>11, <1>12 DEF TasksInv

-----------------------------------------------------------------------------
(* The theorems                                                              *)

LEMMA InitInv == TasksInit => TasksInv
<1> SUFFICES ASSUME TasksInit PROVE TasksInv
  OBVIOUS
<1>1. PICK s \in Starts : tasks = s.tasks /\ deps = s.deps
  BY DEF TasksInit
<1>2. /\ tasks \in [TaskIds -> Task] /\ deps \subseteq TaskIds \X TaskIds
      /\ history = [t \in TaskIds |-> <<>>] /\ changes = {} /\ acceptances = {}
  BY <1>1, TasksAssumption DEF TasksInit
<1>3. PICK idle \in {NoRequest("new"), NoRequest("done")} : idle = NoRequest("new")
  OBVIOUS
<1>4. reqs = [r \in Requests |-> idle] /\ \A r \in Requests : reqs[r] = idle
  BY <1>3 DEF TasksInit
<1>5. Fits(idle) /\ ~InFlight(idle) /\ idle.excl = {} /\ idle.share = {} /\ idle \in Request
  BY IdleFits
<1>6. TasksTypeOK
  <2>1. history \in [TaskIds -> Seq(Entry)]
    BY <1>2
  <2> QED
    BY <1>2, <1>4, <1>5, <2>1 DEF TasksTypeOK
<1>7. \A r \in Requests : Fits(reqs[r])
  BY <1>4, <1>5
<1>8. Exclusive /\ CreatesDiffer
  BY <1>4, <1>5 DEF Exclusive, CreatesDiffer, Creating
<1>9. Rooted
  <2>1. \A t \in TaskIds : tasks[t].parent \in TaskIds \cup {None}
    BY <1>2 DEF Task
  <2>2. \A t \in TaskIds : tasks[t].parent # None =>
            tasks[t].status # "absent" /\ tasks[tasks[t].parent].status # "absent"
    BY <1>1, StartsAssumption
  <2> QED
    BY <1>2, <2>1, <2>2 DEF Rooted, Exists
<1>10. \A t \in TaskIds : history[t] = <<>> /\ Len(history[t]) = 0
  BY <1>2
<1>11. Chained
  BY <1>10 DEF Chained
<1>12. Recorded
  BY <1>2, <1>10 DEF Recorded
<1> QED
  BY <1>6, <1>7, <1>8, <1>9, <1>11, <1>12 DEF TasksInv

LEMMA StepInv ==
    ASSUME TasksInv, [TasksNext]_taskVars
    PROVE  TasksInv'
<1>1. CASE UNCHANGED taskVars
  <2>1. UNCHANGED <<tasks, deps, history, changes, acceptances, reqs>>
    BY <1>1 DEF taskVars
  <2>2. TasksTypeOK'
    BY <2>1 DEF TasksInv, TasksTypeOK
  <2>3. ASSUME NEW p \in Requests PROVE Fits(reqs[p])'
    <3>1. PICK o \in Request : o = reqs[p]
      BY DEF TasksInv, TasksTypeOK
    <3>2. Fits(o)
      BY <3>1 DEF TasksInv
    <3>3. Fits(o)'
      BY <2>1, <3>2 DEF Fits, Placed, Locked, Named, Counted, Locking, Accepting, ParentLocked,
         WithParent, Exists, Replayed, WriteFits, RowFits, EntryFits, ChildrenBy, SeenBy, Dependents
    <3> QED
      BY <2>1, <3>1, <3>3, FitsPrimed
  <2>4. Exclusive' /\ CreatesDiffer'
    BY <2>1 DEF TasksInv, Exclusive, CreatesDiffer, Creating, InFlight
  <2>5. Rooted' /\ Chained'
    BY <2>1 DEF TasksInv, Rooted, Chained, Exists
  <2>6. Recorded'
    BY <2>1, Zenon DEF TasksInv, Recorded, EntriesBy
  <2> QED
    BY <2>2, <2>3, <2>4, <2>5, <2>6 DEF TasksInv
<1>2. ASSUME NEW r \in Requests, \/ \E c \in Calls : Arrive(r, c)
                                 \/ RequestStep(r)
                                 \/ Rollback(r)
      PROVE  TasksInv'
  <2>1. CASE \E c \in Calls : Arrive(r, c)
    BY <2>1, ArriveKept
  <2>2. CASE RequestStep(r)
    <3>1. CASE CheckCreate(r) \/ WriteCreate(r)
      BY <3>1, CheckCreateKept, WriteCreateKept
    <3>2. CASE LockForUpdate(r) \/ CheckUpdate(r) \/ LockForReview(r) \/ WriteUpdate(r)
      BY <3>2, LockForUpdateKept, CheckUpdateKept, LockForReviewKept, WriteUpdateKept
    <3>3. CASE CheckAdd(r) \/ WriteAdd(r) \/ WriteRemove(r)
      BY <3>3, CheckAddKept, WriteAddKept, WriteRemoveKept
    <3>4. CASE LockForAcceptance(r) \/ CompleteTask(r) \/ LockParent(r)
      BY <3>4, LockForAcceptanceKept, CompleteTaskKept, LockParentKept
    <3>5. CASE parentCompletionEligibleTx(r) \/ CompleteParent(r)
      BY <3>5, CountKept, CompleteParentKept
    <3>6. CASE Commit(r)
      BY <3>6, CommitKept
    <3> QED
      BY <2>2, <3>1, <3>2, <3>3, <3>4, <3>5, <3>6 DEF RequestStep
  <2>3. CASE Rollback(r)
    BY <2>3, EndsKept DEF Rollback
  <2> QED
    BY <1>2, <2>1, <2>2, <2>3
<1> QED
  BY <1>1, <1>2 DEF TasksNext

LEMMA InvImpliesAudit == TasksInv => AuditIsTrue
<1> SUFFICES ASSUME TasksInv PROVE AuditIsTrue
  OBVIOUS
<1>1. HistoryIsChain
  BY DEF TasksInv, Chained, HistoryIsChain
<1>2. ASSUME NEW r \in Requests, reqs[r].expect # None, reqs[r].pc \notin {"new", "begun", "done"}
      PROVE  tasks[reqs[r].call.task].updatedAt = reqs[r].expect
  BY <1>2 DEF TasksInv, Fits, Placed, Locked, Accepting, Holding, InFlight
<1>3. AcceptanceAppliesOnce
  BY <1>2 DEF TasksInv, Recorded, EntriesBy, AcceptanceAppliesOnce
<1>4. ASSUME NEW r \in Requests, reqs[r].pc \in {"complete", "written"},
             reqs[r].call.effect = "complete_task_and_parent"
      PROVE  Children(r, tasks[reqs[r].call.task].parent) = reqs[r].write.saw
  <2>1. Fits(reqs[r]) /\ reqs[r].call \in Calls
    BY <1>4 DEF TasksInv, Fits, Placed, InFlight
  <2>2. reqs[r].call.op = "accept"
    BY <1>4, <2>1, CallsAssumption, TasksAssumption DEF Effect
  <2>3. WithParent(reqs[r])
    BY <1>4, <2>2 DEF WithParent, Accepting, Holding
  <2> QED
    BY <1>4, <2>1, <2>3 DEF Fits, Counted, ChildrenBy, SeenBy, Children, Seen
<1>5. ParentCompletedAsCounted
  BY <1>4 DEF ParentCompletedAsCounted
<1> QED
  BY <1>1, <1>3, <1>5 DEF AuditIsTrue

\* What the store has written about status changes, their authors and reasons is
\* what happened, whatever updates, transitions and acceptances ran against each
\* other and were rolled back (writeHistory, RecordHumanAcceptance,
\* completeParentForAcceptanceTx).
THEOREM AuditCorrect == TasksSpec => []AuditIsTrue
<1>1. TasksInit => TasksInv
  BY InitInv
<1>2. TasksInv /\ [TasksNext]_taskVars => TasksInv'
  BY StepInv
<1>3. TasksInv => AuditIsTrue
  BY InvImpliesAudit
<1> QED
  BY <1>1, <1>2, <1>3, PTL DEF TasksSpec

-----------------------------------------------------------------------------
(* The change feed                                                           *)

\* A commit tells the feed of every task whose summary it changes.
LEMMA CommitTells ==
    ASSUME TasksInv, NEW r \in Requests, NEW o \in Request, Committing(r, o), Commit(r),
           NEW t \in TaskIds, t \notin o.write.notify
    PROVE  Summary(t)' = Summary(t)
<1>1. Rooted /\ WriteFits(o, o.write)
  BY DEF TasksInv, Committing, Fits
<1>2. /\ \A x \in TaskIds : o.write.rows[x] = None => tasks'[x] = tasks[x]
      /\ \A x \in TaskIds : o.write.rows[x] # None => tasks'[x] = o.write.rows[x] /\ RowFits(o, o.write, x)
  BY CommitRows
<1>3. tasks'[t] = tasks[t]
  BY <1>2 DEF RowFits
<1>4. \A d \in TaskIds : <<t, d>> \in deps' <=> <<t, d>> \in deps
  <2>1. deps' = (deps \ o.write.del) \cup o.write.add
    BY DEF Commit, Committing
  <2>2. ASSUME NEW d \in TaskIds PROVE <<t, d>> \notin o.write.add /\ <<t, d>> \notin o.write.del
    BY <1>1 DEF WriteFits
  <2> QED
    BY <2>1, <2>2
<1>5. ASSUME NEW d \in TaskIds, <<t, d>> \in deps
      PROVE  dependencySatisfiedStatus(tasks'[d].status) <=> dependencySatisfiedStatus(tasks[d].status)
  <2>1. CASE o.write.rows[d] = None
    BY <1>2, <2>1
  <2>2. CASE o.write.rows[d] # None /\ o.call.op = "create"
    <3>1. tasks'[d].status = "planned" /\ d = o.call.task
      BY <1>2, <2>2 DEF RowFits
    <3>2. ~Exists(d)
      BY <2>2, <3>1 DEF Committing, Fits, Locked
    <3> QED
      BY <3>1, <3>2 DEF Exists, dependencySatisfiedStatus, terminalStatus
  <2>3. CASE o.write.rows[d] # None /\ o.call.op # "create"
    <3>1. tasks'[d].status # tasks[d].status => Dependents(d) \subseteq o.write.notify
      BY <1>2, <2>3 DEF RowFits
    <3>2. t \in Dependents(d)
      BY <1>5 DEF Dependents
    <3> QED
      BY <3>1, <3>2
  <2> QED
    BY <2>1, <2>2, <2>3
<1>6. ASSUME NEW x \in TaskIds PROVE tasks'[x].parent = t <=> tasks[x].parent = t
  <2>1. t # None
    BY TasksAssumption
  <2> QED
    BY <1>2, <2>1 DEF RowFits
<1>7. /\ {d \in TaskIds : <<t, d>> \in deps'} = {d \in TaskIds : <<t, d>> \in deps}
      /\ {d \in TaskIds : <<t, d>> \in deps' /\ ~dependencySatisfiedStatus(tasks'[d].status)} =
            {d \in TaskIds : <<t, d>> \in deps /\ ~dependencySatisfiedStatus(tasks[d].status)}
      /\ {x \in TaskIds : tasks'[x].parent = t} = {x \in TaskIds : tasks[x].parent = t}
  BY <1>4, <1>5, <1>6
<1> QED
  BY <1>3, <1>7 DEF Summary, dependencySatisfiedStatus, terminalStatus

\* Only requests that have committed have told the feed.
ToldWhenDone == \A e \in changes : e[1] \in Requests /\ reqs[e[1]].pc = "done"

\* A request that is over never acts, and only a commit writes the tables.
LEMMA StepShape ==
    ASSUME TasksInv, NEW r \in Requests,
           (\E c \in Calls : Arrive(r, c)) \/ RequestStep(r) \/ Rollback(r)
    PROVE  /\ reqs[r].pc # "done"
           /\ \A q \in Requests \ {r} : reqs'[q] = reqs[q]
           /\ Commit(r) \/ UNCHANGED tables
<1>1. reqs \in [Requests -> Request]
  BY DEF TasksInv, TasksTypeOK
<1>2. reqs[r].pc # "done"
  BY DEF Arrive, NextToArrive, Rollback, RequestStep, CheckCreate, WriteCreate, LockForUpdate, CheckUpdate,
     LockForReview, WriteUpdate, CheckAdd, WriteAdd, WriteRemove, LockForAcceptance, CompleteTask, LockParent,
     parentCompletionEligibleTx, CompleteParent, Commit, At
<1>3. \E q : Becomes(r, q)
  <2>1. CASE (\E c \in Calls : Arrive(r, c)) \/ Rollback(r)
    BY <2>1 DEF Arrive, Rollback, Ends
  <2>2. CASE CheckCreate(r) \/ WriteCreate(r)
    BY <2>2 DEF CheckCreate, WriteCreate, Ends
  <2>3. CASE LockForUpdate(r) \/ CheckUpdate(r) \/ LockForReview(r) \/ WriteUpdate(r)
    BY <2>3 DEF LockForUpdate, CheckUpdate, LockForReview, WriteUpdate, Ends
  <2>4. CASE CheckAdd(r) \/ WriteAdd(r) \/ WriteRemove(r)
    BY <2>4 DEF CheckAdd, WriteAdd, WriteRemove, Ends
  <2>5. CASE LockForAcceptance(r) \/ CompleteTask(r) \/ LockParent(r)
    BY <2>5 DEF LockForAcceptance, CompleteTask, LockParent, Ends
  <2>6. CASE parentCompletionEligibleTx(r) \/ CompleteParent(r) \/ Commit(r)
    BY <2>6 DEF parentCompletionEligibleTx, CompleteParent, Commit, Ends
  <2> QED
    BY <2>1, <2>2, <2>3, <2>4, <2>5, <2>6 DEF RequestStep
<1>4. \A q \in Requests \ {r} : reqs'[q] = reqs[q]
  BY <1>1, <1>3 DEF Becomes
<1>5. Commit(r) \/ UNCHANGED tables
  BY DEF Arrive, Rollback, RequestStep, CheckCreate, WriteCreate, LockForUpdate, CheckUpdate,
     LockForReview, WriteUpdate, CheckAdd, WriteAdd, WriteRemove, LockForAcceptance, CompleteTask, LockParent,
     parentCompletionEligibleTx, CompleteParent, Ends
<1> QED
  BY <1>2, <1>4, <1>5

LEMMA CommitChanges ==
    ASSUME TasksInv, NEW r \in Requests, NEW o \in Request, Committing(r, o), Commit(r)
    PROVE  /\ changes' = changes \cup {<<r, t>> : t \in o.write.notify \cup
                                          (IF o.call.op = "accept" THEN {o.call.task} ELSE {})}
           /\ reqs'[r].pc = "done"
<1>1. reqs' = [reqs EXCEPT ![r] = NoRequest("done")] /\ reqs \in [Requests -> Request]
  BY DEF Commit, Becomes, TasksInv, TasksTypeOK
<1>2. reqs'[r].pc = "done"
  BY <1>1, StartFields
<1> QED
  BY <1>2 DEF Commit, Committing

LEMMA ToldStep ==
    ASSUME TasksInv, ToldWhenDone, [TasksNext]_taskVars
    PROVE  ToldWhenDone'
<1>1. CASE UNCHANGED taskVars
  BY <1>1 DEF taskVars, ToldWhenDone
<1>2. ASSUME NEW r \in Requests, (\E c \in Calls : Arrive(r, c)) \/ RequestStep(r) \/ Rollback(r)
      PROVE  ToldWhenDone'
  <2>1. /\ reqs[r].pc # "done"
        /\ \A q \in Requests \ {r} : reqs'[q] = reqs[q]
        /\ Commit(r) \/ UNCHANGED tables
    BY <1>2, StepShape
  <2>2. \A e \in changes : e[1] \in Requests /\ reqs'[e[1]].pc = "done"
    BY <2>1 DEF ToldWhenDone
  <2>3. CASE UNCHANGED tables
    BY <2>2, <2>3 DEF tables, ToldWhenDone
  <2>4. CASE Commit(r)
    <3>1. PICK o \in Request : Committing(r, o)
      BY <2>4, CommitStarts
    <3>2. /\ reqs'[r].pc = "done"
          /\ \A e \in changes' : e \in changes \/ e[1] = r
      BY <2>4, <3>1, CommitChanges
    <3> QED
      BY <2>2, <3>2 DEF ToldWhenDone
  <2> QED
    BY <2>1, <2>3, <2>4
<1> QED
  BY <1>1, <1>2 DEF TasksNext

SummariesTold(r) == \A t \in TaskIds : Summary(t) # Summary(t)' => <<r, t>> \in changes' \ changes

LEMMA FeedStep ==
    ASSUME TasksInv, ToldWhenDone, NEW r \in Requests,
           (\E c \in Calls : Arrive(r, c)) \/ RequestStep(r) \/ Rollback(r)
    PROVE  SummariesTold(r)
<1>1. /\ reqs[r].pc # "done"
      /\ Commit(r) \/ UNCHANGED tables
  BY StepShape
<1>2. CASE UNCHANGED tables
  BY <1>2 DEF tables, Summary, SummariesTold
<1>3. CASE Commit(r)
  <2>1. PICK o \in Request : Committing(r, o)
    BY <1>3, CommitStarts
  <2>2. \A t \in TaskIds : t \in o.write.notify => <<r, t>> \in changes'
    BY <1>3, <2>1, CommitChanges
  <2>3. \A t \in TaskIds : <<r, t>> \notin changes
    BY <1>1 DEF ToldWhenDone
  <2>4. \A t \in TaskIds : t \notin o.write.notify => Summary(t)' = Summary(t)
    BY <1>3, <2>1, CommitTells
  <2> QED
    BY <2>2, <2>3, <2>4 DEF SummariesTold
<1> QED
  BY <1>1, <1>2, <1>3

\* No summary goes stale in silence: the commit that changes what the feed
\* shows of a task, its own row, its edges, the state of what it waits for or
\* its subtasks, brings an event of that task (recordTaskChangesTx), whoever
\* adds dependents or moves children meanwhile.
THEOREM FeedCorrect == TasksSpec => FeedCoversChanges
<1>1. TasksInit => TasksInv /\ ToldWhenDone
  BY InitInv DEF TasksInit, ToldWhenDone
<1>2. TasksInv /\ ToldWhenDone /\ [TasksNext]_taskVars => TasksInv' /\ ToldWhenDone'
  BY StepInv, ToldStep
<1>3. TasksInv /\ ToldWhenDone /\ [TasksNext]_taskVars =>
          [<<tasks, deps>> # <<tasks, deps>>' => \A t \in TaskIds : Summary(t) # Summary(t)' =>
              \E r \in Requests : <<r, t>> \in changes' \ changes]_taskVars
  <2> SUFFICES ASSUME TasksInv, ToldWhenDone, TasksNext
               PROVE  \A t \in TaskIds : Summary(t) # Summary(t)' =>
                          \E r \in Requests : <<r, t>> \in changes' \ changes
    OBVIOUS
  <2>1. PICK r \in Requests : SummariesTold(r)
    BY FeedStep DEF TasksNext
  <2> QED
    BY <2>1 DEF SummariesTold
<1> QED
  BY <1>1, <1>2, <1>3, PTL DEF TasksSpec, FeedCoversChanges

=============================================================================
