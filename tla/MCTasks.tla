------------------------------ MODULE MCTasks -------------------------------
(* Three tasks and a handful of calls that meet each other: 2 is a child of  *)
(* 1 and depends on 3; 4 does not exist.                                     *)
EXTENDS Tasks

CONSTANT acceptanceKey

Row(s, p) == [status |-> s, parent |-> p, context |-> s = "blocked", updatedAt |-> 0]

MCStarts ==
    {[tasks |-> [t \in TaskIds |->
                    CASE t = 1 -> Row("in_progress", None)
                      [] t = 2 -> Row(s, 1)
                      [] t = 3 -> Row("done", None)
                      [] OTHER -> Row("absent", None)],
      deps |-> {<<2, 3>>}] : s \in {"in_progress", "blocked"}}

A(op, t) ==
    [op |-> op, task |-> t, status |-> None, parent |-> Keep, context |-> FALSE, on |-> None,
     key |-> None, effect |-> None, pinned |-> FALSE]

Accept(t, e, pinned) ==
    [A("accept", t) EXCEPT !.key = acceptanceKey, !.effect = e, !.pinned = pinned]

MCCalls ==
    {[A("create", 4) EXCEPT !.parent = 1, !.on = 3],
     [A("update", 2) EXCEPT !.status = "blocked", !.context = TRUE],
     [A("update", 2) EXCEPT !.status = "in_progress"],
     [A("update", 3) EXCEPT !.status = "in_progress"],
     [A("update", 3) EXCEPT !.parent = 1],
     [A("update", 2) EXCEPT !.parent = None],
     A("review", 2),
     [A("add", 1) EXCEPT !.on = 3],
     [A("add", 3) EXCEPT !.on = 1],
     [A("remove", 2) EXCEPT !.on = 3],
     Accept(2, "complete_task_and_parent", FALSE),
     Accept(2, "complete_task", TRUE),
     Accept(1, "record_only", FALSE)}

\* 3 is a child of 2, and 1 and 2 are moved under 3 and 1.
MCChain ==
    {[tasks |-> [t \in TaskIds |-> IF t = 3 THEN Row("planned", 2) ELSE Row("planned", None)],
      deps |-> {}]}

MCMoves == {[A("update", 1) EXCEPT !.parent = 3], [A("update", 2) EXCEPT !.parent = 1]}

=============================================================================
