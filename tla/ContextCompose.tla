--------------------------- MODULE ContextCompose ---------------------------
(***************************************************************************)
(* The reads the MCP facade composes from several services                 *)
(* (mcp/internal/backend): project and workflow summaries, the task        *)
(* context and the review context.  A few sources are required; the others *)
(* are best effort: what one of them could not give is left out of the     *)
(* answer and told in its status, a warning or a truncation flag.  The     *)
(* task context asks its four optional sources at the same time; each      *)
(* stores its section and appends its status under one mutex.              *)
(*                                                                         *)
(* A section is the number of entries in it; a source holds some of Held.  *)
(***************************************************************************)
EXTENDS Naturals, Sequences, FiniteSets

CONSTANTS ComposedReads,   \* the operations asked for
          Held,            \* numbers of entries a source may hold
          ItemLimit,       \* entries a section may show
          ByteBudget,      \* weight a review context may have
          DetailBudget,    \* and a verbose one
          PacketKeys       \* the packet headers looked up

ASSUME ComposeAssumption ==
    /\ Held \subseteq Nat /\ 1 \in Held /\ ItemLimit \in Nat \ {0} /\ ByteBudget \in Nat /\ DetailBudget \in Nat
    /\ ComposedReads \subseteq {"get_project", "get_task_workflow_summary",
                                "get_task_context", "get_review_context"}
    /\ IsFiniteSet(PacketKeys)

VARIABLES holds,     \* what the sources hold for the task
          compose,   \* the call: operation, arguments, configured backends, progress
          reply      \* the answer under construction

composeVars == <<holds, compose, reply>>

-----------------------------------------------------------------------------
(* The sources of each operation, in the order they are asked; the sources *)
(* of one stage are asked at the same time.                                *)
Stages(op) ==
    CASE op = "get_project" -> <<{"projects"}, {"tasks"}, {"unread"}>>
      [] op = "get_task_workflow_summary" -> <<{"task"}, {"review"}, {"packets"}>>
      [] op = "get_task_context" ->
            <<{"task"}, {"workflow", "task_thread", "guidance", "librarian"}>>
      [] op = "get_review_context" ->
            <<{"task"}, {"review"}, {"project"}, {"packets"}, {"guidance"},
              {"review_findings"}, {"expanded_packets"}>>

Asked(op) == UNION {Stages(op)[i] : i \in DOMAIN Stages(op)}

Backend(source) ==
    CASE source \in {"projects", "project"} -> "projects"
      [] source \in {"task", "tasks"} -> "tasks"
      [] source \in {"review", "workflow", "review_findings"} -> "review"
      [] source \in {"unread", "packets", "task_thread", "expanded_packets"} -> "messages"
      [] OTHER -> source

(* projectSummaryBackends, taskWorkflowBackends, and the task backend.     *)
RequiredBackends(op) ==
    CASE op = "get_project" -> {"projects", "tasks", "messages"}
      [] op = "get_task_context" -> {"tasks"}
      [] OTHER -> {"tasks", "review", "messages"}

(* Without these sources there is no answer.                               *)
Required(op) ==
    CASE op = "get_project" -> Asked(op)
      [] op = "get_task_context" -> {"task"}
      [] OTHER -> {"task", "review"}

expands(c, section) == c.verbose /\ c.section \in {"", section}

(* Whether an optional source is asked at all by this call.                *)
Wanted(c, source) ==
    CASE source = "unread" -> c.agent
      [] source = "review_findings" -> expands(c, "findings")
      [] source = "expanded_packets" -> expands(c, "packets")
      [] OTHER -> TRUE

Packets(source) == source \in {"packets", "expanded_packets"}

NoReply == [section |-> <<>>, status |-> <<>>, cut |-> {}, warned |-> {},
            headers |-> {}, expanded |-> {}, bounded |-> FALSE, is |-> "none"]

ComposeInit ==
    /\ holds = [entries |-> [s \in {"none"} |-> 0], packets |-> {}, round |-> TRUE,
                incomplete |-> FALSE]
    /\ compose = [op |-> "none", verbose |-> FALSE, section |-> "", agent |-> FALSE,
                  configured |-> {}, stage |-> 0, busy |-> <<>>, outcome |-> <<>>]
    /\ reply = NoReply

StartedCall(op, verbose, section, agent, there) ==
    [op |-> op, verbose |-> verbose, section |-> section, agent |-> agent,
     configured |-> there, stage |-> 1, busy |-> [s \in Stages(op)[1] |-> "ask"],
     outcome |-> [s \in Asked(op) |-> "unasked"]]

(* A missing required backend refuses the call at once.                    *)
StartedReply(op, there) ==
    [NoReply EXCEPT !.section = [s \in Asked(op) |-> 0],
                    !.status = [s \in Asked(op) |-> <<>>],
                    !.is = IF RequiredBackends(op) \subseteq there
                           THEN "composing" ELSE "error"]

(* A call with its arguments, the backends the facade was configured with  *)
(* and what they hold.                                                     *)
composeCall(op, verbose, section, agent) ==
    /\ compose.op = "none"
    /\ section # "" => verbose
    /\ (verbose \/ section # "") => op = "get_review_context"
    /\ agent => op = "get_project"
    /\ \E missing \in SUBSET {"projects", "guidance", "librarian", "messages", "review"},
          entries \in [Asked(op) -> Held], packets \in SUBSET PacketKeys,
          round \in BOOLEAN, incomplete \in BOOLEAN :
        /\ \A s \in Asked(op) : (s \in {"projects", "project", "task", "tasks", "unread"}
                                 \/ Packets(s)) => entries[s] = 1
        /\ op = "get_task_context" => \A s \in Asked(op) : entries[s] > 0
        /\ missing # {} => Cardinality(missing) = 1 /\ \A s \in Asked(op) : entries[s] <= 1
        /\ ~round => op = "get_review_context"
        /\ incomplete => op = "get_task_context"
        /\ packets # {} => \E s \in Asked(op) : Packets(s) \/ s = "workflow"
        /\ holds' = [entries |-> entries, packets |-> packets, round |-> round,
                     incomplete |-> incomplete]
        /\ LET there == {"tasks", "projects", "guidance", "librarian", "messages",
                         "review"} \ missing
           IN  /\ compose' = StartedCall(op, verbose, section, agent, there)
               /\ reply' = StartedReply(op, there)

-----------------------------------------------------------------------------
(* What a request may come to (taskContextDo): an answer, a 404, another   *)
(* refusal, no answer in time or a retryable status, a body over the byte  *)
(* bound, or one that does not parse.  The task context treats the last    *)
(* three alike.                                                            *)
RequestOutcomes(op) ==
    {"answer", "refused", "unreachable"} \union
    IF op = "get_task_context" THEN {} ELSE {"notfound", "oversized", "garbled"}

taskContextStatus(outcome) ==
    CASE outcome = "answer" -> "ok"
      [] outcome = "unreachable" -> "unavailable"
      [] OTHER -> "partial"

AtMost(n, limit) == IF n <= limit THEN n ELSE limit

(* The messages are asked for with the limit, so that the service itself   *)
(* leaves the rest out.                                                    *)
Composed(source) ==
    IF source = "task_thread" THEN AtMost(holds.entries[source], ItemLimit)
    ELSE holds.entries[source]

(* taskContextGET and its siblings, up to the parsed answer.               *)
taskContextDo(source, outcome) ==
    /\ reply.is = "composing"
    /\ source \in DOMAIN compose.busy /\ compose.busy[source] = "ask"
    /\ Backend(source) \in compose.configured /\ Wanted(compose, source)
    /\ ~Packets(source)
    /\ outcome = "notfound" /\ source = "review_findings" => holds.entries[source] = 0
    /\ compose' = [compose EXCEPT !.busy[source] = "read", !.outcome[source] = outcome]
    /\ UNCHANGED <<holds, reply>>

(* MUTANT: a header that could not be read counts as absent.               *)
everyLossIsAbsent(source, lost) ==
    /\ reply.is = "composing"
    /\ source \in DOMAIN compose.busy /\ compose.busy[source] = "ask"
    /\ Packets(source) /\ Wanted(compose, source)
    /\ compose' = [compose EXCEPT !.busy[source] = "done",
                                  !.outcome[source] = IF lost = {} THEN "answer" ELSE "refused"]
    /\ reply' = IF source = "packets" THEN [reply EXCEPT !.headers = holds.packets \ lost]
                ELSE [reply EXCEPT !.expanded = holds.packets \ lost]
    /\ UNCHANGED holds

(* The packet headers, one request each: a 404 is an absent packet, every  *)
(* other failure a warning (taskWorkflowLatestPackets).                    *)
taskWorkflowLatestPackets(source, lost) ==
    /\ reply.is = "composing"
    /\ source \in DOMAIN compose.busy /\ compose.busy[source] = "ask"
    /\ Packets(source) /\ Wanted(compose, source)
    /\ compose' = [compose EXCEPT !.busy[source] = "done",
                                  !.outcome[source] = IF lost = {} THEN "answer" ELSE "refused"]
    /\ reply' = IF source = "packets"
                THEN [reply EXCEPT !.headers = holds.packets \ lost, !.warned = lost]
                ELSE [reply EXCEPT !.expanded = holds.packets \ lost,
                                   !.status["expanded_packets"] =
                                       @ \o [i \in 1..Cardinality(lost) |-> "partial"]]
    /\ UNCHANGED holds

(* A source with no backend, or one this call does not ask.                *)
unconfigured(source) ==
    /\ reply.is = "composing"
    /\ source \in DOMAIN compose.busy /\ compose.busy[source] = "ask"
    /\ ~(Backend(source) \in compose.configured /\ Wanted(compose, source))
    /\ compose' = [compose EXCEPT !.busy[source] = "done"]
    /\ reply' = IF Wanted(compose, source) /\ source # "project"
                THEN [reply EXCEPT !.status[source] = Append(@, "unavailable")]
                ELSE reply
    /\ UNCHANGED holds

(* A required source that failed ends the call: with a failure the caller  *)
(* may retry, or with an error; so does a body of the review context that  *)
(* does not parse.                                                         *)
Ends(source) ==
    \/ source \in Required(compose.op) /\ compose.outcome[source] # "answer"
    \/ compose.op = "get_review_context" /\ compose.outcome[source] = "garbled"

failClosed(source) ==
    /\ reply.is = "composing"
    /\ source \in DOMAIN compose.busy /\ compose.busy[source] = "read" /\ Ends(source)
    /\ reply' = [reply EXCEPT !.is = IF compose.outcome[source] = "unreachable"
                                     THEN "unavailable" ELSE "error"]
    /\ UNCHANGED <<holds, compose>>

Truncated(n) == n > ItemLimit

(* The section is stored, cut to its limit, under the mutex.  The workflow *)
(* brings its packets with it when there is a messages backend; expanded   *)
(* findings and the guidance of the review context are cut later.          *)
storeSection(source, lost) ==
    /\ reply.is = "composing"
    /\ source \in DOMAIN compose.busy /\ compose.busy[source] = "read" /\ ~Ends(source)
    /\ compose.outcome[source] = "answer"
    /\ lost # {} => source = "workflow" /\ "messages" \in compose.configured
    /\ LET n == Composed(source)
           whole == compose.op # "get_task_context" /\ source # "review"
       IN  reply' = [reply EXCEPT
              !.section[source] = IF whole THEN n ELSE AtMost(n, ItemLimit),
              !.cut = IF ~whole /\ Truncated(n) THEN @ \union {source} ELSE @,
              !.headers = IF source = "workflow" /\ "messages" \in compose.configured
                          THEN holds.packets \ lost ELSE @,
              !.warned = IF source = "workflow" THEN lost ELSE @,
              !.is = IF source = "review" /\ ~holds.round THEN "no_current_round" ELSE @]
    /\ compose' = [compose EXCEPT !.busy[source] = "stored"]
    /\ UNCHANGED holds

(* addStatus: the last thing each source does.                             *)
addStatus(source) ==
    /\ reply.is = "composing"
    /\ source \in DOMAIN compose.busy
    /\ \/ compose.busy[source] = "stored"
       \/ compose.busy[source] = "read" /\ ~Ends(source) /\ compose.outcome[source] # "answer"
    /\ LET absent == source = "review_findings" /\ compose.outcome[source] = "notfound"
           expanded == source = "review_findings" /\ compose.outcome[source] = "answer"
           state == IF source = "guidance" /\ holds.incomplete
                       /\ compose.outcome[source] = "answer"
                    THEN "partial" ELSE taskContextStatus(compose.outcome[source])
       IN  reply' = IF absent \/ expanded THEN reply
                    ELSE [reply EXCEPT !.status[source] = Append(@, state)]
    /\ compose' = [compose EXCEPT !.busy[source] = "done"]
    /\ UNCHANGED holds

(* wg.Wait, or the next source of a call that asks one after another.      *)
nextStage ==
    /\ reply.is = "composing"
    /\ compose.busy # <<>> /\ \A s \in DOMAIN compose.busy : compose.busy[s] = "done"
    /\ compose.stage < Len(Stages(compose.op))
    /\ compose' = [compose EXCEPT !.stage = @ + 1,
                      !.busy = [s \in Stages(compose.op)[compose.stage + 1] |-> "ask"]]
    /\ UNCHANGED <<holds, reply>>

-----------------------------------------------------------------------------
(* The review context must fit its budget: the guidance handles and the    *)
(* packets' metadata go first, then the findings are shortened; expanded   *)
(* content is never shortened.                                             *)
Weight(r, metadata, finding) ==
    r.section["guidance"] + r.section["review_findings"] + Cardinality(r.expanded)
        + metadata * Cardinality(r.headers) + finding * r.section["review"]

Budget == IF compose.verbose THEN DetailBudget ELSE ByteBudget

boundReviewContext(r) ==
    LET dropped == [r EXCEPT !.bounded = TRUE, !.section["guidance"] = 0,
                             !.cut = (IF r.section["guidance"] > 0
                                      THEN @ \union {"guidance"} ELSE @)
                                     \union {"packets"}]
    IN  IF Weight(r, 1, 2) <= Budget THEN [r EXCEPT !.is = "ok"]
        ELSE IF \/ expands(compose, "packets")
                \/ expands(compose, "findings") /\ compose.outcome["review_findings"] = "answer"
                \/ expands(compose, "guidance") /\ compose.outcome["guidance"] = "answer"
        THEN [r EXCEPT !.is = "too_large"]
        ELSE IF Weight(dropped, 0, 1) <= Budget THEN [dropped EXCEPT !.is = "ok"]
        ELSE [r EXCEPT !.is = "too_large"]

(* The answer: the guidance of a review context is cut to its limit and    *)
(* the whole bounded; the others are encoded as they are.                  *)
buildReply ==
    /\ reply.is = "composing"
    /\ compose.busy # <<>> /\ \A s \in DOMAIN compose.busy : compose.busy[s] = "done"
    /\ compose.stage = Len(Stages(compose.op))
    /\ reply' = IF compose.op = "get_review_context"
                THEN LET n == reply.section["guidance"]
                     IN  boundReviewContext(
                            [reply EXCEPT !.section["guidance"] = AtMost(n, ItemLimit),
                                          !.cut = IF Truncated(n) THEN @ \union {"guidance"}
                                                  ELSE @])
                ELSE [reply EXCEPT !.is = "ok"]
    /\ UNCHANGED <<holds, compose>>

ComposeNext ==
    \/ \E op \in ComposedReads, verbose, agent \in BOOLEAN,
          section \in {"", "findings", "packets", "guidance"} :
            composeCall(op, verbose, section, agent)
    \/ \E s \in DOMAIN compose.busy :
        \/ \E o \in RequestOutcomes(compose.op) : taskContextDo(s, o)
        \/ \E lost \in SUBSET PacketKeys :
              taskWorkflowLatestPackets(s, lost) \/ storeSection(s, lost)
        \/ unconfigured(s) \/ failClosed(s) \/ addStatus(s)
    \/ nextStage \/ buildReply

ComposeSpec == ComposeInit /\ [][ComposeNext]_composeVars

-----------------------------------------------------------------------------
(* An answer never shows more of a source than it holds. *)
ComposeTypeOK ==
    /\ reply.is \in {"none", "composing", "ok", "error", "unavailable",
                     "no_current_round", "too_large"}
    /\ \A s \in DOMAIN reply.section : reply.section[s] <= holds.entries[s]

(* Nothing is left out without a trace.  In an answer, every entry or      *)
(* packet a source holds is shown, or the answer says of that source that  *)
(* it failed, was cut or was not configured; a source is not accused of    *)
(* what it did not do; each of the sources asked at the same time reports  *)
(* exactly once; and every required source answered.                       *)
(* (mcp/internal/backend/task_context_compose.go addStatus, wg.Wait;       *)
(* review_context_compose.go boundReviewContext)                           *)
ContextIsHonest ==
    /\ ComposeTypeOK
    /\ reply.is = "ok" =>
           LET asked == {s \in Asked(compose.op) : Wanted(compose, s)}
               failed(s) == compose.outcome[s] \notin {"answer", "notfound"}
               told(s) == s \in reply.cut
                          \/ \E i \in DOMAIN reply.status[s] : reply.status[s][i] # "ok"
               packetsTold == reply.warned
           IN  /\ \A s \in Required(compose.op) \intersect asked :
                     compose.outcome[s] = "answer"
               /\ \A s \in asked : ~Packets(s) =>
                     /\ reply.section[s] < Composed(s) =>
                           told(s) \/ (s = "project" /\ "projects" \notin compose.configured)
                     /\ told(s) => \/ reply.section[s] < Composed(s)
                                   \/ failed(s) \/ Backend(s) \notin compose.configured
                                   \/ s = "guidance" /\ holds.incomplete
                                   \/ compose.outcome[s] = "notfound"
               /\ "messages" \in compose.configured /\ asked \intersect {"packets"} # {} =>
                     holds.packets \subseteq reply.headers \union packetsTold
               /\ "expanded_packets" \in asked /\ reply.status["expanded_packets"] = <<>> =>
                     reply.expanded = holds.packets
               /\ compose.op = "get_task_context" =>
                     /\ \A s \in Stages(compose.op)[2] : Len(reply.status[s]) = 1
                     /\ "workflow" \in DOMAIN reply.status =>
                           \/ holds.packets \subseteq reply.headers \union packetsTold
                           \/ told("workflow") \/ told("task_thread")
               /\ compose.op = "get_review_context" =>
                     Weight(reply, IF reply.bounded THEN 0 ELSE 1,
                            IF reply.bounded THEN 1 ELSE 2) <= Budget
=============================================================================
