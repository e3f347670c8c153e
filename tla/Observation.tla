----------------------------- MODULE Observation -----------------------------
(***************************************************************************)
(* The observation service (src/observation): it appends lifecycle events   *)
(* of its own and shows them next to rows of the delivery, runtime and      *)
(* conversation services.  Every view is put together from several          *)
(* statements, and the rows change between them: intents finish, heartbeats *)
(* move an instance forward, events arrive.                                 *)
(*                                                                         *)
(* The reader stands for one request.  `held` keeps the rows that were      *)
(* there from its first statement to its last: what such a view owes its    *)
(* caller is stated about them.                                             *)
(***************************************************************************)
EXTENDS Naturals, Sequences, FiniteSets, FiniteSetsExt

CONSTANTS
    Members,          \* profiles and instances rows are about
    Assignments,     \* the assignments a trace is asked for
    EmitRequests,    \* lifecycle events posted: [type, fields, flaws]
    RowLimits,       \* limits asked for
    MaxRowLimit,     \* configuration: the largest limit served
    DefaultRowLimit, \* configuration: the limit when none is given
    ChatSources,     \* configurations checked: chat from the "store", or from the "legacy" service
    Channels,        \* channels of the legacy service
    MaxTurns,        \* bound: times run from 1 to MaxTurns
    MaxPerSource     \* bound: rows each source ever holds

ASSUME ObservationAssumption ==
    /\ MaxTurns \in Nat \ {0} /\ MaxPerSource \in Nat
    /\ MaxRowLimit \in Nat \ {0} /\ DefaultRowLimit \in 1 .. MaxRowLimit
    /\ ChatSources \subseteq {"store", "legacy"}

VARIABLES
    turn,     \* the clock
    rows,     \* the rows the four sources hold
    drawn,    \* how many rows each source has drawn so far
    reader,   \* the request: operation, statements left, what it has read
    held,     \* rows there since the request began
    view      \* the last answer

observationVars == <<turn, rows, drawn, reader, held, view>>

\* The order in which collectLaneEvents reads, and so the order among equals.
LaneSources == <<"activity", "delivery", "runtime", "chat">>
LaneRank(source) == CHOOSE k \in DOMAIN LaneSources : LaneSources[k] = source
NoAgent == "nobody"
NoWork == "no assignment"

Of(source) == { r \in rows : r.source = source }
About(agent, source) == { r \in Of(source) : r.agent = agent }
OnAssignment(a, source) == { r \in Of(source) : r.assignment = a }

\* The ways to keep the `limit` newest of a set: rows of one instant come in
\* any order.
NewestOf(S, limit) ==
    { T \in kSubset(IF Cardinality(S) <= limit THEN Cardinality(S) ELSE limit, S) :
        \A x \in T, y \in S \ T : x.at >= y.at }

-----------------------------------------------------------------------------
(* Lifecycle events (dto.go, types.go) *)

\* The payload fields an event type must carry.
RequiredFields(type) ==
    CASE type \in {"agent_session_started", "agent_session_resumed", "agent_session_idle",
                   "agent_session_stopped", "model_turn_started", "model_turn_completed"}
            -> {"session_key"}
      [] type \in {"agent_session_blocked", "agent_session_failed"} -> {"session_key", "reason_code"}
      [] type \in {"work_started", "work_checkpoint"} -> {"work_ref"}
      [] type \in {"work_waiting", "work_failed"} -> {"work_ref", "reason_code"}
      [] type = "work_completed" -> {"work_ref", "result_ref"}
      [] type = "tool_call_started" -> {"tool_name"}
      [] type = "tool_call_completed" -> {"tool_name", "result_ref"}
      [] type = "tool_call_failed" -> {"tool_name", "reason_code"}
      [] type \in {"adapter_disconnected", "adapter_degraded"} -> {"reason_code"}
      [] OTHER -> {}

\* What is wrong with a request as such, and with the envelope of its payload.
RequestFlaws == {"source_domain", "event_type", "agent_identity", "runtime_instance_id", "payload"}
EnvelopeFlaws == {"kind", "schema_version", "summary", "severity", "visibility", "adapter", "surface"}

\* A reference counts as carried when one of its members is set.
Carries(req, field) == field \in req.fields

\* CreateLifecycleEventRequest.Validate and validateAgentActivityPayload.
ValidEvent(req) ==
    /\ req.flaws \cap (RequestFlaws \cup EnvelopeFlaws) = {}
    /\ \A field \in RequiredFields(req.type) : Carries(req, field)

\* A row as the views show it.
Row(source, agent, assignment, channel, display) ==
    [source |-> source, id |-> drawn[source] + 1, at |-> turn, agent |-> agent,
     assignment |-> assignment, channel |-> channel, display |-> display]

\* The assignment a trace finds an event by is in its work reference.
WorkOf(req, assignment) == IF Carries(req, "work_ref") THEN assignment ELSE NoWork
NewActivityEvent(req, agent, assignment) ==
    Row("activity", agent, WorkOf(req, assignment), 0, TRUE)

Put(row) ==
    /\ drawn[row.source] < MaxPerSource
    /\ drawn' = [drawn EXCEPT ![row.source] = @ + 1]
    /\ rows' = rows \cup {row}
    /\ UNCHANGED <<turn, reader, held, view>>

AppendLifecycleEvent(req, agent, assignment) ==
    /\ ValidEvent(req)
    /\ Put(NewActivityEvent(req, agent, assignment))

-----------------------------------------------------------------------------
(* The rows of other services *)

IntentAppears(agent) == Put(Row("delivery", agent, NoWork, 0, TRUE))
InstanceRegisters(agent) == Put(Row("runtime", agent, NoWork, 0, TRUE))
MessageArrives(assignment, channel, display) ==
    Put(Row("chat", NoAgent, assignment, channel, display))

\* An intent leaves active_intents, or a message is deleted.
RowLeaves(r) ==
    /\ r \in rows /\ r.source \in {"delivery", "chat"}
    /\ rows' = rows \ {r}
    /\ held' = held \ {r}
    /\ UNCHANGED <<turn, drawn, reader, view>>

\* A heartbeat moves the time an instance is listed under.
Heartbeat(r) ==
    /\ r \in rows /\ r.source = "runtime" /\ r.at < turn
    /\ rows' = (rows \ {r}) \cup {[r EXCEPT !.at = turn]}
    /\ held' = held \ {r}
    /\ UNCHANGED <<turn, drawn, reader, view>>

TurnPasses ==
    /\ turn < MaxTurns
    /\ turn' = turn + 1
    /\ UNCHANGED <<rows, drawn, reader, held, view>>

-----------------------------------------------------------------------------
(* Requests *)

NoReader == [op |-> "none", left |-> << >>, limit |-> 1, about |-> NoAgent, got |-> {}, listed |-> {},
         chat |-> "store"]
NoView == [op |-> "none", status |-> "none", rows |-> {}, limit |-> 1, about |-> NoAgent,
           chat |-> "store"]

\* parseLimit: 0 stands for a limit that is not given.
ParsedLimit(raw) == IF raw = 0 THEN DefaultRowLimit ELSE raw

Request(op, raw, about, statements) ==
    /\ reader = NoReader
    /\ raw \in 0 .. MaxRowLimit
    /\ reader' = [NoReader EXCEPT !.op = op, !.left = statements, !.limit = ParsedLimit(raw),
                              !.about = about]
    /\ held' = rows
    /\ view' = NoView
    /\ UNCHANGED <<turn, rows, drawn>>

Lane(raw) ==
    /\ reader = NoReader
    /\ raw \in 0 .. MaxRowLimit
    /\ \E chat \in ChatSources :
          reader' = [NoReader EXCEPT !.op = "lane", !.left = LaneSources,
                                 !.limit = ParsedLimit(raw), !.chat = chat]
    /\ held' = rows
    /\ view' = NoView
    /\ UNCHANGED <<turn, rows, drawn>>
AgentsOverview(raw) == Request("agents", raw, NoAgent, <<"ids">>)
AgentOverview(agent) == Request("agent", 0, agent, <<"runtime", "delivery", "activity">>)
AssignmentTrace(a, raw) == Request("trace", raw, a, <<"chat", "activity">>)
ActivityHistory(agent, raw) == Request("history", raw, agent, <<"activity">>)

\* The chat rows: those of the conversation store, or what the legacy service
\* answers, the last `limit` messages of each of `limit` channels, the ones not
\* meant for display dropped, and cut once more.
Displayed(S) == { r \in S : r.display }
LastOf(c, limit) ==
    LET later(r) == { s \in Of("chat") : s.channel = c /\ s.id > r.id }
    IN  { r \in Of("chat") : r.channel = c /\ Cardinality(later(r)) < limit }
LegacyPages(limit) ==
    LET asked == { C \in SUBSET Channels : Cardinality(C) <= limit }
    IN  UNION { NewestOf(Displayed(UNION { LastOf(c, limit) : c \in C }), limit) : C \in asked }
ChatEvents(limit) ==
    IF reader.chat = "legacy" THEN LegacyPages(limit) ELSE NewestOf(Of("chat"), limit)

\* What one statement of the request may return.
Statement(source) ==
    CASE reader.op = "lane" /\ source = "chat" -> ChatEvents(reader.limit)
      [] reader.op = "lane" /\ source # "chat" -> NewestOf(Of(source), reader.limit)
      [] reader.op \in {"agent", "agents"} /\ source = "activity" ->
            NewestOf(About(reader.about, source), DefaultRowLimit)
      [] reader.op \in {"agent", "agents"} /\ source # "activity" ->
            {About(reader.about, source)}
      [] reader.op = "trace" /\ source = "chat" ->
            { T \in kSubset(Min({reader.limit, Cardinality(OnAssignment(reader.about, source))}),
                            OnAssignment(reader.about, source)) :
                \A x \in T, y \in OnAssignment(reader.about, source) \ T : x.at <= y.at }
      [] reader.op = "trace" /\ source = "activity" ->
            NewestOf(OnAssignment(reader.about, source), reader.limit)
      [] reader.op = "history" ->
            NewestOf(IF reader.about = NoAgent THEN Of(source) ELSE About(reader.about, source),
                     reader.limit)
      [] OTHER -> {}

ReadRows ==
    /\ reader.left # << >> /\ Head(reader.left) # "ids"
    /\ \E result \in Statement(Head(reader.left)) :
          reader' = [reader EXCEPT !.left = Tail(@), !.got = @ \cup result]
    /\ UNCHANGED <<turn, rows, drawn, held, view>>

\* ListAgentIDs: the agents whose newest row is newest, at most `limit`; rows
\* of the conversation name no agent.
SeenAt(a) == Max({ r.at : r \in { s \in rows : s.agent = a } })
ListAgentIDs ==
    LET known == { a \in Members : \E r \in rows : r.agent = a }
    IN  /\ reader.op = "agents" /\ reader.left = <<"ids">>
        /\ \E ids \in kSubset(Min({reader.limit, Cardinality(known)}), known) :
              /\ \A a \in ids, b \in known \ ids : SeenAt(a) >= SeenAt(b)
              /\ reader' = [reader EXCEPT !.left = << >>, !.listed = ids]
        /\ UNCHANGED <<turn, rows, drawn, held, view>>

AnswerView(status, found) ==
    /\ view' = [op |-> reader.op, status |-> status, rows |-> found, limit |-> reader.limit,
                about |-> reader.about, chat |-> reader.chat]
    /\ reader' = NoReader
    /\ UNCHANGED <<turn, rows, drawn, held>>

\* Mutant of LaneCuts: the lane is cut in the order the sources were read.
LaneUnsorted ==
    { T \in kSubset(Min({reader.limit, Cardinality(reader.got)}), reader.got) :
        \A x \in T, y \in reader.got \ T : LaneRank(x.source) <= LaneRank(y.source) }

\* A lane is the newest rows of what the four statements returned; the sort is
\* stable, so a tie goes to the source that was read first.
LaneCuts ==
    { T \in NewestOf(reader.got, reader.limit) :
        \A x \in T, y \in reader.got \ T :
            x.at = y.at => LaneRank(x.source) <= LaneRank(y.source) }

AnswerLane ==
    /\ reader.op = "lane" /\ reader.left = << >>
    /\ \E cut \in LaneCuts : AnswerView("ok", cut)

\* An agent none of whose rows were found is not known; asked for all agents,
\* one that is not found fails the whole answer.
AnswerAgent ==
    /\ reader.op = "agent" /\ reader.left = << >>
    /\ AnswerView(IF reader.got = {} THEN "not_found" ELSE "ok", reader.got)
ReadNextAgent ==
    /\ reader.op = "agents" /\ reader.left = << >> /\ reader.about = NoAgent
    /\ \E a \in reader.listed :
          /\ ~\E r \in reader.got : r.agent = a
          /\ reader' = [reader EXCEPT !.left = <<"runtime", "delivery", "activity">>, !.about = a]
    /\ UNCHANGED <<turn, rows, drawn, held, view>>
NextAgentRead ==
    /\ reader.op = "agents" /\ reader.left = << >> /\ reader.about # NoAgent
    /\ IF \E r \in reader.got : r.agent = reader.about
       THEN /\ reader' = [reader EXCEPT !.about = NoAgent]
            /\ UNCHANGED <<turn, rows, drawn, held, view>>
       ELSE AnswerView("not_found", {})
AnswerAgents ==
    /\ reader.op = "agents" /\ reader.left = << >> /\ reader.about = NoAgent
    /\ \A a \in reader.listed : \E r \in reader.got : r.agent = a
    /\ AnswerView("ok", reader.got)

AnswerTrace ==
    /\ reader.op \in {"trace", "history"} /\ reader.left = << >>
    /\ AnswerView("ok", reader.got)

\* A statement, or the legacy service, fails: so does the request.
ReadFails ==
    /\ reader.left # << >>
    /\ AnswerView("failed", {})

(* What a view owes its caller is still there when it answers. *)
ObservationTypeOK ==
    /\ turn \in 1 .. MaxTurns
    /\ held \subseteq rows \/ reader = NoReader
    /\ view.status \in {"none", "ok", "not_found", "failed"}

ObservationInit ==
    /\ turn = 1 /\ rows = {} /\ held = {}
    /\ drawn = [source \in {"activity", "delivery", "runtime", "chat"} |-> 0]
    /\ reader = NoReader /\ view = NoView

ObservationNext ==
    \/ \E req \in EmitRequests, agent \in Members, a \in Assignments :
          AppendLifecycleEvent(req, agent, a)
    \/ \E agent \in Members : IntentAppears(agent) \/ InstanceRegisters(agent)
    \/ \E a \in Assignments, c \in Channels, display \in BOOLEAN : MessageArrives(a, c, display)
    \/ \E r \in rows : RowLeaves(r) \/ Heartbeat(r)
    \/ TurnPasses
    \/ \E raw \in RowLimits : Lane(raw) \/ AgentsOverview(raw)
    \/ \E agent \in Members : AgentOverview(agent)
    \/ \E a \in Assignments, raw \in RowLimits : AssignmentTrace(a, raw)
    \/ \E agent \in Members \cup {NoAgent}, raw \in RowLimits : ActivityHistory(agent, raw)
    \/ ReadRows \/ ListAgentIDs \/ ReadNextAgent \/ NextAgentRead
    \/ AnswerLane \/ AnswerAgent \/ AnswerAgents \/ AnswerTrace \/ ReadFails

ObservationSpec == ObservationInit /\ [][ObservationNext]_observationVars

-----------------------------------------------------------------------------
\* A row that was there for as long as a lane was being read is missing from it
\* only if the lane is full of rows at least as new; chat read from the legacy
\* service is exempt, which filters after it has cut.
LaneMissesNothing ==
    view.op = "lane" /\ view.status = "ok" =>
        \A r \in (held \cap rows) \ view.rows :
            \/ view.chat = "legacy" /\ r.source = "chat"
            \/ Cardinality(view.rows) = view.limit /\ \A s \in view.rows : s.at >= r.at

\* "Not found" is only said of an agent that had no row throughout the request:
\* one with a row that stayed is never reported missing, neither alone nor in
\* the overview of all agents.
MissingHadNothing ==
    view.status = "not_found" =>
        ~\E r \in held \cap rows : r.agent = view.about /\ r.source # "chat"

\* What a view put together from several statements owes its caller, whatever
\* happens to the rows between them.  Behaviour of Lane, AgentOverview and
\* AgentsOverview (src/observation/internal/service.go).
ViewsMissNothing == ObservationTypeOK /\ LaneMissesNothing /\ MissingHadNothing
=============================================================================
