------------------------------ MODULE McpServer ------------------------------
(***************************************************************************)
(* The MCP facade (mcp/internal/server, mcp/internal/backend): a JSON-RPC  *)
(* payload of one or more requests is handled request by request; a        *)
(* tools/call is resolved in the registry, given its task's project where  *)
(* the tool derives it, turned into one backend request by the adapter of  *)
(* its route and answered with what the backend said.  The old server      *)
(* (den-core) wants a session: a call it refuses for lack of one is sent   *)
(* again once, after a session was opened.                                 *)
(*                                                                         *)
(* Between the facade and a backend a request or an answer may be lost or  *)
(* late, either side may restart, and callers interleave.                  *)
(***************************************************************************)
EXTENDS McpCatalog, Sequences

CONSTANTS Callers,       \* concurrent clients
          Catalog,       \* the tools each client calls
          CoreTools,     \* tools a route table sends to den-core
          Offered,       \* arguments each client may add to a schema's own
          MaxBatch,      \* requests in one payload of each client
          MaxPayloads,   \* payloads per client
          MaxRestarts,   \* restarts of den-core and of the facade
          ReferenceTTL, MaxClock

ASSUME McpAssumption ==
    /\ DOMAIN Catalog = Callers /\ DOMAIN Offered = Callers
    /\ CoreTools \subseteq DOMAIN DefaultTools
    /\ MaxBatch \in [Callers -> Nat] /\ MaxPayloads \in Nat /\ MaxRestarts \in Nat
    /\ ReferenceTTL \in Nat /\ MaxClock \in Nat

VARIABLES caller,    \* what the handler does for each client
          ran,       \* per request: how often a backend carried it out
          session,   \* Client.sessions of den-core; 0 = none
          live,      \* the sessions den-core knows
          opened,    \* sessions opened so far
          refs,      \* detail references handed out
          boot,      \* facade restarts: each draws a new signing key
          marked,    \* adapters whose backend is marked unavailable
          restarts, clock

mcpVars == <<caller, ran, session, live, opened, refs, boot, marked, restarts, clock>>

-----------------------------------------------------------------------------

Idle == [phase |-> "idle", todo |-> <<>>, sent |-> 0, of |-> <<>>,
         op |-> "none", args |-> {}, held |-> 0, again |-> FALSE,
         answers |-> <<>>, detail |-> FALSE]

McpInit ==
    /\ caller = [c \in Callers |-> Idle]
    /\ ran = [c \in Callers |-> <<>>]
    /\ session = 0 /\ live = {} /\ opened = 0
    /\ refs = {} /\ boot = 0 /\ marked = {} /\ restarts = 0 /\ clock = 0

(* What a client may send: a tool with the arguments its schema requires,  *)
(* or fewer, and what the client offers besides; with or without an id.    *)
ClientRequests(c) ==
    UNION {{[tool |-> t, args |-> a, id |-> i] :
                a \in SUBSET (DefaultTools[t] \union Offered[c]), i \in BOOLEAN} :
           t \in Catalog[c]}

(* ServeHTTP, handlePayload: a payload of requests arrives; an empty one   *)
(* is answered by itself and changes nothing.                              *)
handlePayload(c) ==
    /\ caller[c].phase = "idle"
    /\ caller[c].sent < MaxPayloads
    /\ \E n \in 1..MaxBatch[c] : \E payload \in [1..n -> ClientRequests(c)] :
        /\ caller' = [caller EXCEPT
              ![c] = [Idle EXCEPT !.phase = "next", !.todo = payload, !.of = payload,
                                  !.sent = caller[c].sent + 1]]
        /\ ran' = [ran EXCEPT ![c] = [i \in 1..n |-> 0]]
    /\ UNCHANGED <<session, live, opened, refs, boot, marked, restarts, clock>>

(* The request being handled, and its answer.                              *)
CallAt(c) == Len(caller[c].of) - Len(caller[c].todo) + 1
Current(c) == caller[c].of[CallAt(c)]

AnswerGiven(k, i, what) ==
    [k EXCEPT !.phase = "next", !.todo = Tail(@), !.held = 0, !.again = FALSE,
              !.op = "none", !.args = {}, !.detail = FALSE,
              !.answers = IF k.of[i].id THEN Append(@, [to |-> i, is |-> what]) ELSE @]

answered(c, what) == caller' = [caller EXCEPT ![c] = AnswerGiven(@, CallAt(c), what)]

adapter(op) ==
    IF op \in CoreTools THEN "den-core"
    ELSE CHOOSE a \in DOMAIN supportedAdapterPair : op \in DOMAIN supportedAdapterPair[a]

Routed(op) ==
    op \in CoreTools \/ \E a \in DOMAIN supportedAdapterPair :
                            op \in DOMAIN supportedAdapterPair[a]

markState(op, unavailable) ==
    marked' = IF unavailable THEN marked \union {adapter(op)}
              ELSE marked \ {adapter(op)}

(* A reference is good for the key it was signed with, for a while, and    *)
(* only for the reads on the allow list.                                   *)
resolveDetailReference(r) ==
    /\ r.boot = boot
    /\ clock - r.at <= ReferenceTTL
    /\ r.tool \in DOMAIN DetailArgumentAllowed
    /\ r.args \subseteq DetailArgumentAllowed[r.tool]

(* getDetails, with a reference a client was given.                        *)
getDetails(c, r) ==
    /\ caller[c].phase = "next" /\ caller[c].todo # <<>>
    /\ Current(c).id /\ Current(c).tool = "get_details"
    /\ "detail_ref" \in Current(c).args
    /\ IF resolveDetailReference(r) /\ Routed(r.tool)
       THEN caller' = [caller EXCEPT ![c].phase = "scope", ![c].op = r.tool,
                                     ![c].args = r.args, ![c].detail = TRUE]
       ELSE answered(c, "refused")
    /\ UNCHANGED <<ran, session, live, opened, refs, boot, marked, restarts, clock>>

(* handleBody, handleRequest, toolsCall up to the locator: a notification  *)
(* runs nothing, and a retired or unknown tool is answered here.           *)
toolsCall(c) ==
    /\ caller[c].phase = "next" /\ caller[c].todo # <<>>
    /\ LET q == Current(c)
       IN  IF ~q.id THEN answered(c, "none")
           ELSE IF q.tool \notin DOMAIN DefaultTools THEN answered(c, "refused")
           ELSE IF q.tool = "get_details"
                THEN /\ "detail_ref" \notin q.args
                     /\ answered(c, "refused")
           ELSE IF q.tool \in retiredToolPolicies THEN answered(c, "retired")
           ELSE IF ~Routed(q.tool) THEN answered(c, "refused")
           ELSE caller' = [caller EXCEPT ![c].phase = "scope", ![c].op = q.tool,
                                         ![c].args = q.args]
    /\ UNCHANGED <<ran, session, live, opened, refs, boot, marked, restarts, clock>>

(* withCanonicalTaskProject, withOptionalTaskProject: whether the project  *)
(* must be read from the task, and whether the arguments forbid it.        *)
Derives(op, args) ==
    \/ op \in TaskDerivesProject
    \/ op \in TaskOptionalProject /\ "project_id" \notin args /\ "task_id" \in args

ScopeRefused(op, args) ==
    /\ op \in TaskDerivesProject
    /\ \/ "project_id" \in args /\ op # "submit_task_for_review"
       \/ "task_id" \notin args

(* The read of the task: it answers with its project; it fails, or the     *)
(* project a submission states is another one; or the backend is not       *)
(* reached.  A failure here is answered before any backend is marked.      *)
withTaskProject(c, outcome) ==
    /\ caller[c].phase = "scope"
    /\ LET k == caller[c]
       IN  CASE ScopeRefused(k.op, k.args) ->
                  outcome = "found" /\ answered(c, "refused")
             [] ~ScopeRefused(k.op, k.args) /\ ~Derives(k.op, k.args) ->
                  outcome = "found"
                  /\ caller' = [caller EXCEPT ![c].phase = "build"]
             [] OTHER ->
                  IF outcome = "found"
                  THEN caller' = [caller EXCEPT ![c].phase = "build",
                                                ![c].args = @ \union {"project_id"}]
                  ELSE answered(c, outcome)
    /\ UNCHANGED <<ran, session, live, opened, refs, boot, marked, restarts, clock>>

(* The adapter's request builder: decode, body, path.  A call to den-core  *)
(* carries the arguments as they are, and the session held.                *)
buildRequest(c) ==
    /\ caller[c].phase = "build"
    /\ LET k == caller[c]  a == adapter(k.op)
       IN  IF a # "den-core" /\ ~(supportedAdapterPair[a][k.op] \subseteq k.args)
           THEN answered(c, "refused")
           ELSE caller' = [caller EXCEPT ![c].phase = "sent",
                                         ![c].held = IF a = "den-core" THEN session ELSE 0]
    /\ UNCHANGED <<ran, session, live, opened, refs, boot, marked, restarts, clock>>

-----------------------------------------------------------------------------
(* The backends, as the facade meets them.                                 *)

Admits(c) == adapter(caller[c].op) = "den-core" => caller[c].held \in live

(* The backend carries a request out.                                      *)
BackendRuns(c) ==
    /\ caller[c].phase = "sent" /\ Admits(c)
    /\ caller' = [caller EXCEPT ![c].phase = "ran"]
    /\ ran' = [ran EXCEPT ![c][CallAt(c)] = @ + 1]
    /\ UNCHANGED <<session, live, opened, refs, boot, marked, restarts, clock>>

(* A success is answered, with a detail reference where the tool has one.  *)
attachDetailReference(c) ==
    LET k == caller[c]
    IN  IF k.op \in DOMAIN DetailArgumentAllowed /\ ~k.detail
        THEN Current(c).args \subseteq DetailArgumentAllowed[k.op]
        ELSE TRUE

Succeeds(c) ==
    /\ caller[c].phase = "ran"
    /\ answered(c, IF attachDetailReference(c) THEN "success" ELSE "unread")
    /\ refs' = IF caller[c].op \in DOMAIN DetailArgumentAllowed /\ ~caller[c].detail
                  /\ attachDetailReference(c)
               THEN refs \union {[tool |-> caller[c].op, args |-> Current(c).args,
                                  boot |-> boot, at |-> clock]}
               ELSE refs
    /\ markState(caller[c].op, FALSE)
    /\ UNCHANGED <<ran, session, live, opened, boot, restarts, clock>>

(* statusFailure: the backend turned the request down (400, 401, 403, 404, *)
(* 409) without carrying it out.                                           *)
TurnedDown(c) ==
    /\ caller[c].phase = "sent" /\ Admits(c)
    /\ answered(c, "failed")
    /\ UNCHANGED <<ran, session, live, opened, refs, boot, marked, restarts, clock>>

(* backendFailure and the retryable statuses: the facade hears nothing in  *)
(* time, or a 502, 503 or 504, whether or not the request was carried out. *)
Unavailable(c) ==
    /\ caller[c].phase \in {"sent", "ran"}
    /\ answered(c, "unavailable")
    /\ markState(caller[c].op, TRUE)
    /\ UNCHANGED <<ran, session, live, opened, refs, boot, restarts, clock>>

(* MUTANT: any failure of den-core is taken for a missing session, one    *)
(* that hides an answer lost on the way included.                          *)
anyFailureWantsSession(c) ==
    caller[c].phase \in {"sent", "ran"}

(* sessionRequiredFailure: which failures of den-core lead to a session    *)
(* and a second attempt.                                                   *)
sessionRequiredFailure(c) ==
    /\ caller[c].phase = "sent"
    /\ ~Admits(c)

callMCPTool(c) ==
    /\ sessionRequiredFailure(c)
    /\ adapter(caller[c].op) = "den-core"
    /\ IF caller[c].again THEN answered(c, "failed")
       ELSE caller' = [caller EXCEPT ![c].phase = "initialize"]
    /\ UNCHANGED <<ran, session, live, opened, refs, boot, marked, restarts, clock>>

(* initializeSession, setSession, and the call sent again.                 *)
initializeSession(c) ==
    /\ caller[c].phase = "initialize"
    /\ opened' = opened + 1
    /\ live' = live \union {opened'}
    /\ session' = opened'
    /\ caller' = [caller EXCEPT ![c].phase = "sent", ![c].held = opened', ![c].again = TRUE]
    /\ UNCHANGED <<ran, refs, boot, marked, restarts, clock>>

initializeFails(c) ==
    /\ caller[c].phase = "initialize"
    /\ answered(c, "unavailable")
    /\ markState(caller[c].op, TRUE)
    /\ UNCHANGED <<ran, session, live, opened, refs, boot, restarts, clock>>

(* The payload is answered as a whole once every request was handled.      *)
writeRPCPayload(c) ==
    /\ caller[c].phase = "next" /\ caller[c].todo = <<>>
    /\ caller' = [caller EXCEPT ![c].phase = "idle"]
    /\ UNCHANGED <<ran, session, live, opened, refs, boot, marked, restarts, clock>>

CoreRestarts ==
    /\ restarts < MaxRestarts
    /\ restarts' = restarts + 1
    /\ live' = {}
    /\ UNCHANGED <<caller, ran, session, opened, refs, boot, marked, clock>>

(* The facade restarts: the calls it was handling end unanswered, its      *)
(* sessions and its signing key are new (NewClient, NewMCPHandler).        *)
NewMCPHandler ==
    /\ restarts < MaxRestarts
    /\ restarts' = restarts + 1
    /\ boot' = boot + 1
    /\ caller' = [c \in Callers |-> [Idle EXCEPT !.sent = caller[c].sent]]
    /\ ran' = [c \in Callers |-> <<>>]
    /\ session' = 0 /\ marked' = {}
    /\ UNCHANGED <<live, opened, refs, clock>>

McpTick ==
    /\ clock < MaxClock /\ clock' = clock + 1
    /\ UNCHANGED <<caller, ran, session, live, opened, refs, boot, marked, restarts>>

ServeHTTP(c) ==
    \/ handlePayload(c)
    \/ \E r \in refs : getDetails(c, r)
    \/ toolsCall(c)
    \/ \E o \in {"found", "failed", "unavailable"} : withTaskProject(c, o)
    \/ buildRequest(c)
    \/ BackendRuns(c) \/ Succeeds(c) \/ TurnedDown(c) \/ Unavailable(c)
    \/ callMCPTool(c) \/ initializeSession(c) \/ initializeFails(c)
    \/ writeRPCPayload(c)

McpNext ==
    \/ \E c \in Callers : ServeHTTP(c)
    \/ CoreRestarts \/ NewMCPHandler \/ McpTick

McpSpec == McpInit /\ [][McpNext]_mcpVars

-----------------------------------------------------------------------------
(* The payloads in progress, the sessions and the clock. *)
McpTypeOK ==
    /\ \A c \in Callers :
        /\ caller[c].phase \in {"idle", "next", "scope", "build", "sent", "ran", "initialize"}
        /\ Len(caller[c].answers) <= Len(caller[c].of)
    /\ live \subseteq 1..opened /\ session \in 0..opened
    /\ boot \in 0..MaxRestarts /\ clock \in 0..MaxClock

(* However calls, restarts, lost answers and renewed sessions interleave,  *)
(* a request is carried out at most once; one answered with success was    *)
(* carried out, one the facade or a backend turned down was not, and a     *)
(* notification never is; and a detail reference leads to reads only.      *)
(* (server/mcp.go toolsCall, backend/client.go callMCPTool)                *)
ToolCallsRunOnce ==
    /\ McpTypeOK
    /\ \A c \in Callers :
           /\ \A i \in DOMAIN ran[c] :
                 /\ ran[c][i] <= 1
                 /\ ~caller[c].of[i].id => ran[c][i] = 0
           /\ \A n \in DOMAIN caller[c].answers :
                 LET a == caller[c].answers[n]
                 IN  /\ a.is \in {"success", "unread"} => ran[c][a.to] = 1
                     /\ a.is \in {"refused", "retired", "failed"} => ran[c][a.to] = 0
                     /\ a.is = "unread" => caller[c].of[a.to].tool \in ReadOperations
           /\ caller[c].detail => caller[c].op \in ReadOperations

(* A call with the arguments its published schema asks for is never turned *)
(* down by the facade itself: its operation has a route, the adapter knows *)
(* it and can fill the route's path.  A tool that takes its project from a *)
(* task needs either, and one that derives it takes no other.              *)
(* (registry/default.go against the adapters of backend/ *_rest.go)        *)
SchemaCallsAreSent ==
    \A c \in Callers : \A n \in DOMAIN caller[c].answers :
        LET a == caller[c].answers[n]
            q == caller[c].of[a.to]
            complete ==
                /\ DefaultTools[q.tool] \subseteq q.args
                /\ q.tool \in TaskOptionalProject =>
                       q.args \intersect {"project_id", "task_id"} # {}
                /\ q.tool \in TaskDerivesProject \ {"submit_task_for_review"} =>
                       "project_id" \notin q.args
        IN  a.is = "refused" => (q.tool = "get_details" \/ ~complete)
=============================================================================
