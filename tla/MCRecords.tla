----------------------------- MODULE MCRecords ------------------------------
(* One of the services that keep records and check before they write: the    *)
(* tasks of MCTasks, the board, knowledge, documents or projects with a few  *)
(* calls; the MCP facade and the gateway in front of them; or what is listed *)
(* of them, an assignment's manifest or the timeline.  The .cfg file gives   *)
(* the sets.                                                                 *)
EXTENDS MCTasks, Board, Knowledge, Documents, Projects, McpServer, Gateway,
        AssignmentManifest, Timeline

VARIABLE part   \* the service a behaviour is about

recordVars ==
    <<taskVars, boardStoreVars, knowledgeVars, documentsVars, projectVars,
      mcpVars, gatewayVars, manifestVars, timelineVars>>

-----------------------------------------------------------------------------
\* One client may call every tool, the others two that change something.
MCCatalog ==
    [c \in Callers |->
        CASE c = "a" -> DOMAIN DefaultTools
          [] c = "b" -> {"mark_read", "get_task", "get_details"}
          [] OTHER -> {"mark_read"}]
MCOffered == [c \in Callers |-> IF c = "a" THEN {"project_id", "task_id"} ELSE {}]
MCBatch == [c \in Callers |-> IF c = "b" THEN 2 ELSE 1]

\* The first client tries every tool on its own; the others meet restarts.
SessionNext ==
    /\ \/ \E c \in {"b", "c"} : ServeHTTP(c)
       \/ CoreRestarts \/ NewMCPHandler \/ McpTick
    /\ \A c \in {"b", "c"} : \A i \in DOMAIN caller'[c].of :
          caller'[c].of[i].id /\ caller'[c].of[i].args = DefaultTools[caller'[c].of[i].tool]

-----------------------------------------------------------------------------
\* Two targets share an identity field; the entries repeat and overlap.
MCTarget ==
    [canonical |-> "target", required |-> TRUE, profile |-> <<"member", "agent">>,
     instance |-> <<"inst">>, session |-> <<"sess">>]
MCSource ==
    [canonical |-> "source", required |-> FALSE, profile |-> <<"by">>,
     instance |-> <<"inst">>, session |-> << >>]

RouteEntry(name, pattern, length, methods, successor, mode, targets, rewrite) ==
    [name |-> name, pattern |-> pattern, length |-> length, methods |-> methods,
     legacy |-> "legacy", successor |-> successor, mode |-> mode, targets |-> targets,
     rewrite |-> rewrite]

MCFiles ==
    {RouteEntry("root", << >>, 1, {}, "missing", "", << >>, << >>),
     RouteEntry("tasks", <<"tasks">>, 6, {"GET"}, "missing", "header", << >>, <<"v2", "tasks">>),
     RouteEntry("posts", <<"tasks">>, 6, {"POST"}, "new", "header", <<MCTarget, MCSource>>, << >>),
     RouteEntry("both", <<"tasks">>, 6, {"GET", "POST"}, "new", "always", << >>, << >>),
     RouteEntry("any", <<"tasks", "{}">>, 11, {}, "new", "always", <<MCSource>>, << >>),
     RouteEntry("open", <<"tasks", "open">>, 11, {"POST"}, "new", "always", <<MCTarget>>, << >>),
     RouteEntry("open", <<"tasks">>, 6, {}, "missing", "always", << >>, << >>),
     RouteEntry("bad", <<"tasks", "{}">>, 11, {}, "new", "header", << >>, <<"v2">>)}

MCMappings ==
    [id \in {"old", "bare"} |->
        IF id = "old" THEN [profile |-> "p", instance |-> "i", session |-> "s"]
        ELSE [profile |-> "q", instance |-> "missing", session |-> "missing"]]

MCBodies ==
    {EmptyBody, [f \in {} |-> "x"], [by |-> "bare", inst |-> "j", sess |-> "z"]}
    \cup {[member |-> v, text |-> "t"] : v \in {"old", "bare", "new", "blank"}}
    \cup {[agent |-> "bare", inst |-> v, by |-> w] :
            v \in {"j", "not a string"}, w \in {"old", "new", "bare"}}

MCInbound ==
    [method : {"GET", "POST"}, path : {<<"tasks">>, <<"tasks", "open">>, <<"home">>},
     prefer : BOOLEAN, body : MCBodies]

-----------------------------------------------------------------------------
\* A reference bound twice in one list, in either order, or next to another.
Binding(reference, policy, relevant, at, priority) ==
    [reference |-> reference, policy |-> policy, relevant |-> relevant, scope |-> at,
     priority |-> priority]
Handle(reference, policy, group) == [reference |-> reference, policy |-> policy, group |-> group]

MCResolutions ==
    LET first == Binding(1, "on_demand", TRUE, "task", 1)
        again == Binding(1, "must_read", FALSE, "global", 1)
        must == Binding(2, "must_read", TRUE, "project", 2)
        other == Binding(2, "on_demand", FALSE, "project", 2)
    IN  {<< >>, <<first, again>>, <<again, first>>, <<again, must>>, <<other, must>>, <<first, must>>}
MCInherited ==
    {<< >>, <<Handle(1, "must_read", ""), Handle(3, "on_demand", "")>>,
     <<Handle(2, "on_demand", "nearby-maps")>>,
     <<Handle(3, "must_read", "other"), Handle(3, "on_demand", "likely-useful")>>}
MCFinds == {<< >>, <<3>>, <<1, 2>>}

-----------------------------------------------------------------------------
\* A row that no channel and no link leads to is on no page.
SmallPages ==
    /\ \A i \in unseen : (i.channel \/ i.link = 1) /\ (i.source = "msg" => i.channel)
    /\ ~(follower.cursor = Malformed /\ follower.opened > 1)
    /\ serial["msg"] + serial["obs"] <= 3

-----------------------------------------------------------------------------
MCRecordsInit ==
    /\ part \in {"tasks", "board", "knowledge", "documents", "projects", "tools",
                 "sessions", "gateway", "manifest", "timeline"}
    /\ TasksInit /\ BoardInit /\ KnowledgeInit /\ DocumentsInit /\ ProjectsInit
    /\ part # "tasks" => [tasks |-> tasks, deps |-> deps] = CHOOSE s \in Starts : TRUE
    /\ McpInit /\ ManifestInit /\ TimelineInit /\ GatewayInit
    /\ part # "gateway" => Len(table) = 1 /\ table[1].name = "root"

\* The other services stand still.
Quiet(parts, vars) == part \notin parts => UNCHANGED vars

MCRecordsNext ==
    /\ UNCHANGED part
    /\ \/ part = "tasks" /\ TasksNext
       \/ part = "board" /\ BoardNext
       \/ part = "knowledge" /\ KnowledgeNext
       \/ part = "documents" /\ DocumentsNext
       \/ part = "projects" /\ ProjectsNext
       \/ part = "tools" /\ ServeHTTP("a")
       \/ part = "sessions" /\ SessionNext
       \/ part = "gateway" /\ GatewayNext
       \/ part = "manifest" /\ ManifestNext
       \/ part = "timeline" /\ TimelineNext /\ SmallPages'
    /\ Quiet({"tasks"}, taskVars) /\ Quiet({"board"}, boardStoreVars)
    /\ Quiet({"knowledge"}, knowledgeVars) /\ Quiet({"documents"}, documentsVars)
    /\ Quiet({"projects"}, projectVars)
    /\ Quiet({"tools", "sessions"}, mcpVars)
    /\ Quiet({"gateway"}, gatewayVars)
    /\ Quiet({"manifest"}, manifestVars) /\ Quiet({"timeline"}, timelineVars)

MCRecordsSpec == MCRecordsInit /\ [][MCRecordsNext]_<<part, recordVars>>

=============================================================================
