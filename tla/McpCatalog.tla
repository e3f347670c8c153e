----------------------------- MODULE McpCatalog -----------------------------
(***************************************************************************)
(* The tables the MCP facade answers from: the registered tools with the   *)
(* arguments their schemas require (mcp/internal/registry), the policies   *)
(* that retire or hide them, and the REST adapters with the arguments each *)
(* one cannot build its backend request without (mcp/internal/backend).    *)
(* The two sides are written in different files of the source and nothing  *)
(* in the program compares them.                                           *)
(*                                                                         *)
(* An argument is its name.  Only the names that some adapter insists on   *)
(* appear; every other argument of a schema is payload.                    *)
(***************************************************************************)
EXTENDS Naturals, FiniteSets, TLC

(* A table gives each operation of a set the same argument names.          *)
Each(operations, arguments) == [o \in operations |-> arguments]

-----------------------------------------------------------------------------
(* Required arguments, per group of tools of the registry.                 *)

(* The snapshot of the old server's live tools.                            *)
liveTools ==
    Each({"list_discussion_threads", "create_space", "mark_read", "list_spaces",
          "query_archived_documents", "list_documents", "create_project",
          "den_knowledge_guide", "list_projects", "search_documents",
          "den_knowledge_search"}, {})
    @@ Each({"add_dependency", "remove_dependency"}, {"task_id", "depends_on"})
    @@ Each({"delete_agent_guidance_entry"}, {"project_id", "entry_id"})
    @@ Each({"render_worker_prompt"}, {"project_id", "message_id"})
    @@ Each({"send_message", "get_messages", "query_librarian", "next_task",
             "list_tasks", "create_task", "update_project", "get_project",
             "add_agent_guidance_entry", "get_agent_guidance",
             "wait_for_messages", "list_agent_guidance_entries"}, {"project_id"})
    @@ Each({"split_review_findings_to_follow_up", "request_review",
             "get_latest_task_packet", "post_review_findings"},
            {"project_id", "task_id"})
    @@ Each({"comment_on_document", "get_document_discussion", "get_document",
             "archive_document_preflight", "delete_document", "store_document",
             "update_document_visibility"}, {"project_id", "slug"})
    @@ Each({"set_review_finding_status", "respond_to_review_finding"}, {"finding_id"})
    @@ Each({"set_review_verdict", "create_review_finding"}, {"review_round_id"})
    @@ Each({"den_knowledge_get", "den_knowledge_store"}, {"slug"})
    @@ Each({"get_space", "archive_space", "delete_space",
             "update_space_visibility"}, {"space_id"})
    @@ Each({"update_task", "list_review_rounds", "create_review_round",
             "get_task", "get_task_workflow_summary", "list_review_findings"},
            {"task_id"})
    @@ Each({"create_discussion_comment", "get_discussion_thread", "get_thread",
             "update_discussion_thread"}, {"thread_id"})

(* Three of the retired tools; the others differ only in their message.    *)
retiredToolPolicies ==
    {"send_user_notification", "store_blackboard_entry", "list_worker_runs"}

githubCheckGateTools ==
    Each({"discover_github_checks"}, {"commit_sha"})
    @@ Each({"watch_github_checks", "await_github_checks", "get_github_check_gate",
             "wait_for_github_checks"}, {"task_id", "commit_sha"})

reviewFinalizationTools == Each({"finalize_review"}, {"review_round_id"})

reviewSubmissionTools == Each({"submit_task_for_review"}, {"task_id"})

campaignReviewTools ==
    Each({"request_campaign_review"}, {"task_id", "children", "repositories"})

taskContextTools ==
    Each({"get_task_context"}, {"task_id"})
    @@ Each({"compose_assignment_manifest"}, {"task_id", "assignment"})

reviewContextTools == Each({"get_review_context"}, {"task_id"})

reviewPipelineTools == Each({"list_review_pipeline"}, {"project_id"})

contractErgonomicsTools ==
    Each({"record_human_acceptance_review"}, {"task_id"})
    @@ Each({"get_details"}, {"detail_ref"})
    @@ Each({"ensure_document_discussion"}, {"project_id", "slug"})

handoffTools == Each({"set_handoff", "get_handoff"}, {})

projectCrewNotifyTools == Each({"update_project_crew_notify"}, {"project_id"})

knowledgeTools ==
    Each({"den_knowledge_delete", "den_knowledge_card", "den_knowledge_read",
          "den_knowledge_get_map"}, {"slug"})
    @@ Each({"den_knowledge_cards"}, {"slugs"})
    @@ Each({"den_knowledge_replace_links"}, {"slug", "links"})
    @@ Each({"den_knowledge_store_map"}, {"slug", "title", "entries"})

boardTools ==
    Each({"create_board_post", "list_board_posts"}, {"project_id"})
    @@ Each({"search_board_posts"}, {"project_id", "query"})
    @@ Each({"get_board_post", "create_board_comment", "list_board_comments",
             "purge_board_post"}, {"post_id"})
    @@ Each({"get_board_comment", "get_board_comment_path",
             "purge_board_comment"}, {"comment_id"})

boardRelayTools ==
    Each({"sync_board_github"}, {"project_id"})
    @@ Each({"set_board_github_visibility"}, {"visibility"})

(* The project is read from the task, and may not be stated; or it may be  *)
(* omitted when a task is named.                                           *)
TaskDerivesProject ==
    {"get_latest_task_packet", "post_review_findings", "request_review",
     "request_campaign_review", "split_review_findings_to_follow_up",
     "submit_task_for_review", "await_github_checks", "watch_github_checks",
     "get_github_check_gate", "wait_for_github_checks"}

TaskOptionalProject == {"send_message", "get_messages", "query_librarian"}

modernizeInputSchema(name, required) ==
    IF name \in TaskDerivesProject \union TaskOptionalProject
    THEN required \ {"project_id"} ELSE required

(* Every registered tool and the arguments its published schema requires.  *)
DefaultTools ==
    [name \in DOMAIN liveTools |-> modernizeInputSchema(name, liveTools[name])]
    @@ Each(retiredToolPolicies, {})
    @@ githubCheckGateTools @@ reviewFinalizationTools @@ reviewSubmissionTools
    @@ campaignReviewTools @@ taskContextTools @@ reviewContextTools
    @@ reviewPipelineTools @@ contractErgonomicsTools @@ handoffTools
    @@ projectCrewNotifyTools @@ knowledgeTools @@ boardTools @@ boardRelayTools

-----------------------------------------------------------------------------
(* What each adapter needs to build a request.  The body encoder knows a   *)
(* set of operations, refuses every other as unsupported and cannot encode *)
(* some of them without certain fields; the path of the operation's route  *)
(* holds parameters that must be given.                                    *)
Adapter(body, path) ==
    [o \in DOMAIN body |-> body[o] \union path[o]]

tasksRESTRequestBody ==
    Each({"add_dependency"}, {"depends_on"})
    @@ Each({"next_task", "list_tasks", "create_task", "get_task", "update_task",
             "record_human_acceptance_review", "remove_dependency"}, {})

(* MUTANT: removal asks for the dependency under a name no schema has.     *)
expandTasksPathRenamed ==
    Each({"next_task", "list_tasks", "create_task"}, {"project_id"})
    @@ Each({"get_task", "update_task", "record_human_acceptance_review",
             "add_dependency"}, {"task_id"})
    @@ Each({"remove_dependency"}, {"task_id", "dependency_id"})

expandTasksPath ==
    Each({"next_task", "list_tasks", "create_task"}, {"project_id"})
    @@ Each({"get_task", "update_task", "record_human_acceptance_review",
             "add_dependency"}, {"task_id"})
    @@ Each({"remove_dependency"}, {"task_id", "depends_on"})

projectsRESTRequestBody ==
    Each({"create_project", "create_space", "list_projects", "list_spaces",
          "update_project", "update_project_crew_notify",
          "update_space_visibility", "archive_space", "delete_space"}, {})

expandProjectsPath ==
    Each({"create_project", "create_space", "list_projects", "list_spaces"}, {})
    @@ Each({"update_project", "update_project_crew_notify"}, {"project_id"})
    @@ Each({"update_space_visibility", "archive_space", "delete_space"}, {"space_id"})

documentsRESTRequestBody ==
    Each({"store_document", "update_document_visibility", "comment_on_document",
          "create_discussion_comment", "update_discussion_thread",
          "get_document", "list_documents", "search_documents",
          "delete_document", "archive_document_preflight",
          "query_archived_documents", "get_document_discussion",
          "ensure_document_discussion", "list_discussion_threads",
          "get_discussion_thread"}, {})

(* A listing that names a project has a path of its own, which it fills.   *)
documentsRESTURL ==
    Each({"search_documents", "list_discussion_threads",
          "query_archived_documents", "list_documents"}, {})
    @@ Each({"store_document"}, {"project_id"})
    @@ Each({"comment_on_document", "update_document_visibility",
             "get_document_discussion", "ensure_document_discussion",
             "get_document", "archive_document_preflight", "delete_document"},
            {"project_id", "slug"})
    @@ Each({"create_discussion_comment", "get_discussion_thread",
             "update_discussion_thread"}, {"thread_id"})

messagesRESTRequestBody ==
    Each({"send_message", "mark_read", "get_messages", "wait_for_messages",
          "get_thread", "get_latest_task_packet", "render_worker_prompt"}, {})

expandMessagesPath ==
    Each({"send_message", "get_messages", "wait_for_messages"}, {"project_id"})
    @@ Each({"mark_read"}, {})
    @@ Each({"get_latest_task_packet"}, {"project_id", "task_id"})
    @@ Each({"render_worker_prompt"}, {"project_id", "message_id"})
    @@ Each({"get_thread"}, {"thread_id"})

reviewRESTRequestBody ==
    Each({"request_campaign_review"}, {"children", "repositories"})
    @@ Each({"submit_task_for_review", "create_review_round", "request_review",
             "post_review_findings", "create_review_finding",
             "set_review_verdict", "finalize_review",
             "respond_to_review_finding", "set_review_finding_status",
             "split_review_findings_to_follow_up", "await_github_checks",
             "watch_github_checks", "discover_github_checks",
             "list_review_rounds", "list_review_findings",
             "list_review_pipeline", "get_github_check_gate",
             "wait_for_github_checks"}, {})

expandReviewPath ==
    Each({"submit_task_for_review", "discover_github_checks", "finalize_review"}, {})
    @@ Each({"list_review_rounds", "create_review_round",
             "list_review_findings"}, {"task_id"})
    @@ Each({"list_review_pipeline"}, {"project_id"})
    @@ Each({"watch_github_checks", "await_github_checks", "post_review_findings",
             "request_review", "request_campaign_review",
             "split_review_findings_to_follow_up"}, {"project_id", "task_id"})
    @@ Each({"get_github_check_gate", "wait_for_github_checks"},
            {"project_id", "task_id", "commit_sha"})
    @@ Each({"set_review_verdict", "create_review_finding"}, {"review_round_id"})
    @@ Each({"set_review_finding_status", "respond_to_review_finding"}, {"finding_id"})

knowledgeRESTRequestBody ==
    Each({"den_knowledge_cards"}, {"slugs"})
    @@ Each({"den_knowledge_replace_links"}, {"links"})
    @@ Each({"den_knowledge_store_map"}, {"slug", "title", "entries"})
    @@ Each({"den_knowledge_search", "den_knowledge_store", "den_knowledge_guide",
             "den_knowledge_get", "den_knowledge_card", "den_knowledge_read",
             "den_knowledge_get_map", "den_knowledge_delete"}, {})

knowledgeRESTURL ==
    Each({"den_knowledge_search", "den_knowledge_store", "den_knowledge_guide",
          "den_knowledge_cards", "den_knowledge_store_map"}, {})
    @@ Each({"den_knowledge_get", "den_knowledge_card", "den_knowledge_read",
             "den_knowledge_get_map", "den_knowledge_delete",
             "den_knowledge_replace_links"}, {"slug"})

guidanceRESTRequestBody ==
    Each({"add_agent_guidance_entry", "get_agent_guidance",
          "list_agent_guidance_entries", "delete_agent_guidance_entry"}, {})

expandGuidancePath ==
    Each({"add_agent_guidance_entry", "get_agent_guidance",
          "list_agent_guidance_entries"}, {"project_id"})
    @@ Each({"delete_agent_guidance_entry"}, {"project_id", "entry_id"})

librarianREST == Each({"query_librarian"}, {"project_id"})

handoffREST == Each({"set_handoff", "get_handoff"}, {})

boardREST ==
    Each({"create_board_post", "list_board_posts"}, {"project_id"})
    @@ Each({"search_board_posts"}, {"project_id", "query"})
    @@ Each({"get_board_post", "create_board_comment", "list_board_comments",
             "purge_board_post"}, {"post_id"})
    @@ Each({"get_board_comment", "get_board_comment_path",
             "purge_board_comment"}, {"comment_id"})

boardRelayREST ==
    Each({"sync_board_github"}, {"project_id"})
    @@ Each({"set_board_github_visibility"}, {"visibility"})

(* The reads composed from several backends.                               *)
SummaryReads ==
    {"get_project", "get_space", "get_task_workflow_summary", "get_task_context",
     "get_review_context", "compose_assignment_manifest"}

composed ==
    [o \in SummaryReads |->
        CASE o = "get_project" -> {"project_id"}
          [] o = "get_space" -> {"space_id"}
          [] o = "compose_assignment_manifest" -> {"task_id", "assignment"}
          [] OTHER -> {"task_id"}]

(* The adapter each operation's route names.                               *)
supportedAdapterPair ==
    "tasks" :> Adapter(tasksRESTRequestBody, expandTasksPath)
    @@ "projects" :> Adapter(projectsRESTRequestBody, expandProjectsPath)
    @@ "documents" :> Adapter(documentsRESTRequestBody, documentsRESTURL)
    @@ "messages" :> Adapter(messagesRESTRequestBody, expandMessagesPath)
    @@ "review" :> Adapter(reviewRESTRequestBody, expandReviewPath)
    @@ "knowledge" :> Adapter(knowledgeRESTRequestBody, knowledgeRESTURL)
    @@ "guidance" :> Adapter(guidanceRESTRequestBody, expandGuidancePath)
    @@ "librarian" :> librarianREST @@ "handoff" :> handoffREST
    @@ "board" :> boardREST @@ "board-relay" :> boardRelayREST
    @@ "compose" :> composed

(* The operations whose route is a GET, or a composed read.                *)
ReadOperations ==
    SummaryReads \union
    {"next_task", "list_tasks", "get_task", "get_handoff", "search_documents",
     "list_discussion_threads", "get_discussion_thread",
     "query_archived_documents", "list_documents", "get_document_discussion",
     "get_document", "render_worker_prompt", "wait_for_messages",
     "get_latest_task_packet", "get_thread", "get_messages",
     "list_review_rounds", "list_review_pipeline", "list_review_findings",
     "get_github_check_gate", "wait_for_github_checks", "list_projects",
     "list_spaces", "get_agent_guidance", "list_agent_guidance_entries",
     "get_board_comment", "get_board_comment_path", "list_board_posts",
     "get_board_post", "list_board_comments", "search_board_posts",
     "den_knowledge_card", "den_knowledge_get", "den_knowledge_get_map",
     "den_knowledge_read"}

(* Tools whose short result carries a reference to the long one, with the  *)
(* arguments the reference may hold.                                       *)
DetailTools ==
    {"get_task", "get_task_workflow_summary", "get_review_context",
     "get_latest_task_packet", "list_review_rounds", "list_review_findings",
     "get_document", "get_document_discussion", "get_thread",
     "get_discussion_thread"}

DetailArgumentAllowed ==
    [t \in DetailTools |->
        CASE t \in {"get_document", "get_document_discussion"} -> {"project_id", "slug"}
          [] t \in {"get_thread", "get_discussion_thread"} -> {"thread_id"}
          [] OTHER -> {"task_id"}]
=============================================================================
