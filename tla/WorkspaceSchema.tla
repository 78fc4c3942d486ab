--------------------------- MODULE WorkspaceSchema ---------------------------
(***************************************************************************)
(* The tables that hold what a workspace owns, their foreign keys as the   *)
(* migrations leave them, and the order in which a purge empties them.     *)
(***************************************************************************)
EXTENDS Integers, Sequences

\* <<child, parent>>: REFERENCES without an action, a parent with children
\* cannot be deleted.
NoAction == {
    <<"members", "workspaces">>, <<"teams", "workspaces">>,
    <<"projects", "workspaces">>, <<"projects", "teams">>,
    <<"cycles", "workspaces">>, <<"cycles", "teams">>,
    <<"issues", "workspaces">>, <<"issues", "teams">>, <<"issues", "projects">>,
    <<"issues", "members">>, <<"issues", "cycles">>, <<"issues", "milestones">>,
    <<"workflow_statuses", "teams">>,
    <<"labels", "workspaces">>, <<"labels", "teams">>,
    <<"milestones", "workspaces">>, <<"milestones", "projects">>,
    <<"notifications", "workspaces">>, <<"notifications", "members">>,
    <<"notifications", "issues">>,
    <<"ai_spend_events", "workspaces">>, <<"ai_spend_events", "issues">>,
    <<"automation_rules", "workspaces">>, <<"automation_rules", "teams">>,
    <<"automation_logs", "automation_rules">>, <<"automation_logs", "issues">>,
    <<"issue_relations", "workspaces">>,
    <<"time_entries", "workspaces">>, <<"time_entries", "members">>,
    <<"import_jobs", "workspaces">>, <<"workspace_integrations", "workspaces">>}

\* ON DELETE CASCADE: the children go with the parent.
Cascading == {
    <<"comments", "issues">>, <<"issue_embeddings", "issues">>,
    <<"custom_fields", "workspaces">>, <<"custom_fields", "teams">>,
    <<"issue_field_values", "issues">>, <<"issue_field_values", "custom_fields">>,
    <<"issue_relations", "issues">>, <<"time_entries", "issues">>,
    <<"issue_templates", "workspaces">>, <<"issue_templates", "teams">>,
    <<"guest_invites", "workspaces">>, <<"guest_invites", "projects">>,
    <<"guests", "workspaces">>, <<"guests", "projects">>,
    <<"issue_scores", "workspaces">>, <<"issue_scores", "issues">>,
    <<"feature_boards", "workspaces">>, <<"feature_posts", "workspaces">>,
    <<"feature_posts", "feature_boards">>, <<"feature_votes", "feature_posts">>,
    <<"import_job_payloads", "import_jobs">>,
    <<"issue_board_shares", "workspaces">>, <<"issue_board_shares", "projects">>,
    <<"workspace_webhooks", "workspaces">>,
    <<"workspace_webhook_deliveries", "workspaces">>,
    <<"workspace_webhook_deliveries", "workspace_webhooks">>,
    <<"notification_outbox", "workspaces">>, <<"notification_outbox", "members">>,
    <<"notification_preferences", "workspaces">>, <<"notification_preferences", "members">>,
    <<"workspace_lens_billing", "workspaces">>, <<"workspace_lens_billing", "members">>}

References == NoAction \cup Cascading
Tables == UNION {{r[1], r[2]} : r \in References}
Parents == [t \in Tables |-> {r[2] : r \in {q \in References : q[1] = t}}]

\* Fault: the teams before what refers to them.
purgeOrderTeamsEarly == <<
    "automation_logs", "automation_rules", "notifications", "ai_spend_events",
    "time_entries", "issue_relations", "issues", "teams", "milestones", "cycles",
    "projects", "labels", "workflow_statuses", "members", "import_jobs",
    "workspace_integrations", "workspaces">>

purgeOrder == <<
    "automation_logs", "automation_rules", "notifications", "ai_spend_events",
    "time_entries", "issue_relations", "issues", "milestones", "cycles",
    "projects", "labels", "workflow_statuses", "teams", "members", "import_jobs",
    "workspace_integrations", "workspaces">>

\* The tables that each statement empties: its own, and by cascade those below
\* it; and the tables whose rows, if any stay, refuse it.
Below(T) == T \cup {r[1] : r \in {q \in Cascading : q[2] \in T}}
Emptied == [k \in DOMAIN purgeOrder |-> Below(Below(Below({purgeOrder[k]})))]
Refusing == [k \in DOMAIN purgeOrder |->
               {r[1] : r \in {q \in NoAction : q[2] \in Emptied[k]}}]
=============================================================================
