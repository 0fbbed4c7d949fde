------------------------------ MODULE NodeSetup -----------------------------
(***************************************************************************)
(* What every node of this repository has around its operations: the       *)
(* envelope that routes an operation to its handler, the questions of the  *)
(* setup wizard, and the configuration that the answers turn into.  One    *)
(* record per crate, a second one for its setup, a third for its questions *)
(* where it asks any.  component-http, which lays answers over each other, *)
(* is in HttpNode.                                                         *)
(***************************************************************************)
EXTENDS Integers, FiniteSets, TLC

Unset == "unset"          \* an answer not given, a setting left to its default

----------------------------------------------------------------------------
(* How a setup takes the answers.                                          *)
(*   "keeps"   the configuration there was, whatever is answered           *)
(*   "first"   the configuration there was, or else the answers as given   *)
(*   "builds"  a configuration made of these answers alone, in Setup mode  *)
(* A field is taken as it is when it has the right type ("typed"), or as a *)
(* trimmed text that is not blank ("trimmed"); anything else counts as not *)
(* answered.                                                               *)

AsksNothing == [takes |-> "keeps", fields |-> <<>>]
FirstAnswers == [takes |-> "first", fields |-> <<>>]
Builds(fields) == [takes |-> "builds", fields |-> fields]

Taken(kind, answer) ==
  IF answer = "wrong" \/ (kind = "trimmed" /\ answer = "blank") THEN Unset ELSE answer

Built(setup, answers) == [f \in DOMAIN setup.fields |-> Taken(setup.fields[f], answers[f])]

NoConfig == <<>>

(* apply_answers: whether it went well, and the configuration the host is  *)
(* to keep.  In the other modes a builder returns none and the host keeps  *)
(* the one it has; answers that cannot be decoded are an error.            *)
apply_answers(setup, mode, current, answers, decodes) ==
  CASE setup.takes = "keeps"  -> [ok |-> TRUE, config |-> current]
    [] setup.takes = "first"  -> [ok |-> TRUE,
                                  config |-> IF current # NoConfig THEN current ELSE answers]
    [] setup.takes = "builds" ->
         [ok |-> decodes,
          config |-> IF decodes /\ mode = "setup" THEN Built(setup, answers) ELSE current]

(* load_config: a field of the wrong type refuses the invocation.          *)
Loads(config) == \A f \in DOMAIN config : config[f] # "wrong"

----------------------------------------------------------------------------
(* The envelope: a payload that does not decode and an operation nobody    *)
(* handles are answers of the node, never faults of the run.               *)
Invoked(ops, op, decodes) ==
  CASE ~ decodes -> "invalid input"
    [] decodes /\ op \notin ops -> "unsupported op"
    [] OTHER -> "handled"

(* A question, with whether it must be answered and has a default.         *)
Question(required, default) == [required |-> required, default |-> default]

(* A node: the operations it describes and handles, what its setup takes,  *)
(* and what it asks.                                                       *)
Node(ops, setup, asks) == [ops |-> ops, setup |-> setup, asks |-> asks]

----------------------------------------------------------------------------
(* The tool nodes: operations only; their credentials belong to the input, *)
(* and each has exports of its own that ask nothing and keep what there is. *)

jira_setup      == AsksNothing
trello_setup    == AsksNothing
stripe_setup    == AsksNothing
clickup_setup   == AsksNothing
calendly_setup  == AsksNothing
gcal_setup      == AsksNothing
hubspot_setup   == AsksNothing
notion_setup    == AsksNothing
tavily_setup    == AsksNothing
firecrawl_setup == AsksNothing
resend_setup    == AsksNothing
twilio_setup    == AsksNothing
k8s_setup       == AsksNothing
sql_setup       == AsksNothing
transform_setup == AsksNothing

jira == Node({"jira_issues", "jira_comments", "jira_projects", "jira_boards",
              "jira_sprints", "jira_worklogs", "jira_attachments", "jira_users"}, jira_setup, <<>>)

trello == Node({"trello_cards", "trello_lists", "trello_boards", "trello_checklists",
                "trello_labels", "trello_comments", "trello_attachments", "trello_members"}, trello_setup, <<>>)

stripe == Node({"stripe_customers", "stripe_products", "stripe_prices",
                "stripe_payment_links", "stripe_invoices", "stripe_subscriptions",
                "stripe_checkout_sessions", "stripe_refunds", "stripe_payment_intents",
                "stripe_disputes", "stripe_coupons", "stripe_promotion_codes", "stripe_files"}, stripe_setup, <<>>)

clickup == Node({"clickup_tasks", "clickup_spaces", "clickup_folders", "clickup_lists",
                 "clickup_comments", "clickup_time_entries", "clickup_custom_fields",
                 "clickup_members"}, clickup_setup, <<>>)

calendly == Node({"calendly_me", "calendly_event_types", "calendly_events",
                  "calendly_invitees", "calendly_scheduling_links",
                  "calendly_availability", "calendly_webhooks"}, calendly_setup, <<>>)

gcal == Node({"gcal_events", "gcal_calendars", "gcal_freebusy"}, gcal_setup, <<>>)

hubspot == Node({"hubspot_contacts", "hubspot_deals", "hubspot_companies",
                 "hubspot_tickets", "hubspot_notes", "hubspot_tasks", "hubspot_calls",
                 "hubspot_meetings", "hubspot_emails", "hubspot_pipelines",
                 "hubspot_owners", "hubspot_batch", "hubspot_associate"}, hubspot_setup, <<>>)

notion == Node({"notion_query_database", "notion_create_page", "notion_update_page",
                "notion_append_block", "notion_search", "notion_retrieve_block_children",
                "notion_list_users", "notion_create_comment"}, notion_setup, <<>>)

tavily == Node({"tavily_search", "tavily_extract"}, tavily_setup, <<>>)

firecrawl == Node({"web_scrape", "web_extract", "web_screenshot", "web_search",
                   "web_crawl_start", "web_crawl_result", "browser_task"}, firecrawl_setup, <<>>)

resend == Node({"send_email"}, resend_setup, <<>>)

twilio == Node({"send_sms"}, twilio_setup, <<>>)

k8s == Node({"k8s_list_namespaces", "k8s_list_resources", "k8s_get_resource",
             "k8s_describe_resource", "k8s_get_pod_logs", "k8s_get_events",
             "k8s_top_pods", "k8s_top_nodes", "k8s_get_server_version",
             "k8s_find_unhealthy_pods", "k8s_triage_namespace", "k8s_triage_cluster",
             "k8s_analyze_crashloop", "k8s_report_node_pressure", "k8s_scale_workload",
             "k8s_rollout_restart", "k8s_rollout_undo", "k8s_delete_pod",
             "k8s_cordon_node", "k8s_uncordon_node", "k8s_patch_resource",
             "k8s_apply_manifest", "k8s_check_rollout_status"}, k8s_setup, <<>>)

sql == Node({"sql_ask"}, sql_setup, <<>>)

transform == Node({"json_validate", "json_merge_patch", "json_flatten", "json_unflatten",
                   "json_dedup", "json_pick", "json_omit", "json_patch", "json_diff",
                   "json_sort"}, transform_setup, <<>>)

----------------------------------------------------------------------------
(* The nodes with a setup.                                                 *)

llm       == {"parse", "parse_multi", "select_renderer"}
llm_setup == Builds([api_key |-> "trimmed", model |-> "trimmed",
                     temperature |-> "typed", timeout_ms |-> "typed"])
llm_asks  == [api_key |-> Question(TRUE, FALSE), model |-> Question(FALSE, TRUE)]

validator       == {"validate", "load_whitelist"}
validator_setup == Builds([whitelist |-> "typed", strict_mode |-> "typed"])
validator_asks  == [strict_mode |-> Question(FALSE, TRUE)]

executor       == {"execute", "execute_github", "execute_mcp"}
executor_setup == Builds([github_token |-> "typed", github_api_url |-> "typed",
                          timeout_ms |-> "typed"])
executor_asks  == [github_token |-> Question(FALSE, FALSE)]

renderer       == {"render", "auto_select"}
renderer_setup == Builds([max_list_items |-> "typed", max_table_columns |-> "typed"])
renderer_asks  == <<>>

translator       == {"translate", "translate_batch"}
translator_setup == Builds([default_max_rows |-> "typed", github_api_url |-> "typed"])
translator_asks  == <<>>

msg2events       == {"route", "extract", "validate"}
msg2events_setup == Builds([default_flow |-> "trimmed", default_event_type |-> "trimmed"])
msg2events_asks  == [default_flow |-> Question(FALSE, FALSE),
                     default_event_type |-> Question(FALSE, TRUE)]

events2msg       == {"route", "validate"}
events2msg_setup == Builds([default_provider |-> "trimmed", default_channel |-> "trimmed"])
events2msg_asks  == [default_provider |-> Question(FALSE, TRUE),
                     default_channel |-> Question(FALSE, FALSE)]

pack2flow == {"jump", "setup.apply_answers"}

sorx_business == {"list_business_actions", "get_business_action_schema",
                  "dry_run_locked_action", "invoke_locked_action",
                  "explain_business_action_mapping"}

----------------------------------------------------------------------------
(* Every node, by its crate.                                               *)

Tools == [jira |-> jira, trello |-> trello, stripe |-> stripe, clickup |-> clickup,
          calendly |-> calendly, gcal |-> gcal, hubspot |-> hubspot,
          notion |-> notion, tavily |-> tavily, firecrawl |-> firecrawl,
          resend |-> resend, twilio |-> twilio, k8s |-> k8s, sql |-> sql,
          transform |-> transform]

Nodes ==
  Tools @@
     [llm |-> Node(llm, llm_setup, llm_asks),
      validator |-> Node(validator, validator_setup, validator_asks),
      executor |-> Node(executor, executor_setup, executor_asks),
      renderer |-> Node(renderer, renderer_setup, renderer_asks),
      translator |-> Node(translator, translator_setup, translator_asks),
      msg2events |-> Node(msg2events, msg2events_setup, msg2events_asks),
      events2msg |-> Node(events2msg, events2msg_setup, events2msg_asks),
      pack2flow |-> Node(pack2flow, FirstAnswers, <<>>),
      sorx_business |-> Node(sorx_business, FirstAnswers, <<>>)]
=============================================================================
