----------------------------- MODULE JiraTools -----------------------------
(***************************************************************************)
(* component-jira: its tools (tools/), what their metadata says            *)
(* (tool_meta.rs), and the credentials of the node (ops.rs).               *)
(***************************************************************************)
EXTENDS ToolTable

Credentials == <<"email", "api_token", "site">>
InputSchema == {"token"}
Transport   == HostTransport(200..299)

(* An issue that is updated is confirmed with 204, nobody having asked for *)
(* it back; the handler reads it back all the same (normalize_record).     *)
issues ==
  [create     |-> Change("POST", {"fields"}),
   search     |-> Get({"jql"}),
   get        |-> Get({"id"}),
   update     |-> Bodiless(Change("PUT", {"id", "fields"})),
   transition |-> Bodiless(Ack("POST", {"id", "transition_id"})),
   assign     |-> Bodiless(Ack("PUT", {"id", "account_id"})),
   delete     |-> Bodiless(Ack("DELETE", {"id"}))]

comments ==
  [add    |-> Change("POST", {"id", "body"}),
   list   |-> Get({"id"}),
   update |-> Change("PUT", {"id", "comment_id", "body"}),
   delete |-> Bodiless(Ack("DELETE", {"id", "comment_id"}))]

projects == [list |-> Get({}), get |-> Get({"id"})]
boards   == [list |-> Get({}), get |-> Get({"id"})]

sprints ==
  [list        |-> Get({"board_id"}),
   get         |-> Get({"id"}),
   create      |-> Change("POST", {"name", "origin_board_id"}),
   move_issues |-> Bodiless(Ack("POST", {"id", "issues"}))]

worklogs == [add |-> Change("POST", {"id", "time_spent"}), list |-> Get({"id"})]

(* An upload needs a multipart body the handler cannot build.              *)
attachments == [add |-> Unserved(Change("POST", {"id"})), list |-> Get({"id"})]

users == [search |-> Get({"query"})]

-----------------------------------------------------------------------------
(* The metadata.                                                           *)

issues_doc == Doc("write",
  [create |-> Needs({"fields"}), search |-> Needs({"jql"}), get |-> Needs({"id"}),
   update |-> Needs({"id", "fields"}), transition |-> Needs({"id", "transition_id"}),
   assign |-> Needs({"id", "account_id"}), delete |-> Needs({"id"})])

comments_doc == Doc("write",
  [add |-> Needs({"id", "body"}), list |-> Needs({"id"}),
   update |-> Needs({"id", "comment_id", "body"}), delete |-> Needs({"id", "comment_id"})])

projects_doc == Doc("read", [list |-> Needs({}), get |-> Needs({"id"})])
boards_doc   == Doc("read", [list |-> Needs({}), get |-> Needs({"id"})])

sprints_doc == Doc("write",
  [list |-> Needs({"board_id"}), get |-> Needs({"id"}),
   create |-> Needs({"name", "origin_board_id"}), move_issues |-> Needs({"id", "issues"})])

worklogs_doc == Doc("write", [add |-> Needs({"id", "time_spent"}), list |-> Needs({"id"})])

(* The description of "add" says itself that it is not supported.          *)
attachments_doc == Doc("read", [list |-> Needs({"id"})])

users_doc == Doc("read", [search |-> Needs({"query"})])

-----------------------------------------------------------------------------
Tools ==
  [jira_issues |-> issues, jira_comments |-> comments, jira_projects |-> projects,
   jira_boards |-> boards, jira_sprints |-> sprints, jira_worklogs |-> worklogs,
   jira_attachments |-> attachments, jira_users |-> users]

Docs ==
  [jira_issues |-> issues_doc, jira_comments |-> comments_doc,
   jira_projects |-> projects_doc, jira_boards |-> boards_doc,
   jira_sprints |-> sprints_doc, jira_worklogs |-> worklogs_doc,
   jira_attachments |-> attachments_doc, jira_users |-> users_doc]

Node == NodeWith("static", Credentials, Transport, Tools, Docs, InputSchema)
=============================================================================
