---------------------------- MODULE ClickupTools ---------------------------
(***************************************************************************)
(* component-clickup: its tools (tools/), what their metadata says         *)
(* (tool_meta.rs), and the credential of the node (ops.rs).                *)
(***************************************************************************)
EXTENDS ToolTable

Credentials == <<"token">>
InputSchema == {"token"}
Transport   == HostTransport(200..299)

tasks ==
  [create |-> Change("POST", {"list_id", "fields"}),
   get    |-> Get({"task_id"}),
   update |-> Change("PUT", {"task_id", "fields"}),
   delete |-> Bodiless(Ack("DELETE", {"task_id"})),
   search |-> Get({"list_id"})]

spaces == [list |-> Get({"team_id"}), get |-> Get({"space_id"})]

folders ==
  [list   |-> Get({"space_id"}), get |-> Get({"folder_id"}),
   create |-> Change("POST", {"space_id", "fields"})]

lists ==
  [list   |-> Get({"folder_id"}), get |-> Get({"list_id"}),
   create |-> Change("POST", {"folder_id", "fields"})]

comments ==
  [add    |-> Change("POST", {"task_id", "comment_text"}),
   list   |-> Get({"task_id"}),
   update |-> Change("PUT", {"comment_id", "comment_text"})]

time_entries ==
  [start |-> Change("POST", {"team_id"}),
   stop  |-> Ack("POST", {"team_id"}),
   list  |-> Get({"team_id"}),
   add   |-> Change("POST", {"team_id", "start", "duration"})]

custom_fields ==
  [get |-> Get({"list_id"}),
   set |-> Ack("POST", {"task_id", "field_id", "value"})]

members == [list |-> Get({"list_id"})]

-----------------------------------------------------------------------------
(* The metadata.                                                           *)

tasks_doc == Doc("write",
  [create |-> Needs({"list_id", "fields"}), get |-> Needs({"task_id"}),
   update |-> Needs({"task_id", "fields"}), delete |-> Needs({"task_id"}),
   search |-> Needs({"list_id"})])

spaces_doc == Doc("read", [list |-> Needs({"team_id"}), get |-> Needs({"space_id"})])

folders_doc == Doc("write",
  [list |-> Needs({"space_id"}), get |-> Needs({"folder_id"}),
   create |-> Needs({"space_id", "fields"})])

lists_doc == Doc("write",
  [list |-> Needs({"folder_id"}), get |-> Needs({"list_id"}),
   create |-> Needs({"folder_id", "fields"})])

comments_doc == Doc("write",
  [add |-> Needs({"task_id", "comment_text"}), list |-> Needs({"task_id"}),
   update |-> Needs({"comment_id", "comment_text"})])

time_entries_doc == Doc("write",
  [start |-> Needs({"team_id"}), stop |-> Needs({"team_id"}), list |-> Needs({"team_id"}),
   add |-> Needs({"team_id", "start", "duration"})])

custom_fields_doc == Doc("write",
  [get |-> Needs({"list_id"}), set |-> Needs({"task_id", "field_id", "value"})])

members_doc == Doc("read", [list |-> Needs({"list_id"})])

-----------------------------------------------------------------------------
Tools ==
  [clickup_tasks |-> tasks, clickup_spaces |-> spaces, clickup_folders |-> folders,
   clickup_lists |-> lists, clickup_comments |-> comments,
   clickup_time_entries |-> time_entries, clickup_custom_fields |-> custom_fields,
   clickup_members |-> members]

Docs ==
  [clickup_tasks |-> tasks_doc, clickup_spaces |-> spaces_doc,
   clickup_folders |-> folders_doc, clickup_lists |-> lists_doc,
   clickup_comments |-> comments_doc, clickup_time_entries |-> time_entries_doc,
   clickup_custom_fields |-> custom_fields_doc, clickup_members |-> members_doc]

Node == NodeWith("static", Credentials, Transport, Tools, Docs, InputSchema)
=============================================================================
