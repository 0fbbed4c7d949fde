---------------------------- MODULE HubspotTools ---------------------------
(***************************************************************************)
(* component-hubspot: its tools (input.rs, hubspot.rs), what their         *)
(* metadata says (tool_meta.rs), and the credentials of the node (ops.rs): *)
(* three from which it obtains an access token, or an access token.        *)
(***************************************************************************)
EXTENDS ToolTable

Credentials == <<"oauth_refresh_token", "oauth_client_id", "oauth_client_secret">>
InputSchema == {"token"}
Transport   == HostTransport(200..299)

(* What the token service must answer: JSON with a token.                  *)
extract_refreshed_token == "json"

(* What each operation on a record insists on.                             *)
validate_crud ==
  [create |-> {"properties"}, search |-> {"query"},
   update |-> {"id", "properties"}, get |-> {"id"}]

map_record == "json"
map_search == "json"

(* The nine tools on one kind of record each.                              *)
crud ==
  [create |-> ParsedBy(map_record, Change("POST", validate_crud.create)),
   search |-> ParsedBy(map_search, Query(validate_crud.search)),
   update |-> ParsedBy(map_record, Change("PATCH", validate_crud.update)),
   get    |-> ParsedBy(map_record, Get(validate_crud.get))]

pipelines == [read |-> Get({"object_type"})]
owners    == [read |-> Get({})]

batch ==
  [read   |-> Query({"object_type", "inputs"}),
   create |-> Change("POST", {"object_type", "inputs"}),
   update |-> Change("POST", {"object_type", "inputs"})]

(* The acknowledgement is the node's own, whatever the answer's body.      *)
associate_result == "any"
associate ==
  [link |-> Bodiless(ParsedBy(associate_result,
              Change("PUT", {"from_object", "from_id", "to_object", "to_id"})))]

-----------------------------------------------------------------------------
(* The metadata.                                                           *)

crud_doc == Doc("write",
  [create |-> Needs({"properties"}), search |-> Needs({"query"}),
   update |-> Needs({"id", "properties"}), get |-> Needs({"id"})])

pipelines_doc == Doc("read", [read |-> Needs({"object_type"})])
owners_doc    == Doc("read", [read |-> Needs({})])

batch_doc == Doc("write",
  [read |-> Needs({"object_type", "inputs"}), create |-> Needs({"object_type", "inputs"}),
   update |-> Needs({"object_type", "inputs"})])

associate_doc == Doc("write",
  [link |-> Needs({"from_object", "from_id", "to_object", "to_id"})])

-----------------------------------------------------------------------------
CrudTools ==
  {"hubspot_contacts", "hubspot_deals", "hubspot_companies", "hubspot_tickets",
   "hubspot_notes", "hubspot_tasks", "hubspot_calls", "hubspot_meetings",
   "hubspot_emails"}

OtherTools ==
  [hubspot_pipelines |-> pipelines, hubspot_owners |-> owners,
   hubspot_batch |-> batch, hubspot_associate |-> associate]

Tools ==
  [t \in CrudTools \union DOMAIN OtherTools |->
     IF t \in CrudTools THEN crud ELSE OtherTools[t]]

OtherDocs ==
  [hubspot_pipelines |-> pipelines_doc, hubspot_owners |-> owners_doc,
   hubspot_batch |-> batch_doc, hubspot_associate |-> associate_doc]

Docs ==
  [t \in CrudTools \union DOMAIN OtherDocs |->
     IF t \in CrudTools THEN crud_doc ELSE OtherDocs[t]]

Node ==
  [NodeWith("either", Credentials, Transport, Tools, Docs, InputSchema)
     EXCEPT !.grant = extract_refreshed_token]
=============================================================================
