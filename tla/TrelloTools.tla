---------------------------- MODULE TrelloTools ----------------------------
(***************************************************************************)
(* component-trello: its tools (tools/), what their metadata says          *)
(* (tool_meta.rs), and the credentials of the node (ops.rs).               *)
(***************************************************************************)
EXTENDS ToolTable

Credentials == <<"api_key", "token">>
InputSchema == {"token"}
Transport   == HostTransport(200..299)

cards ==
  [create  |-> Change("POST", {"list_id"}),
   get     |-> Get({"card_id"}),
   update  |-> Change("PUT", {"card_id"}),
   move    |-> Ack("PUT", {"card_id", "list_id"}),
   archive |-> Ack("PUT", {"card_id"}),
   delete  |-> Bodiless(Ack("DELETE", {"card_id"}))]

lists ==
  [list    |-> Get({"board_id"}),
   create  |-> Change("POST", {"board_id"}),
   update  |-> Change("PUT", {"list_id"}),
   archive |-> Ack("PUT", {"list_id"})]

boards ==
  [list |-> Get({}), get |-> Get({"board_id"}), create |-> Change("POST", {})]

checklists ==
  [create      |-> Change("POST", {"card_id"}),
   add_item    |-> Change("POST", {"checklist_id"}),
   update_item |-> Ack("PUT", {"card_id", "checkitem_id"})]

(* Mutant: the answer to a removal is read as a record.                    *)
labels_read_back ==
  [list   |-> Get({"board_id"}),
   add    |-> Ack("POST", {"card_id", "label_id"}),
   remove |-> Bodiless(Change("DELETE", {"card_id", "label_id"}))]

labels ==
  [list   |-> Get({"board_id"}),
   add    |-> Ack("POST", {"card_id", "label_id"}),
   remove |-> Bodiless(Ack("DELETE", {"card_id", "label_id"}))]

comments    == [add |-> Change("POST", {"card_id", "text"}), list |-> Get({"card_id"})]
attachments == [add |-> Change("POST", {"card_id", "url"}), list |-> Get({"card_id"})]
members     == [search |-> Get({"query"}), assign |-> Ack("POST", {"card_id", "member_id"})]

-----------------------------------------------------------------------------
(* The metadata.                                                           *)

cards_doc == Doc("write",
  [create |-> Needs({"list_id"}), get |-> Needs({"card_id"}), update |-> Needs({"card_id"}),
   move |-> Needs({"card_id", "list_id"}), archive |-> Needs({"card_id"}),
   delete |-> Needs({"card_id"})])

lists_doc == Doc("write",
  [list |-> Needs({"board_id"}), create |-> Needs({"board_id"}),
   update |-> Needs({"list_id"}), archive |-> Needs({"list_id"})])

boards_doc == Doc("read",
  [list |-> Needs({}), get |-> Needs({"board_id"}), create |-> Needs({})])

checklists_doc == Doc("write",
  [create |-> Needs({"card_id"}), add_item |-> Needs({"checklist_id"}),
   update_item |-> Needs({"card_id", "checkitem_id"})])

labels_doc == Doc("write",
  [list |-> Needs({"board_id"}), add |-> Needs({"card_id", "label_id"}),
   remove |-> Needs({"card_id", "label_id"})])

comments_doc == Doc("write", [add |-> Needs({"card_id", "text"}), list |-> Needs({"card_id"})])

attachments_doc == Doc("write", [add |-> Needs({"card_id", "url"}), list |-> Needs({"card_id"})])

members_doc == Doc("write",
  [search |-> Needs({"query"}), assign |-> Needs({"card_id", "member_id"})])

-----------------------------------------------------------------------------
Tools ==
  [trello_cards |-> cards, trello_lists |-> lists, trello_boards |-> boards,
   trello_checklists |-> checklists, trello_labels |-> labels,
   trello_comments |-> comments, trello_attachments |-> attachments,
   trello_members |-> members]

Docs ==
  [trello_cards |-> cards_doc, trello_lists |-> lists_doc, trello_boards |-> boards_doc,
   trello_checklists |-> checklists_doc, trello_labels |-> labels_doc,
   trello_comments |-> comments_doc, trello_attachments |-> attachments_doc,
   trello_members |-> members_doc]

Node == NodeWith("static", Credentials, Transport, Tools, Docs, InputSchema)
=============================================================================
