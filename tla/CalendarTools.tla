---------------------------- MODULE CalendarTools --------------------------
(***************************************************************************)
(* component-calendly and component-gcal: their tools (tools/), what their *)
(* metadata says (tool_meta.rs), and the credentials of the nodes          *)
(* (ops.rs): a token of Calendly's, and three secrets from which an access *)
(* token of Google's is obtained on every call.                            *)
(***************************************************************************)
EXTENDS ToolTable

InputSchema == {"token"}

(* component-calendly.                                                     *)
calendly_credentials == <<"token">>
calendly_transport   == HostTransport(200..299)

Owner == {"user", "organization"}

(* A cancellation and a deletion are answered with a body or without one.  *)
MaybeBodiless(call) == [call EXCEPT !.body = "json_or_empty"]

calendly_me          == [get |-> Get({})]
calendly_event_types == [list |-> OneOf(Owner, Get({})), get |-> Get({"uuid"})]

calendly_events ==
  [list   |-> OneOf(Owner, Get({})),
   get    |-> Get({"uuid"}),
   cancel |-> MaybeBodiless(Change("POST", {"uuid"}))]

calendly_invitees == [list |-> Get({"event_uuid"}), get |-> Get({"event_uuid", "invitee_uuid"})]

calendly_scheduling_links == [create |-> Change("POST", {"event_type_uri"})]

calendly_availability ==
  [user_busy_times |-> Get({"user", "start_time", "end_time"}),
   list_schedules  |-> Get({"user"})]

(* webhooks.rs: the call of each operation, and what is made of its answer. *)
webhook_calls ==
  [create |-> Change("POST", {"url", "events", "organization", "scope"}),
   list   |-> Get({"organization", "scope"}),
   delete |-> Bodiless(Change("DELETE", {"uuid"}))]

webhook_answer(op) == IF op = "delete" THEN "json_or_empty" ELSE "json"

calendly_webhooks ==
  [op \in DOMAIN webhook_calls |-> ParsedBy(webhook_answer(op), webhook_calls[op])]

-----------------------------------------------------------------------------
(* The metadata.                                                           *)

calendly_me_doc == Doc("read", [get |-> Needs({})])

calendly_event_types_doc == Doc("read",
  [list |-> [Needs({}) EXCEPT !.one = Owner], get |-> Needs({"uuid"})])

calendly_events_doc == Doc("write",
  [list |-> [Needs({}) EXCEPT !.one = Owner], get |-> Needs({"uuid"}),
   cancel |-> Needs({"uuid"})])

calendly_invitees_doc == Doc("read",
  [list |-> Needs({"event_uuid"}), get |-> Needs({"event_uuid", "invitee_uuid"})])

calendly_scheduling_links_doc == Doc("write", [create |-> Needs({"event_type_uri"})])

calendly_availability_doc == Doc("read",
  [user_busy_times |-> Needs({"user", "start_time", "end_time"}),
   list_schedules |-> Needs({"user"})])

calendly_webhooks_doc == Doc("write",
  [create |-> Needs({"url", "events", "organization", "scope"}),
   list |-> Needs({"organization", "scope"}), delete |-> Needs({"uuid"})])

-----------------------------------------------------------------------------
Calendly ==
  [calendly_me |-> calendly_me, calendly_event_types |-> calendly_event_types,
   calendly_events |-> calendly_events,
   calendly_invitees |-> calendly_invitees,
   calendly_scheduling_links |-> calendly_scheduling_links,
   calendly_availability |-> calendly_availability,
   calendly_webhooks |-> calendly_webhooks]

CalendlyDocs ==
  [calendly_me |-> calendly_me_doc, calendly_event_types |-> calendly_event_types_doc,
   calendly_events |-> calendly_events_doc, calendly_invitees |-> calendly_invitees_doc,
   calendly_scheduling_links |-> calendly_scheduling_links_doc,
   calendly_availability |-> calendly_availability_doc,
   calendly_webhooks |-> calendly_webhooks_doc]

CalendlyNode ==
  NodeWith("static", calendly_credentials, calendly_transport, Calendly,
           CalendlyDocs, InputSchema)

-----------------------------------------------------------------------------
(* component-gcal.                                                         *)
gcal_credentials == <<"oauth_client_id", "oauth_client_secret", "oauth_refresh_token">>
gcal_transport   == HostTransport(200..299)

(* What the token service must answer: JSON with a token.                  *)
extract_refreshed_token == "json"

(* events.rs: the call of each operation ("respond" needs a read before    *)
(* its write: the arm refuses it and leaves it to another function, which  *)
(* this crate does not have)...                                            *)
event_calls ==
  [create    |-> Change("POST", {"event"}),
   search    |-> Get({}),
   get       |-> Get({"event_id"}),
   update    |-> Change("PUT", {"event_id", "event"}),
   delete    |-> Bodiless(Change("DELETE", {"event_id"})),
   quick_add |-> Change("POST", {"text"}),
   respond   |-> Unserved(Change("PATCH", {"event_id", "attendee_email", "response_status"})),
   move      |-> Change("POST", {"event_id", "destination_calendar_id"})]

(* ... and what is made of its answer: an event or a list of them, except  *)
(* that a deletion is taken for done whatever its body.                    *)
event_answer(op) == IF op = "delete" THEN "any" ELSE "json"

gcal_events == [op \in DOMAIN event_calls |-> ParsedBy(event_answer(op), event_calls[op])]

gcal_calendars == [list |-> Get({}), get |-> Get({}), create |-> Change("POST", {"summary"})]
gcal_freebusy  == [query |-> Query({"time_min", "time_max"})]

-----------------------------------------------------------------------------
(* The metadata.                                                           *)

gcal_events_doc == Doc("write",
  [create |-> Needs({"event"}), search |-> Needs({}), get |-> Needs({"event_id"}),
   update |-> Needs({"event_id", "event"}), delete |-> Needs({"event_id"}),
   quick_add |-> Needs({"text"}),
   respond |-> Needs({"event_id", "attendee_email", "response_status"}),
   move |-> Needs({"event_id", "destination_calendar_id"})])

gcal_calendars_doc == Doc("read",
  [list |-> Needs({}), get |-> Needs({}), create |-> Needs({"summary"})])

gcal_freebusy_doc == Doc("read", [query |-> Needs({"time_min", "time_max"})])

-----------------------------------------------------------------------------
Gcal ==
  [gcal_events |-> gcal_events, gcal_calendars |-> gcal_calendars,
   gcal_freebusy |-> gcal_freebusy]

GcalDocs ==
  [gcal_events |-> gcal_events_doc, gcal_calendars |-> gcal_calendars_doc,
   gcal_freebusy |-> gcal_freebusy_doc]

GcalNode ==
  [NodeWith("refresh", gcal_credentials, gcal_transport, Gcal, GcalDocs, InputSchema)
     EXCEPT !.grant = extract_refreshed_token]
=============================================================================
