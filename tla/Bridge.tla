------------------------------- MODULE Bridge -------------------------------
(***************************************************************************)
(* The three nodes between the messaging bus and the flows: msg2events     *)
(* makes an event of a message, pack2flow jumps from one flow to another,  *)
(* and events2msg makes a message of an event.                             *)
(*                                                                         *)
(* An input has every field the code reads; one that is not there is       *)
(* Absent, one of the wrong type Wrong.                                    *)
(***************************************************************************)
EXTENDS Integers, Sequences, FiniteSets, TLC

Absent == "absent"
Wrong  == "wrong"

Text(value) == value \notin {Absent, Wrong}

(* The first of two that is a text; the first of two that is there.        *)
OrElse(value, other)  == IF Text(value) THEN value ELSE other
Present(value, other) == IF value # Absent THEN value ELSE other

(* build_nats_subject: where on the bus, for which tenant.                 *)
Subject(bus, input) ==
  [bus |-> bus, env |-> OrElse(input.env, "default"),
   tenant |-> OrElse(input.tenant, "default"), team |-> OrElse(input.team, "default")]

Refused == [ok |-> FALSE]

----------------------------------------------------------------------------
(* msg2events.                                                             *)

Loads(config) == Wrong \notin {config[f] : f \in DOMAIN config}

determine_event_type(input) ==
  CASE Text(input.activity_type)      -> "activity"
    [] ~ Text(input.activity_type) /\ input.attachments # Absent -> "attachment"
    [] ~ Text(input.activity_type) /\ input.attachments = Absent ->
         IF input.card # Absent THEN "card"
         ELSE IF input.text = "command" THEN "command"
         ELSE "text"

(* The text of an activity replaces the one of the message.                *)
MessageText(input) ==
  IF Text(input.activity_text) THEN input.activity_text
  ELSE IF Text(input.text) THEN input.text
  ELSE IF Text(input.message_text) THEN input.message_text
  ELSE Absent

(* Whether the message itself goes along, when nothing else was found.     *)
extract_message_data(input) ==
  LET extras == {f \in {"attachments", "entities", "reply_to", "activity_from"} : input[f] # Absent}
  IN [text |-> MessageText(input), extras |-> extras,
      raw |-> /\ MessageText(input) = Absent /\ extras = {}
              /\ input.message_text # Absent \/ input.activity_type # Absent]

Source(input) ==
  [provider |-> OrElse(Present(input.source_provider, input.provider), "unknown"),
   channel_id |-> OrElse(input.channel_id, Absent),
   conversation_id |-> OrElse(input.conversation_id, Absent),
   user_id |-> OrElse(Present(input.user_id, input.from_id), Absent)]

extract_event_from_message(input, config) ==
  [event_type |-> OrElse(input.event_type,
                         OrElse(config.default_event_type, determine_event_type(input))),
   source |-> Source(input), data |-> extract_message_data(input)]

msg2events(input, config) ==
  IF ~ Loads(config) THEN Refused
  ELSE [ok |-> TRUE, event |-> extract_event_from_message(input, config),
        target_flow |-> OrElse(input.target_flow, OrElse(config.default_flow, Absent)),
        subject |-> Subject("ingress", input)]

Providers == {"telegram", "slack", "webchat"}
msg2events_valid(input) ==
  /\ input.message_text # Absent \/ input.activity_type # Absent \/ input.text # Absent
  /\ Text(input.source_provider) => input.source_provider \in Providers \union {"email", "sms"}

----------------------------------------------------------------------------
(* pack2flow.  Objects are functions; what is not an object counts as the  *)
(* empty one, and of the two fields for the hints the first that has one   *)
(* counts, so each is a sequence of at most one.  An identifier is good,   *)
(* blank, or of characters it may not have.                                *)

\* Mutant: the defaults of the target win.
DefaultsWin(defaults, current) == defaults @@ current

shallow_merge(defaults, current) ==
  [k \in DOMAIN defaults \union DOMAIN current |->
     IF k \in DOMAIN current THEN current[k] ELSE defaults[k]]

JumpError(code) == [ok |-> FALSE, code |-> code]

jump_error(target) ==
  IF target.flow \in {Absent, Wrong, "blank"} THEN "missing_flow"
  ELSE IF target.flow = "improper" THEN "flow_invalid"
  ELSE CASE target.node = Wrong      -> "invalid_input"
         [] target.node = "blank"    -> "node_empty"
         [] target.node = "improper" -> "node_invalid"
         [] OTHER                    -> "none"

DefaultMaxRedirects == 3  \* DEFAULT_MAX_REDIRECTS
Unset == -1               \* no number is given

execute_pack2flow(payload, input) ==
  IF jump_error(input.target) # "none" THEN JumpError(jump_error(input.target))
  ELSE [ok |-> TRUE, flow |-> input.target.flow, node |-> input.target.node,
        params |-> shallow_merge(input.params, payload),
        hints |-> shallow_merge(input.hints,
                    Head(input.routing_hints \o input.current_hints \o << <<>> >>)),
        max_redirects |-> IF input.max_redirects = Unset THEN DefaultMaxRedirects
                          ELSE input.max_redirects]

----------------------------------------------------------------------------
(* events2msg.                                                             *)

(* An event is optional: a sequence of at most one.                        *)
NoEvent == [text |-> Absent, message |-> Absent, content |-> Absent]

(* A template is filled from the fields of the event, else the first text  *)
(* there is counts.                                                        *)
build_message_from_event(event, input) ==
  IF Text(input.message_template)
  THEN IF Text(event.text) THEN event.text ELSE input.message_template
  ELSE OrElse(input.message, OrElse(event.text, OrElse(event.message,
         OrElse(event.content, Absent))))

events2msg(input, config) ==
  IF ~ Loads(config) THEN Refused
  ELSE LET provider == OrElse(input.target_provider,
                              OrElse(config.default_provider, "webchat"))
       IN [ok |-> TRUE, provider |-> provider,
           channel_id |-> OrElse(input.channel_id, OrElse(config.default_channel, Absent)),
           conversation_id |-> OrElse(input.conversation_id, Absent),
           text |-> build_message_from_event(Head(input.event \o <<NoEvent>>), input),
           subject |-> [address |-> Subject("egress", input), provider |-> provider]]

events2msg_valid(input) ==
  /\ input.event # << >> \/ input.message # Absent
  /\ Text(input.target_provider) => input.target_provider \in Providers
=============================================================================
