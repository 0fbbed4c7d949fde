---------------------------- MODULE Conversation ----------------------------
(***************************************************************************)
(* A message's way through a flow and back: the guardrails on the way in,  *)
(* msg2events, jumps between flows (pack2flow), events2msg, and the        *)
(* guardrails on the way out.                                              *)
(*                                                                         *)
(* The runtime carries what one node hands to the next and is not in the   *)
(* repository; here it passes on the event, its source as the payload of   *)
(* the jumps, the address on the bus, and lets no more jumps happen than   *)
(* max_redirects.  The body is the text in pieces (Guardrails); in         *)
(* messages and events it is "said".                                       *)
(***************************************************************************)
EXTENDS Integers, Sequences, FiniteSets, SequencesExt

CONSTANT
  Starts        \* a message, its body, the guardrails in their order, their
                \* policy, and the flow's configuration: that of the two
                \* nodes, the inputs of pack2flow but for the payload, and
                \* the forms of the reply

G == INSTANCE Guardrails
B == INSTANCE Bridge

Guards == {"pii", "profanity", "secrets", "topic", "injection"}
ASSUME StartsAssumption ==
  \A start \in Starts : start.body \in Seq(G!Pieces) /\ start.chain \in Seq(Guards)

VARIABLES
  pc, message, chain, policy, config,
  next,         \* the guardrail whose turn it is
  said, body,   \* the text before the chain, and now
  routed,       \* what msg2events answered
  params, redirects, limit,
  reply         \* what events2msg answered

conversation == <<message, chain, policy, config, said>>
jumping      == <<params, redirects, limit>>
talking == <<pc, conversation, next, body, routed, jumping, reply>>

Nothing == [ok |-> FALSE]

Arrives(start) ==
  /\ message = start.message /\ said = start.body /\ body = said
  /\ chain = start.chain /\ policy = start.policy /\ config = start.config
  /\ next = 1 /\ pc = "inbound"
  /\ routed = Nothing /\ reply = Nothing
  /\ params = << >> /\ redirects = 0 /\ limit = B!DefaultMaxRedirects

----------------------------------------------------------------------------
Direction == IF pc = "inbound" THEN "inbound" ELSE "outbound"

Verdict == G!evaluate(chain[next], Direction, body, policy)

Guard ==
  /\ pc \in {"inbound", "outbound"} /\ next \in DOMAIN chain
  /\ \/ /\ Verdict.verdict = "accept"
        /\ next' = next + 1 /\ UNCHANGED <<pc, body>>
     \/ /\ Verdict.verdict = "update"
        /\ body' = Verdict.text
        /\ next' = next + 1 /\ UNCHANGED pc
     \/ /\ Verdict.verdict = "deny"
        /\ pc' = "denied" /\ UNCHANGED <<next, body>>
  /\ UNCHANGED <<conversation, routed, jumping, reply>>

(* The flow may have the message checked before it is routed.              *)
RefuseMessage ==
  /\ pc = "inbound" /\ next \notin DOMAIN chain
  /\ ~ B!msg2events_valid(message)
  /\ pc' = "failed"
  /\ UNCHANGED <<conversation, next, body, routed, jumping, reply>>

RouteMessage ==
  /\ pc = "inbound" /\ next \notin DOMAIN chain
  /\ routed' = B!msg2events(message, config.msg2events)
  /\ pc' = IF routed'.ok THEN "flow" ELSE "failed"
  /\ params' = IF routed'.ok THEN routed'.event.source ELSE params
  /\ UNCHANGED <<conversation, next, body, redirects, limit, reply>>

Jump ==
  /\ pc = "flow" /\ redirects < limit
  /\ \E jump \in config.jumps :
       LET control == B!execute_pack2flow(params, jump)
       IN IF control.ok
          THEN /\ params' = control.params
               /\ limit' = control.max_redirects
               /\ redirects' = redirects + 1
               /\ UNCHANGED pc
          ELSE pc' = "failed" /\ UNCHANGED jumping
  /\ UNCHANGED <<conversation, next, body, routed, reply>>

(* The event for the reply has what was said, for where it came from; the  *)
(* flow may have a template for it, or leave it out.                       *)
EventInputs ==
  {[target_provider |-> params.provider, channel_id |-> params.channel_id,
    conversation_id |-> params.conversation_id,
    env |-> routed.subject.env, tenant |-> routed.subject.tenant, team |-> routed.subject.team,
    event |-> IF r.event THEN <<[B!NoEvent EXCEPT !.text = routed.event.data.text]>> ELSE << >>,
    message |-> B!Absent, message_template |-> r.template] : r \in config.replies}

RouteEvent ==
  /\ pc = "flow"
  /\ \E input \in EventInputs :
       /\ reply' = B!events2msg(input, config.events2msg)
       /\ pc' = IF reply'.ok THEN "outbound" ELSE "failed"
  /\ next' = 1
  /\ UNCHANGED <<conversation, body, routed, jumping>>

RefuseEvent ==
  /\ pc = "flow" /\ \E input \in EventInputs : ~ B!events2msg_valid(input)
  /\ pc' = "failed"
  /\ UNCHANGED <<conversation, next, body, routed, jumping, reply>>

Deliver ==
  /\ pc = "outbound" /\ next \notin DOMAIN chain
  /\ pc' = "delivered"
  /\ UNCHANGED <<conversation, next, body, routed, jumping, reply>>

Converse == \/ Guard \/ RefuseMessage \/ RouteMessage \/ Jump
            \/ RouteEvent \/ RefuseEvent \/ Deliver

Conversations == (\E start \in Starts : Arrives(start)) /\ [][Converse]_talking

----------------------------------------------------------------------------
Done == pc = "flow" \/ pc = "delivered"

Keeps(guardrail, text) == G!evaluate(guardrail, "outbound", text, policy).verdict = "accept"

(* The masks are by text, wherever it occurs, so that a mask may uncover   *)
(* what another one passed over.  Two profane words or two secrets in one  *)
(* token are beyond them.  Profanity must be masked first, as its stars    *)
(* may free a secret glued to a word, and personal data last, as any mask  *)
(* may free a number it passed over and it takes the space in front of a   *)
(* number away.  And an entry of a list that is no word, but part of what  *)
(* a mask writes, would be found where the mask has been.                  *)
Profane == G!Profane(policy.extra_blocklist)
Separate(text) ==
  \A token \in G!Words(text), which \in {Profane, G!Keys} :
    \A i, j \in DOMAIN token : token[i] \in which /\ token[j] \in which => i = j
MaskRank == [profanity |-> 1, secrets |-> 2, pii |-> 3]
InOrder ==
  \A i, j \in DOMAIN chain :
    i < j /\ {chain[i], chain[j]} \subseteq DOMAIN MaskRank =>
      MaskRank[chain[i]] < MaskRank[chain[j]]
ListsWords == policy.extra_blocklist \union policy.blocklist \subseteq G!Listed
WithinReach == Separate(said) /\ InOrder /\ ListsWords

(* What the chain of guardrails lets through is clean, whatever one mask   *)
(* does to the text of the next: no secret and no word that was masked     *)
(* where it stood alone is left anywhere, in the case it had there; no     *)
(* address is left; and no guardrail of the chain finds anything more to   *)
(* mask (mask_secrets, mask_profanity, mask_pii).  What stands alone is    *)
(* each guardrail's own matter: a full stop after a key counts as part of  *)
(* it, so that of a key of a fixed length nothing is said then, and        *)
(* mask_secrets lets it through.                                           *)
MaskedTextIsClean ==
  Done /\ WithinReach =>
    LET words == G!Words(said)
    IN /\ \A i \in DOMAIN chain : chain[i] \in DOMAIN MaskRank => Keeps(chain[i], body)
       /\ Contains(chain, "secrets") =>
            \A k \in G!Keys : (\E token \in words : G!Trimmed(token, G!Edges) = <<k>>)
                             => ~ Contains(body, k)
       /\ Contains(chain, "pii") => ~ Contains(body, "mail")
       /\ Contains(chain, "profanity") =>
            \A w \in Profane : <<w>> \in words => ~ Contains(body, w)

(* A reply goes back to where its message came from, through every jump    *)
(* and whatever the targets of the jumps and the nodes have as defaults:   *)
(* the provider in the payload and in the address on the bus, the channel  *)
(* if there was one, the conversation, and the tenant (extract_event,      *)
(* shallow_merge, events2msg's handle_route).                              *)
ReplyReturnsToItsSender ==
  pc = "delivered" /\ B!Text(B!Present(message.source_provider, message.provider)) =>
    /\ reply.provider = B!Present(message.source_provider, message.provider)
    /\ reply.subject.provider = reply.provider
    /\ B!Text(message.channel_id) => reply.channel_id = message.channel_id
    /\ reply.conversation_id = B!OrElse(message.conversation_id, B!Absent)
    /\ \A f \in {"env", "tenant", "team"} :
         reply.subject.address[f] = B!OrElse(message[f], "default")
=============================================================================
