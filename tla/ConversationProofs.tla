-------------------------- MODULE ConversationProofs -------------------------
(***************************************************************************)
(* Theorems about Conversation, for any messages, guardrails, policies,    *)
(* configurations and replies, and any number of jumps with any defaults:  *)
(* a reply returns to its sender, and what the guardrails let through is   *)
(* clean.  The second rests on what each mask does to a text of any length.*)
(***************************************************************************)
EXTENDS Conversation, PositionLemmas, SequenceTheorems, FiniteSetTheorems, TLAPS

-----------------------------------------------------------------------------
(* The inductive invariant: on its way through the jumps the payload keeps *)
(* where the message came from, and the flow knows its tenant; the reply   *)
(* is addressed to both from the moment it is made.                        *)

Sender(m) == B!Present(m.source_provider, m.provider)

CarriesTheSource(payload, m) ==
  /\ {"provider", "channel_id", "conversation_id"} \subseteq DOMAIN payload
  /\ payload.provider = B!OrElse(Sender(m), "unknown")
  /\ payload.channel_id = B!OrElse(m.channel_id, B!Absent)
  /\ payload.conversation_id = B!OrElse(m.conversation_id, B!Absent)

Returns(r, m) ==
  B!Text(Sender(m)) =>
    /\ r.provider = Sender(m)
    /\ r.subject.provider = r.provider
    /\ B!Text(m.channel_id) => r.channel_id = m.channel_id
    /\ r.conversation_id = B!OrElse(m.conversation_id, B!Absent)
    /\ \A f \in {"env", "tenant", "team"} :
         r.subject.address[f] = B!OrElse(m[f], "default")

CInv ==
  /\ pc = "flow" =>
       /\ CarriesTheSource(params, message)
       /\ routed.subject = B!Subject("ingress", message)
  /\ pc \in {"outbound", "delivered"} => Returns(reply, message)

-----------------------------------------------------------------------------
(* The nodes.                                                              *)

LEMMA RoutedCarriesTheSource ==
  ASSUME NEW m, NEW c, B!msg2events(m, c).ok
  PROVE  /\ CarriesTheSource(B!msg2events(m, c).event.source, m)
         /\ B!msg2events(m, c).subject = B!Subject("ingress", m)
<1>1. B!Loads(c)  BY DEF B!msg2events, B!Refused
<1>2. /\ B!msg2events(m, c).event.source = B!Source(m)
      /\ B!msg2events(m, c).subject = B!Subject("ingress", m)
  BY <1>1 DEF B!msg2events, B!extract_event_from_message
<1> QED  BY <1>2 DEF CarriesTheSource, B!Source, Sender

(* Nothing a jump adds replaces what the payload has.                      *)
LEMMA MergeKeeps ==
  ASSUME NEW defaults, NEW current, NEW k \in DOMAIN current
  PROVE  /\ k \in DOMAIN B!shallow_merge(defaults, current)
         /\ B!shallow_merge(defaults, current)[k] = current[k]
BY DEF B!shallow_merge

LEMMA JumpCarriesTheSource ==
  ASSUME NEW payload, NEW input, NEW m, CarriesTheSource(payload, m),
         B!execute_pack2flow(payload, input).ok
  PROVE  CarriesTheSource(B!execute_pack2flow(payload, input).params, m)
<1>1. B!execute_pack2flow(payload, input).params = B!shallow_merge(input.params, payload)
  BY DEF B!execute_pack2flow, B!JumpError
<1>2. {"provider", "channel_id", "conversation_id"} \subseteq DOMAIN payload
  BY DEF CarriesTheSource
<1> QED  BY <1>1, <1>2, MergeKeeps DEF CarriesTheSource

LEMMA ReplyReturns ==
  ASSUME NEW payload, NEW m, NEW input, NEW c, CarriesTheSource(payload, m),
         input.target_provider = payload.provider,
         input.channel_id = payload.channel_id,
         input.conversation_id = payload.conversation_id,
         input.env = B!Subject("ingress", m).env,
         input.tenant = B!Subject("ingress", m).tenant,
         input.team = B!Subject("ingress", m).team,
         B!events2msg(input, c).ok
  PROVE  Returns(B!events2msg(input, c), m)
<1> DEFINE r == B!events2msg(input, c)
           provider == B!OrElse(input.target_provider, B!OrElse(c.default_provider, "webchat"))
           channel  == B!OrElse(input.channel_id, B!OrElse(c.default_channel, B!Absent))
<1>1. B!Loads(c)  BY DEF B!events2msg, B!Refused
<1>2. /\ r.provider = provider /\ r.channel_id = channel
      /\ r.conversation_id = B!OrElse(input.conversation_id, B!Absent)
      /\ r.subject.address = B!Subject("egress", input) /\ r.subject.provider = provider
  BY <1>1 DEF B!events2msg
<1> HIDE DEF r
<1>3. ASSUME NEW x PROVE B!OrElse(B!OrElse(x, B!Absent), B!Absent) = B!OrElse(x, B!Absent)
  BY DEF B!OrElse
<1>4. ASSUME NEW x
      PROVE  B!OrElse(B!OrElse(x, "default"), "default") = B!OrElse(x, "default")
  BY DEF B!OrElse
<1>5. r.conversation_id = B!OrElse(m.conversation_id, B!Absent)
  BY <1>2, <1>3 DEF CarriesTheSource
<1>6. \A f \in {"env", "tenant", "team"} :
        r.subject.address[f] = B!OrElse(m[f], "default")
  BY <1>2, <1>4 DEF B!Subject
<1>7. B!Text(Sender(m)) => r.provider = Sender(m)
  BY <1>2 DEF CarriesTheSource, B!OrElse
<1>8. B!Text(m.channel_id) => r.channel_id = m.channel_id
  BY <1>2 DEF CarriesTheSource, B!OrElse
<1> QED  BY <1>2, <1>5, <1>6, <1>7, <1>8 DEF Returns, r

-----------------------------------------------------------------------------
(* The steps.                                                              *)

LEMMA GuardInv == CInv /\ Guard => CInv'
BY DEF CInv, Guard, conversation, jumping

LEMMA RouteMessageInv == CInv /\ RouteMessage => CInv'
<1> SUFFICES ASSUME CInv, RouteMessage PROVE CInv'  OBVIOUS
<1>1. routed' = B!msg2events(message, config.msg2events) /\ message' = message
  BY DEF RouteMessage, conversation
<1>2. CASE routed'.ok
  <2>1. pc' = "flow" /\ params' = routed'.event.source  BY <1>2 DEF RouteMessage
  <2>2. CarriesTheSource(params', message) /\ routed'.subject = B!Subject("ingress", message)
    BY <1>1, <1>2, <2>1, RoutedCarriesTheSource
  <2> QED  BY <1>1, <2>1, <2>2 DEF CInv
<1>3. CASE ~ routed'.ok
  BY <1>3 DEF CInv, RouteMessage
<1> QED  BY <1>2, <1>3

LEMMA JumpInv == CInv /\ Jump => CInv'
<1> SUFFICES ASSUME CInv, Jump PROVE CInv'  OBVIOUS
<1>1. /\ pc = "flow" /\ message' = message /\ routed' = routed
      /\ CarriesTheSource(params, message) /\ routed.subject = B!Subject("ingress", message)
  BY DEF CInv, Jump, conversation
<1>2. PICK jump \in config.jumps :
        LET control == B!execute_pack2flow(params, jump)
        IN IF control.ok
           THEN /\ params' = control.params
                /\ limit' = control.max_redirects
                /\ redirects' = redirects + 1
                /\ UNCHANGED pc
           ELSE pc' = "failed" /\ UNCHANGED jumping
  BY DEF Jump
<1>3. CASE B!execute_pack2flow(params, jump).ok
  <2>1. pc' = "flow" /\ CarriesTheSource(params', message)
    BY <1>1, <1>2, <1>3, JumpCarriesTheSource
  <2> QED  BY <1>1, <2>1 DEF CInv
<1>4. CASE ~ B!execute_pack2flow(params, jump).ok
  BY <1>2, <1>4 DEF CInv
<1> QED  BY <1>3, <1>4

LEMMA RouteEventInv == CInv /\ RouteEvent => CInv'
<1> SUFFICES ASSUME CInv, RouteEvent PROVE CInv'  OBVIOUS
<1>1. /\ message' = message
      /\ CarriesTheSource(params, message) /\ routed.subject = B!Subject("ingress", message)
  BY DEF CInv, RouteEvent, conversation
<1>2. PICK input \in EventInputs :
        /\ reply' = B!events2msg(input, config.events2msg)
        /\ pc' = IF reply'.ok THEN "outbound" ELSE "failed"
  BY DEF RouteEvent
<1>3. /\ input.target_provider = params.provider /\ input.channel_id = params.channel_id
      /\ input.conversation_id = params.conversation_id
      /\ input.env = routed.subject.env /\ input.tenant = routed.subject.tenant
      /\ input.team = routed.subject.team
  BY DEF EventInputs
<1>4. CASE reply'.ok
  <2>1. Returns(reply', message)  BY <1>1, <1>2, <1>3, <1>4, ReplyReturns
  <2> QED  BY <1>1, <1>2, <1>4, <2>1 DEF CInv
<1>5. CASE ~ reply'.ok
  BY <1>2, <1>5 DEF CInv
<1> QED  BY <1>4, <1>5

LEMMA DeliverInv == CInv /\ Deliver => CInv'
BY DEF CInv, Deliver, conversation

LEMMA RefuseInv == CInv /\ (RefuseMessage \/ RefuseEvent) => CInv'
BY DEF CInv, RefuseMessage, RefuseEvent

LEMMA ConverseInv == CInv /\ [Converse]_talking => CInv'
<1> SUFFICES ASSUME CInv, [Converse]_talking PROVE CInv'  OBVIOUS
<1>1. CASE UNCHANGED talking
  BY <1>1 DEF CInv, talking, conversation, jumping
<1> QED
  BY <1>1, GuardInv, RouteMessageInv, JumpInv, RouteEventInv, DeliverInv, RefuseInv
  DEF Converse

THEOREM SourceIsCarried == Conversations => []CInv
<1>1. (\E start \in Starts : Arrives(start)) => CInv
  BY DEF Arrives, CInv
<1> QED  BY <1>1, ConverseInv, PTL DEF Conversations

(* A reply goes back to where its message came from, through any number of *)
(* jumps with any defaults (shallow_merge, events2msg's handle_route).     *)
THEOREM ReplyReturnsHome == Conversations => []ReplyReturnsToItsSender
<1>1. CInv => ReplyReturnsToItsSender
  BY DEF CInv, Returns, Sender, ReplyReturnsToItsSender
<1> QED  BY <1>1, SourceIsCarried, PTL

-----------------------------------------------------------------------------
(* Texts rewritten (Rewritten, Replaced, InTurn).                          *)

(* Where what begins at a position may end.                                *)
Ends(text, ends) == \A i \in 1 .. Len(text) : ends[i] = 0 \/ ends[i] \in i .. Len(text)

(* The rest of a text from a position on, rewritten.                       *)
Rest(text, ends, new, from, i) ==
  IF i > Len(text) THEN <<>>
  ELSE IF ends[i] # 0 THEN new \o from[ends[i] + 1]
  ELSE <<text[i]>> \o from[i + 1]

(* What Rewritten computes, from the last position to the first.           *)
LEMMA RewrittenSteps ==
  ASSUME NEW text \in Seq(G!Pieces), NEW ends, Ends(text, ends), NEW new
  PROVE  \E from : /\ G!Rewritten(text, ends, new) = from[1]
                   /\ \A i \in 1 .. Len(text) + 1 : from[i] = Rest(text, ends, new, from, i)
<1> DEFINE n == Len(text)
           Trail(f, m) == [i \in m .. n + 1 |-> Rest(text, ends, new, f, i)]
           s == CHOOSE f : f = Trail(f, 1)
<1>1. n \in Nat  OBVIOUS
<1>2. G!Rewritten(text, ends, new) = s[1]  BY DEF G!Rewritten, Rest
<1>3. \A i \in 1 .. n : ends[i] = 0 \/ ends[i] \in i .. n  BY DEF Ends
<1>4. \E f : f = Trail(f, 1)
  <2> DEFINE Lacking == {d \in 0 .. n : ~ \E f : f = Trail(f, n + 1 - d)}
  <2>1. SUFFICES ASSUME Lacking # {} PROVE FALSE
    <3>1. n \in 0 .. n /\ n + 1 - n = 1  BY <1>1
    <3> QED  BY <2>1, <3>1
  <2>2. PICK d \in Lacking : \A e \in Lacking : d =< e
    <3>1. Lacking \subseteq Nat  BY <1>1
    <3> HIDE DEF Lacking
    <3> QED  BY <2>1, <3>1, LeastExists
  <2> DEFINE m == n + 1 - d
  <2>3. d \in 0 .. n /\ m \in 1 .. n + 1 /\ ~ \E f : f = Trail(f, m)
    BY <1>1, <2>2
  <2>4. d # 0
    <3> DEFINE g == [i \in n + 1 .. n + 1 |-> <<>>]
    <3>1. \A i \in n + 1 .. n + 1 : Rest(text, ends, new, g, i) = <<>>
      BY <1>1 DEF Rest
    <3>2. g = Trail(g, n + 1)  BY <3>1
    <3>3. \E f : f = Trail(f, n + 1)  BY <3>2
    <3>4. d = 0 => m = n + 1  BY <1>1
    <3> HIDE DEF Trail, m
    <3> QED  BY <2>3, <3>3, <3>4
  <2>5. PICK f : f = Trail(f, m + 1)
    <3>1. d - 1 \in 0 .. n /\ ~ (d =< d - 1) /\ n + 1 - (d - 1) = m + 1
      BY <1>1, <2>3, <2>4
    <3>2. d - 1 \notin Lacking
      <4> HIDE DEF Lacking
      <4> QED  BY <2>2, <3>1
    <3> HIDE DEF Trail
    <3> QED  BY <3>1, <3>2
  <2> DEFINE g == [i \in m .. n + 1 |-> IF i = m THEN Rest(text, ends, new, f, m) ELSE f[i]]
  <2>6. m \in 1 .. n  BY <1>1, <2>3, <2>4
  <2> HIDE DEF m
  <2>7. ASSUME NEW i \in m .. n + 1
        PROVE  g[i] = Rest(text, ends, new, g, i)
    <3>1. \A j \in m + 1 .. n + 1 : g[j] = f[j]  BY <1>1, <2>6
    <3>2. \A j \in m + 1 .. n + 1 : f[j] = Rest(text, ends, new, f, j)
      BY <1>1, <2>5, <2>6
    <3>3. i =< n => /\ ends[i] # 0 => ends[i] + 1 \in m + 1 .. n + 1
                    /\ i + 1 \in m + 1 .. n + 1
      BY <1>1, <1>3, <2>6
    <3>4. Rest(text, ends, new, g, i) = Rest(text, ends, new, f, i)
      <4> HIDE DEF g
      <4>1. CASE i > n  BY <4>1 DEF Rest
      <4>2. CASE i =< n /\ ends[i] # 0
        <5>1. g[ends[i] + 1] = f[ends[i] + 1]  BY <3>1, <3>3, <4>2
        <5> QED  BY <4>2, <5>1 DEF Rest
      <4>3. CASE i =< n /\ ends[i] = 0
        <5>1. g[i + 1] = f[i + 1]  BY <3>1, <3>3, <4>3
        <5> QED  BY <4>3, <5>1 DEF Rest
      <4> QED  BY <1>1, <2>6, <4>1, <4>2, <4>3
    <3>5. g[i] = Rest(text, ends, new, f, i)
      BY <1>1, <2>6, <3>1, <3>2
    <3> QED  BY <3>4, <3>5
  <2>8. g = Trail(g, m)
    <3>1. g = [i \in m .. n + 1 |-> g[i]]  OBVIOUS
    <3> HIDE DEF g
    <3> QED  BY <2>7, <3>1
  <2> QED  BY <2>3, <2>8 DEF m
<1>5. s = Trail(s, 1)
  <2> HIDE DEF Trail
  <2> QED  BY <1>4
<1>6. \A i \in 1 .. n + 1 : s[i] = Rest(text, ends, new, s, i)
  <2> HIDE DEF s
  <2> QED  BY <1>5
<1> HIDE DEF s
<1> QED  BY <1>2, <1>6

(* Where the rewriting goes on after position i, and what it puts there.   *)
After(ends, i) == IF ends[i] # 0 THEN ends[i] + 1 ELSE i + 1

(* A sequence with one more in front.                                      *)
LEMMA Prepended ==
  ASSUME NEW S, NEW e \in S, NEW s \in Seq(S)
  PROVE  /\ <<e>> \o s \in Seq(S) /\ Len(<<e>> \o s) = Len(s) + 1
         /\ (<<e>> \o s)[1] = e
         /\ \A k \in 2 .. Len(s) + 1 : (<<e>> \o s)[k] = s[k - 1]
<1> DEFINE one == <<e>>
<1>1. one \in Seq(S) /\ Len(one) = 1 /\ one[1] = e  OBVIOUS
<1> HIDE DEF one
<1>2. /\ one \o s \in Seq(S) /\ Len(one \o s) = Len(one) + Len(s)
      /\ \A i \in 1 .. Len(one) + Len(s) :
           (one \o s)[i] = IF i =< Len(one) THEN one[i] ELSE s[i - Len(one)]
  BY <1>1, ConcatProperties
<1>3. Len(s) \in Nat  OBVIOUS
<1> DEFINE both == one \o s
<1>4. both[1] = e /\ \A k \in 2 .. Len(s) + 1 : both[k] = s[k - 1]
  <2> HIDE DEF both
  <2>1. \A i \in 1 .. 1 + Len(s) : both[i] = IF i =< 1 THEN one[i] ELSE s[i - 1]
    BY <1>1, <1>2 DEF both
  <2> QED  BY <1>1, <1>3, <2>1
<1> QED  BY <1>1, <1>2, <1>3, <1>4 DEF one

(* Every piece of `out` is put where h says: the rewriting of what begins  *)
(* at i with a single piece for every hit.                                 *)
Trace(text, ends, piece, i, out, m, h) ==
  /\ m \in Nat /\ out \in Seq(G!Pieces) /\ Len(out) = m
  /\ h \in [1 .. m + 1 -> i .. Len(text) + 1]
  /\ h[1] = i /\ h[m + 1] = Len(text) + 1
  /\ \A k \in 1 .. m :
       /\ h[k] \in 1 .. Len(text) /\ h[k + 1] = After(ends, h[k])
       /\ out[k] = IF ends[h[k]] # 0 THEN piece ELSE text[h[k]]

(* The rewriting goes forward.                                             *)
LEMMA AfterIsLater ==
  ASSUME NEW text \in Seq(G!Pieces), NEW ends, Ends(text, ends), NEW i \in 1 .. Len(text)
  PROVE  After(ends, i) \in i + 1 .. Len(text) + 1
<1>1. i \in 1 .. Len(text) /\ Len(text) \in Nat /\ (ends[i] = 0 \/ ends[i] \in i .. Len(text))
  BY DEF Ends
<1>2. CASE ends[i] = 0  BY <1>1, <1>2 DEF After
<1>3. CASE ends[i] \in i .. Len(text)  BY <1>1, <1>3 DEF After
<1> QED  BY <1>1, <1>2, <1>3

(* A trace of the rest makes one that begins a hit or a piece earlier.     *)
LEMMA TracePrepend ==
  ASSUME NEW text \in Seq(G!Pieces), NEW ends, NEW piece \in G!Pieces, Ends(text, ends),
         NEW i \in 1 .. Len(text), NEW rest, NEW m, NEW h,
         Trace(text, ends, piece, After(ends, i), rest, m, h)
  PROVE  \E g : Trace(text, ends, piece, i,
                      <<IF ends[i] # 0 THEN piece ELSE text[i]>> \o rest, m + 1, g)
<1> DEFINE n == Len(text)
           put == IF ends[i] # 0 THEN piece ELSE text[i]
           out == <<put>> \o rest
           j == After(ends, i)
           g == [k \in 1 .. m + 2 |-> IF k = 1 THEN i ELSE h[k - 1]]
<1>1. n \in Nat /\ i \in 1 .. n /\ j \in i + 1 .. n + 1 /\ put \in G!Pieces
  <2>1. text[i] \in G!Pieces  OBVIOUS
  <2>2. j \in i + 1 .. n + 1  BY AfterIsLater
  <2> HIDE DEF j
  <2> QED  BY <2>1, <2>2
<1>2. /\ m \in Nat /\ rest \in Seq(G!Pieces) /\ Len(rest) = m
      /\ h \in [1 .. m + 1 -> j .. n + 1] /\ h[1] = j /\ h[m + 1] = n + 1
      /\ \A k \in 1 .. m :
           /\ h[k] \in 1 .. n /\ h[k + 1] = After(ends, h[k])
           /\ rest[k] = IF ends[h[k]] # 0 THEN piece ELSE text[h[k]]
  BY DEF Trace
<1>3. g[1] = i /\ g[m + 2] = n + 1 /\ \A k \in 2 .. m + 2 : g[k] = h[k - 1]
  BY <1>2
<1>4. g \in [1 .. m + 2 -> i .. n + 1]
  <2>1. \A k \in 1 .. m + 1 : h[k] \in i .. n + 1  BY <1>1, <1>2
  <2>2. \A k \in 1 .. m + 2 : g[k] \in i .. n + 1
    BY <1>1, <1>2, <2>1
  <2> QED  BY <2>2
<1>5. /\ out \in Seq(G!Pieces) /\ Len(out) = m + 1 /\ out[1] = put
      /\ \A k \in 2 .. m + 1 : out[k] = rest[k - 1]
  <2> HIDE DEF put
  <2>1. out = <<put>> \o rest  OBVIOUS
  <2> HIDE DEF out
  <2> QED  BY <1>1, <1>2, <2>1, Prepended
<1>6. ASSUME NEW k \in 1 .. m + 1
      PROVE  /\ g[k] \in 1 .. n /\ g[k + 1] = After(ends, g[k])
             /\ out[k] = IF ends[g[k]] # 0 THEN piece ELSE text[g[k]]
  <2>1. CASE k = 1
    <3>1. 2 \in 2 .. m + 2 /\ g[2] = h[2 - 1] /\ 2 - 1 = 1 /\ 1 + 1 = 2  BY <1>2, <1>3
    <3> HIDE DEF g, out
    <3> QED  BY <1>1, <1>2, <1>3, <1>5, <2>1, <3>1
  <2>2. CASE k # 1
    <3>1. k - 1 \in 1 .. m /\ k \in 2 .. m + 1 /\ k \in 2 .. m + 2 /\ k + 1 \in 2 .. m + 2
      BY <1>2, <2>2
    <3>2. g[k] = h[k - 1] /\ g[k + 1] = h[k] /\ out[k] = rest[k - 1] /\ (k - 1) + 1 = k
      BY <1>3, <1>5, <3>1
    <3> HIDE DEF g, out
    <3> QED  BY <1>2, <3>1, <3>2
  <2> QED  BY <2>1, <2>2
<1>7. m + 1 \in Nat /\ (m + 1) + 1 = m + 2  BY <1>2
<1> HIDE DEF g, out, put
<1>8. Trace(text, ends, piece, i, out, m + 1, g)
  BY <1>3, <1>4, <1>5, <1>6, <1>7 DEF Trace
<1> QED  BY <1>8 DEF out, put

(* A rewriting with one piece for every hit has a trace.                   *)
LEMMA RewrittenOne ==
  ASSUME NEW text \in Seq(G!Pieces), NEW ends, NEW piece \in G!Pieces, Ends(text, ends)
  PROVE  \E m, h : Trace(text, ends, piece, 1, G!Rewritten(text, ends, <<piece>>), m, h)
<1> DEFINE n == Len(text)
<1>1. PICK from :
        /\ G!Rewritten(text, ends, <<piece>>) = from[1]
        /\ \A i \in 1 .. n + 1 : from[i] = Rest(text, ends, <<piece>>, from, i)
  BY RewrittenSteps
<1> DEFINE Traced(i) == \E m, h : Trace(text, ends, piece, i, from[i], m, h)
           Bad == {d \in 0 .. n : ~ Traced(n + 1 - d)}
<1>2. n \in Nat  OBVIOUS
<1>3. SUFFICES ASSUME Bad # {} PROVE FALSE
  <2>1. n \in 0 .. n /\ n + 1 - n = 1  BY <1>2
  <2>2. n \notin Bad  BY <1>3
  <2>3. Traced(n + 1 - n)
    <3> HIDE DEF Traced
    <3> QED  BY <2>1, <2>2
  <2>4. Traced(1)
    <3> HIDE DEF Traced
    <3> QED  BY <2>1, <2>3
  <2> QED  BY <1>1, <2>4
<1>4. PICK d \in Bad : \A e \in Bad : d =< e
  <2>1. Bad \subseteq Nat  BY <1>2
  <2> HIDE DEF Bad
  <2> QED  BY <1>3, <2>1, LeastExists
<1>5. d \in 0 .. n /\ ~ Traced(n + 1 - d)  BY <1>4
<1>6. Traced(n + 1)
  <2>1. from[n + 1] = <<>>
    <3>1. n + 1 \in 1 .. n + 1 /\ n + 1 > n  BY <1>2
    <3> QED  BY <1>1, <3>1 DEF Rest
  <2> DEFINE h == [k \in 1 .. 0 + 1 |-> n + 1]
  <2>2. h[1] = n + 1 /\ h[0 + 1] = n + 1 /\ h \in [1 .. 0 + 1 -> n + 1 .. n + 1]
    BY <1>2
  <2>3. <<>> \in Seq(G!Pieces) /\ Len(<<>>) = 0 /\ 0 \in Nat /\ 1 .. 0 = {}  OBVIOUS
  <2> HIDE DEF h
  <2>4. Trace(text, ends, piece, n + 1, <<>>, 0, h)
    BY <2>2, <2>3 DEF Trace
  <2> QED  BY <2>1, <2>4
<1> DEFINE i == n + 1 - d
<1>7. d # 0
  <2>1. d = 0 => n + 1 - d = n + 1  BY <1>2
  <2> HIDE DEF Traced
  <2> QED  BY <1>5, <1>6, <2>1
<1>8. i \in 1 .. n /\ i \in 1 .. n + 1 /\ ~ Traced(i)
  <2>1. i \in 1 .. n /\ i \in 1 .. n + 1  BY <1>2, <1>5, <1>7
  <2> QED  BY <1>5, <2>1
<1> DEFINE j == After(ends, i)
           e == n + 1 - j
<1>9. j \in i + 1 .. n + 1 /\ e \in 0 .. n /\ n + 1 - e = j /\ ~ (d =< e)
  <2>1. j \in i + 1 .. n + 1  BY <1>8, AfterIsLater
  <2>2. i \in 1 .. n  BY <1>8
  <2>3. d \in 0 .. n  BY <1>5
  <2> HIDE DEF j, Traced
  <2> QED  BY <1>2, <2>1, <2>2, <2>3
<1>10. Traced(j)
  <2>1. e \notin Bad
    <3> HIDE DEF Bad, e
    <3> QED  BY <1>4, <1>9
  <2> HIDE DEF Traced, e
  <2> QED  BY <1>9, <2>1
<1>11. from[i] = <<IF ends[i] # 0 THEN piece ELSE text[i]>> \o from[j]
  <2>1. i =< n /\ from[i] = Rest(text, ends, <<piece>>, from, i)
    <3> HIDE DEF i, Traced
    <3> QED  BY <1>1, <1>2, <1>8
  <2> HIDE DEF i
  <2>2. CASE ends[i] # 0  BY <1>2, <1>8, <2>1, <2>2 DEF Rest, After
  <2>3. CASE ends[i] = 0  BY <1>2, <1>8, <2>1, <2>3 DEF Rest, After
  <2> QED  BY <2>2, <2>3
<1>12. Traced(i)
  <2> HIDE DEF i
  <2>1. PICK m, h : Trace(text, ends, piece, j, from[j], m, h)  BY <1>10
  <2>2. \E g : Trace(text, ends, piece, i, from[i], m + 1, g)
    BY <1>8, <1>11, <2>1, TracePrepend
  <2> QED  BY <2>2
<1> QED  BY <1>8, <1>12

(* The positions of a trace increase.                                      *)
LEMMA TraceIncreases ==
  ASSUME NEW text \in Seq(G!Pieces), NEW ends, NEW piece, Ends(text, ends),
         NEW i \in Nat, NEW out, NEW m, NEW h, Trace(text, ends, piece, i, out, m, h),
         NEW j \in 1 .. m + 1
  PROVE  \A k \in 1 .. m + 1 : j < k => h[j] < h[k]
<1> DEFINE Bad == {k \in 1 .. m + 1 : j < k /\ ~ (h[j] < h[k])}
<1>1. SUFFICES ASSUME Bad # {} PROVE FALSE
  OBVIOUS
<1>2. PICK k \in Bad : \A e \in Bad : k =< e
  <2>1. Bad \subseteq Nat  OBVIOUS
  <2> HIDE DEF Bad
  <2> QED  BY <1>1, <2>1, LeastExists
<1>3. /\ m \in Nat /\ h \in [1 .. m + 1 -> i .. Len(text) + 1] /\ Len(text) \in Nat
      /\ \A e \in 1 .. m : h[e] \in 1 .. Len(text) /\ h[e + 1] = After(ends, h[e])
  BY DEF Trace
<1>4. k \in 1 .. m + 1 /\ j < k /\ ~ (h[j] < h[k]) /\ k - 1 \in 1 .. m /\ (k - 1) + 1 = k
  BY <1>2, <1>3
<1>5. h[k - 1] < h[k]
  <2>1. h[k - 1] \in 1 .. Len(text) /\ h[k] = After(ends, h[k - 1])  BY <1>3, <1>4
  <2> QED  BY <1>3, <2>1, AfterIsLater
<1>6. h[j] \in Int /\ h[k] \in Int /\ h[k - 1] \in Int  BY <1>3, <1>4
<1>7. CASE j = k - 1  BY <1>4, <1>5, <1>7
<1>8. CASE j # k - 1
  <2>1. k - 1 \in 1 .. m + 1 /\ j < k - 1 /\ ~ (k =< k - 1)  BY <1>3, <1>4, <1>8
  <2>2. k - 1 \notin Bad
    <3> HIDE DEF Bad
    <3> QED  BY <1>2, <2>1
  <2>3. h[j] < h[k - 1]  BY <2>1, <2>2
  <2> QED  BY <1>4, <1>5, <1>6, <2>3
<1> QED  BY <1>7, <1>8

(* Every position is either put somewhere, or within a hit.                *)
LEMMA TraceCovers ==
  ASSUME NEW text \in Seq(G!Pieces), NEW ends, NEW piece, Ends(text, ends),
         NEW i \in Nat, NEW out, NEW m, NEW h, Trace(text, ends, piece, i, out, m, h),
         NEW p \in i .. Len(text)
  PROVE  \E k \in 1 .. m : h[k] =< p /\ p < After(ends, h[k])
<1> DEFINE Beyond == {k \in 1 .. m + 1 : p < h[k]}
<1>1. /\ m \in Nat /\ h \in [1 .. m + 1 -> i .. Len(text) + 1] /\ Len(text) \in Nat
      /\ h[1] = i /\ h[m + 1] = Len(text) + 1
      /\ \A e \in 1 .. m : h[e + 1] = After(ends, h[e])
  BY DEF Trace
<1>2. PICK k \in Beyond : \A e \in Beyond : k =< e
  <2>1. Beyond \subseteq Nat /\ m + 1 \in Beyond  BY <1>1
  <2> HIDE DEF Beyond
  <2> QED  BY <2>1, LeastExists
<1>3. k \in 1 .. m + 1 /\ p < h[k]  BY <1>2
<1>4. k # 1  BY <1>1, <1>3
<1>5. k - 1 \in 1 .. m /\ k - 1 \in 1 .. m + 1 /\ (k - 1) + 1 = k /\ ~ (k =< k - 1)
  BY <1>1, <1>3, <1>4
<1>6. k - 1 \notin Beyond
  <2> HIDE DEF Beyond
  <2> QED  BY <1>2, <1>5
<1>7. h[k - 1] \in Int /\ ~ (p < h[k - 1]) /\ h[k] = After(ends, h[k - 1])
  BY <1>1, <1>5, <1>6
<1>8. h[k - 1] =< p  BY <1>7
<1> QED  BY <1>3, <1>5, <1>7, <1>8

(* The rewriting of what begins at i by as many pieces as every hit has:   *)
(* V are the positions it looks at.                                        *)
Visits(text, ends, new, i, out, V) ==
  /\ out \in Seq(G!Pieces) /\ Len(out) = Len(text) + 1 - i
  /\ V \subseteq i .. Len(text) + 1 /\ i \in V
  /\ \A v \in V : v =< Len(text) =>
       /\ After(ends, v) \in V
       /\ IF ends[v] # 0 THEN \A k \in v .. ends[v] : out[k + 1 - i] = new[k + 1 - v]
                         ELSE out[v + 1 - i] = text[v]
  /\ \A p \in i .. Len(text) : \E v \in V : v =< p /\ p < After(ends, v)

AsLong(text, ends, new) ==
  \A i \in 1 .. Len(text) : ends[i] # 0 => ends[i] + 1 - i = Len(new)

(* What a hit adds to the rewriting of the rest.                           *)
LEMMA VisitHit ==
  ASSUME NEW text \in Seq(G!Pieces), NEW ends, NEW new \in Seq(G!Pieces), Ends(text, ends),
         AsLong(text, ends, new), NEW i \in 1 .. Len(text), ends[i] # 0, NEW rest, NEW V,
         Visits(text, ends, new, ends[i] + 1, rest, V)
  PROVE  Visits(text, ends, new, i, new \o rest, V \union {i})
<1> DEFINE n == Len(text)
           j == ends[i] + 1
           l == Len(new)
           out == new \o rest
           W == V \union {i}
<1>1. n \in Nat /\ i \in 1 .. n /\ j \in i + 1 .. n + 1 /\ l = j - i /\ l \in Nat
      /\ After(ends, i) = j
  BY DEF Ends, AsLong, After
<1>2. /\ rest \in Seq(G!Pieces) /\ Len(rest) = n + 1 - j
      /\ V \subseteq j .. n + 1 /\ j \in V
      /\ \A v \in V : v =< n =>
           /\ After(ends, v) \in V
           /\ IF ends[v] # 0 THEN \A k \in v .. ends[v] : rest[k + 1 - j] = new[k + 1 - v]
                             ELSE rest[v + 1 - j] = text[v]
      /\ \A p \in j .. n : \E v \in V : v =< p /\ p < After(ends, v)
  BY DEF Visits
<1>3. /\ out \in Seq(G!Pieces) /\ Len(out) = n + 1 - i
      /\ \A k \in 1 .. n + 1 - i : out[k] = IF k =< l THEN new[k] ELSE rest[k - l]
  <2>1. /\ out \in Seq(G!Pieces) /\ Len(out) = l + Len(rest)
        /\ \A k \in 1 .. l + Len(rest) : out[k] = IF k =< l THEN new[k] ELSE rest[k - l]
    BY <1>2, ConcatProperties
  <2>2. l + Len(rest) = n + 1 - i  BY <1>1, <1>2
  <2> HIDE DEF out, l
  <2> QED  BY <2>1, <2>2
<1>4. ASSUME NEW p \in j .. n PROVE out[p + 1 - i] = rest[p + 1 - j]
  <2>1. p + 1 - i \in 1 .. n + 1 - i /\ ~ (p + 1 - i =< l) /\ p + 1 - i - l = p + 1 - j
    <3> HIDE DEF j, l
    <3> QED  BY <1>1
  <2> HIDE DEF out, l, j
  <2> DEFINE q == p + 1 - i
  <2>2. q \in 1 .. n + 1 - i /\ ~ (q =< l)  BY <2>1
  <2> HIDE DEF q
  <2>3. out[q] = rest[q - l]  BY <1>3, <2>2
  <2>4. q - l = p + 1 - j  BY <1>1, <2>1 DEF q
  <2>5. out[q] = rest[p + 1 - j]  BY <2>3, <2>4
  <2> QED  BY <2>5 DEF q
<1>5. ASSUME NEW k \in i .. ends[i] PROVE out[k + 1 - i] = new[k + 1 - i]
  <2>1. k + 1 - i \in 1 .. n + 1 - i /\ k + 1 - i =< l
    <3>1. k \in i .. j - 1
      <4>1. ends[i] = 0 \/ ends[i] \in i .. Len(text)  BY DEF Ends
      <4>2. ends[i] = j - 1  BY <1>1, <4>1
      <4> HIDE DEF j
      <4> QED  BY <4>2
    <3> HIDE DEF j, l
    <3> QED  BY <1>1, <3>1
  <2> HIDE DEF out, l
  <2> QED  BY <1>3, <2>1
<1> HIDE DEF out, l
<1>6. W \subseteq i .. n + 1 /\ i \in W  BY <1>1, <1>2
<1>7. ASSUME NEW v \in W, v =< n
      PROVE  /\ After(ends, v) \in W
             /\ IF ends[v] # 0 THEN \A k \in v .. ends[v] : out[k + 1 - i] = new[k + 1 - v]
                               ELSE out[v + 1 - i] = text[v]
  <2>1. CASE v = i  BY <1>1, <1>2, <1>5, <2>1
  <2>2. CASE v \in V
    <3>1. v \in j .. n /\ v \in 1 .. n  BY <1>1, <1>2, <1>7, <2>2
    <3>2. ends[v] # 0 => ends[v] \in v .. n  BY <3>1 DEF Ends
    <3>3. CASE ends[v] # 0
      <4>1. ASSUME NEW k \in v .. ends[v] PROVE out[k + 1 - i] = new[k + 1 - v]
        <5>1. k \in j .. n  BY <1>1, <3>1, <3>2, <3>3
        <5> QED  BY <1>2, <1>4, <1>7, <2>2, <3>3, <5>1
      <4> QED  BY <1>2, <1>7, <2>2, <3>3, <4>1
    <3>4. CASE ends[v] = 0
      BY <1>2, <1>4, <1>7, <2>2, <3>1, <3>4
    <3> QED  BY <3>3, <3>4
  <2> QED  BY <2>1, <2>2
<1>8. ASSUME NEW p \in i .. n PROVE \E v \in W : v =< p /\ p < After(ends, v)
  <2>1. CASE p < j  BY <1>1, <2>1
  <2>2. CASE ~ (p < j)
    <3>1. p \in j .. n  BY <1>1, <2>2
    <3> QED  BY <1>2, <3>1
  <2> QED  BY <2>1, <2>2
<1> HIDE DEF W
<1>9. Visits(text, ends, new, i, out, W)
  BY <1>3, <1>6, <1>7, <1>8 DEF Visits
<1> QED  BY <1>9 DEF out, W

(* What a piece that is not hit adds to it.                                *)
LEMMA VisitPiece ==
  ASSUME NEW text \in Seq(G!Pieces), NEW ends, NEW new \in Seq(G!Pieces), Ends(text, ends),
         NEW i \in 1 .. Len(text), ends[i] = 0, NEW rest, NEW V,
         Visits(text, ends, new, i + 1, rest, V)
  PROVE  Visits(text, ends, new, i, <<text[i]>> \o rest, V \union {i})
<1> DEFINE n == Len(text)
           j == i + 1
           out == <<text[i]>> \o rest
           W == V \union {i}
<1>1. n \in Nat /\ i \in 1 .. n /\ j \in i + 1 .. n + 1 /\ After(ends, i) = j
      /\ text[i] \in G!Pieces
  BY DEF After
<1>2. /\ rest \in Seq(G!Pieces) /\ Len(rest) = n + 1 - j
      /\ V \subseteq j .. n + 1 /\ j \in V
      /\ \A v \in V : v =< n =>
           /\ After(ends, v) \in V
           /\ IF ends[v] # 0 THEN \A k \in v .. ends[v] : rest[k + 1 - j] = new[k + 1 - v]
                             ELSE rest[v + 1 - j] = text[v]
      /\ \A p \in j .. n : \E v \in V : v =< p /\ p < After(ends, v)
  BY DEF Visits
<1>3. /\ out \in Seq(G!Pieces) /\ Len(out) = n + 1 - i
      /\ out[1] = text[i] /\ \A k \in 2 .. n + 1 - i : out[k] = rest[k - 1]
  <2>1. /\ out \in Seq(G!Pieces) /\ Len(out) = Len(rest) + 1 /\ out[1] = text[i]
        /\ \A k \in 2 .. Len(rest) + 1 : out[k] = rest[k - 1]
    BY <1>1, <1>2, Prepended
  <2>2. Len(rest) + 1 = n + 1 - i  BY <1>1, <1>2
  <2> HIDE DEF out
  <2> QED  BY <2>1, <2>2
<1>4. ASSUME NEW p \in j .. n PROVE out[p + 1 - i] = rest[p + 1 - j]
  <2>1. p + 1 - i \in 2 .. n + 1 - i /\ p + 1 - i - 1 = p + 1 - j
    BY <1>1
  <2> HIDE DEF out
  <2> QED  BY <1>3, <2>1
<1> HIDE DEF out
<1>6. W \subseteq i .. n + 1 /\ i \in W  BY <1>1, <1>2
<1>7. ASSUME NEW v \in W, v =< n
      PROVE  /\ After(ends, v) \in W
             /\ IF ends[v] # 0 THEN \A k \in v .. ends[v] : out[k + 1 - i] = new[k + 1 - v]
                               ELSE out[v + 1 - i] = text[v]
  <2>1. CASE v = i
    <3>1. i + 1 - i = 1  BY <1>1
    <3> QED  BY <1>1, <1>2, <1>3, <2>1, <3>1
  <2>2. CASE v \in V
    <3>1. v \in j .. n /\ v \in 1 .. n  BY <1>1, <1>2, <1>7, <2>2
    <3>2. ends[v] # 0 => ends[v] \in v .. n  BY <3>1 DEF Ends
    <3>3. CASE ends[v] # 0
      <4>1. ASSUME NEW k \in v .. ends[v] PROVE out[k + 1 - i] = new[k + 1 - v]
        <5>1. k \in j .. n  BY <1>1, <3>1, <3>2, <3>3
        <5> QED  BY <1>2, <1>4, <1>7, <2>2, <3>3, <5>1
      <4> QED  BY <1>2, <1>7, <2>2, <3>3, <4>1
    <3>4. CASE ends[v] = 0
      BY <1>2, <1>4, <1>7, <2>2, <3>1, <3>4
    <3> QED  BY <3>3, <3>4
  <2> QED  BY <2>1, <2>2
<1>8. ASSUME NEW p \in i .. n PROVE \E v \in W : v =< p /\ p < After(ends, v)
  <2>1. CASE p < j  BY <1>1, <2>1
  <2>2. CASE ~ (p < j)
    <3>1. p \in j .. n  BY <1>1, <2>2
    <3> QED  BY <1>2, <3>1
  <2> QED  BY <2>1, <2>2
<1> HIDE DEF W
<1>9. Visits(text, ends, new, i, out, W)
  BY <1>3, <1>6, <1>7, <1>8 DEF Visits
<1> QED  BY <1>9 DEF out, W

(* A rewriting that keeps the length puts everything at its place.         *)
LEMMA RewrittenAsLong ==
  ASSUME NEW text \in Seq(G!Pieces), NEW ends, NEW new \in Seq(G!Pieces), Ends(text, ends),
         AsLong(text, ends, new)
  PROVE  \E V : Visits(text, ends, new, 1, G!Rewritten(text, ends, new), V)
<1> DEFINE n == Len(text)
<1>1. PICK from :
        /\ G!Rewritten(text, ends, new) = from[1]
        /\ \A i \in 1 .. n + 1 : from[i] = Rest(text, ends, new, from, i)
  BY RewrittenSteps
<1> DEFINE Visited(i) == \E V : Visits(text, ends, new, i, from[i], V)
           Bad == {d \in 0 .. n : ~ Visited(n + 1 - d)}
<1>2. n \in Nat  OBVIOUS
<1>3. SUFFICES ASSUME Bad # {} PROVE FALSE
  <2>1. n \in 0 .. n /\ n + 1 - n = 1  BY <1>2
  <2>2. n \notin Bad  BY <1>3
  <2>3. Visited(n + 1 - n)
    <3> HIDE DEF Visited
    <3> QED  BY <2>1, <2>2
  <2>4. Visited(1)
    <3> HIDE DEF Visited
    <3> QED  BY <2>1, <2>3
  <2> QED  BY <1>1, <2>4
<1>4. PICK d \in Bad : \A e \in Bad : d =< e
  <2>1. Bad \subseteq Nat  BY <1>2
  <2> HIDE DEF Bad
  <2> QED  BY <1>3, <2>1, LeastExists
<1>5. d \in 0 .. n /\ ~ Visited(n + 1 - d)  BY <1>4
<1>6. Visited(n + 1)
  <2>1. from[n + 1] = <<>>
    <3>1. n + 1 \in 1 .. n + 1 /\ n + 1 > n  BY <1>2
    <3> QED  BY <1>1, <3>1 DEF Rest
  <2>2. /\ <<>> \in Seq(G!Pieces) /\ Len(<<>>) = n + 1 - (n + 1)
        /\ {n + 1} \subseteq n + 1 .. n + 1 /\ ~ (n + 1 =< n) /\ n + 1 .. n = {}
    BY <1>2
  <2>3. Visits(text, ends, new, n + 1, <<>>, {n + 1})
    BY <2>2 DEF Visits
  <2> QED  BY <2>1, <2>3
<1> DEFINE i == n + 1 - d
<1>7. d # 0
  <2>1. d = 0 => n + 1 - d = n + 1  BY <1>2
  <2> HIDE DEF Visited
  <2> QED  BY <1>5, <1>6, <2>1
<1>8. d \in 0 .. n /\ i \in 1 .. n /\ i \in 1 .. n + 1
  <2>1. d \in 0 .. n  BY <1>5
  <2> QED  BY <1>2, <1>7, <2>1
<1>9. from[i] = Rest(text, ends, new, from, i) /\ i =< n
  <2> HIDE DEF i, Visited
  <2> QED  BY <1>1, <1>2, <1>8
<1> DEFINE j == After(ends, i)
           e == n + 1 - j
<1>10. Visited(j)
  <2>1. j \in i + 1 .. n + 1  BY <1>8, AfterIsLater
  <2>2. e \in 0 .. n /\ n + 1 - e = j /\ ~ (d =< e)
    <3> HIDE DEF j, Visited
    <3> QED  BY <1>2, <1>8, <2>1
  <2>3. e \notin Bad
    <3> HIDE DEF Bad, e
    <3> QED  BY <1>4, <2>2
  <2> HIDE DEF Visited, e
  <2> QED  BY <2>2, <2>3
<1>11. Visited(i)
  <2> HIDE DEF i
  <2>0. i \in 1 .. n  BY <1>8
  <2>1. PICK V : Visits(text, ends, new, j, from[j], V)  BY <1>10
  <2>2. CASE ends[i] # 0
    <3>1. j = ends[i] + 1 /\ from[i] = new \o from[j]
      <4> HIDE DEF Visited
      <4> QED  BY <1>2, <1>9, <2>0, <2>2 DEF Rest, After
    <3> HIDE DEF j
    <3>2. Visits(text, ends, new, ends[i] + 1, from[j], V)  BY <2>1, <3>1
    <3>3. Visits(text, ends, new, i, new \o from[j], V \union {i})
      BY <2>0, <2>2, <3>2, VisitHit
    <3> QED  BY <3>1, <3>3
  <2>3. CASE ends[i] = 0
    <3>1. j = i + 1 /\ from[i] = <<text[i]>> \o from[j]
      <4> HIDE DEF Visited
      <4> QED  BY <1>2, <1>9, <2>0, <2>3 DEF Rest, After
    <3> HIDE DEF j
    <3>2. Visits(text, ends, new, i + 1, from[j], V)  BY <2>1, <3>1
    <3>3. Visits(text, ends, new, i, <<text[i]>> \o from[j], V \union {i})
      BY <2>0, <2>3, <3>2, VisitPiece
    <3> QED  BY <3>1, <3>3
  <2> QED  BY <2>2, <2>3
<1> QED
  <2> HIDE DEF Visited
  <2> QED  BY <1>5, <1>11

OccursAt(text, token, i) ==
  /\ i + Len(token) - 1 =< Len(text)
  /\ \A k \in 1 .. Len(token) : text[i + k - 1] = token[k]

(* What str::replace looks for at a position.                              *)
LEMMA PrefixOfRest ==
  ASSUME NEW text \in Seq(G!Pieces), NEW token \in Seq(G!Pieces), NEW i \in 1 .. Len(text)
  PROVE  IsPrefix(token, SubSeq(text, i, Len(text))) <=> OccursAt(text, token, i)
<1> DEFINE n == Len(text)
           l == Len(token)
           rest == SubSeq(text, i, n)
<1>1. n \in Nat /\ l \in Nat /\ i \in 1 .. n  OBVIOUS
<1>2. /\ rest \in Seq(G!Pieces) /\ Len(rest) = n + 1 - i
      /\ \A k \in 1 .. n + 1 - i : rest[k] = text[i + k - 1]
  <2>1. /\ rest \in Seq(G!Pieces) /\ Len(rest) = IF i =< n THEN n - i + 1 ELSE 0
        /\ \A k \in 1 .. n - i + 1 : rest[k] = text[i + k - 1]
    BY SubSeqProperties
  <2> HIDE DEF rest
  <2> QED  BY <1>1, <2>1
<1>3. SubSeq(token, 1, l) = token  BY SubSeqFull
<1> HIDE DEF rest
<1>4. ASSUME l =< Len(rest)
      PROVE  (token = SubSeq(rest, 1, l)) <=> \A k \in 1 .. l : rest[k] = token[k]
  <2> DEFINE first == SubSeq(rest, 1, l)
  <2>1. first \in Seq(G!Pieces) /\ Len(first) = l /\ \A k \in 1 .. l : first[k] = rest[k]
    <3>1. /\ first \in Seq(G!Pieces) /\ Len(first) = IF 1 =< l THEN l - 1 + 1 ELSE 0
          /\ \A k \in 1 .. l - 1 + 1 : first[k] = rest[1 + k - 1]
      BY <1>1, <1>2, <1>4, SubSeqProperties
    <3> HIDE DEF first
    <3> QED  BY <1>1, <3>1
  <2> HIDE DEF first
  <2>2. token = first <=> \A k \in 1 .. l : token[k] = first[k]
    BY <1>1, <2>1, SeqEqual
  <2>3. token = first <=> \A k \in 1 .. l : rest[k] = token[k]
    BY <2>1, <2>2
  <2> QED  BY <2>3 DEF first
<1>5. IsPrefix(token, rest) <=> l =< n + 1 - i /\ \A k \in 1 .. l : rest[k] = token[k]
  BY <1>2, <1>3, <1>4 DEF IsPrefix
<1>6. l =< n + 1 - i => \A k \in 1 .. l : rest[k] = text[i + k - 1]
  BY <1>1, <1>2
<1>7. l =< n + 1 - i <=> i + l - 1 =< n  BY <1>1
<1> QED  BY <1>5, <1>6, <1>7 DEF OccursAt, rest

(* Where a token occurs and where it ends there.                           *)
Hits(text, token) ==
  [i \in DOMAIN text |-> IF IsPrefix(token, SubSeq(text, i, Len(text)))
                         THEN i + Len(token) - 1 ELSE 0]

(* The hits of a token that is not empty end where it ends.                *)
LEMMA HitsEnd ==
  ASSUME NEW text \in Seq(G!Pieces), NEW token \in Seq(G!Pieces), token # <<>>
  PROVE  /\ Ends(text, Hits(text, token))
         /\ \A i \in 1 .. Len(text) :
              Hits(text, token)[i] = IF OccursAt(text, token, i)
                                     THEN i + Len(token) - 1 ELSE 0
<1>1. Len(token) \in Nat \ {0} /\ DOMAIN text = 1 .. Len(text) /\ Len(text) \in Nat
  OBVIOUS
<1>2. ASSUME NEW i \in 1 .. Len(text)
      PROVE  Hits(text, token)[i] = IF OccursAt(text, token, i)
                                    THEN i + Len(token) - 1 ELSE 0
  BY <1>1, PrefixOfRest DEF Hits
<1>3. ASSUME NEW i \in 1 .. Len(text)
      PROVE  Hits(text, token)[i] = 0 \/ Hits(text, token)[i] \in i .. Len(text)
  <2>1. CASE OccursAt(text, token, i)
    <3>1. i + Len(token) - 1 =< Len(text)  BY <2>1 DEF OccursAt
    <3>2. i + Len(token) - 1 \in i .. Len(text)  BY <1>1, <3>1
    <3> QED  BY <1>2, <2>1, <3>2
  <2>2. CASE ~ OccursAt(text, token, i)  BY <1>2, <2>2
  <2> QED  BY <2>1, <2>2
<1> QED  BY <1>2, <1>3 DEF Ends

(* str::replace rewrites these hits.                                       *)
LEMMA ReplacedIsRewritten ==
  \A text, token, new :
    G!Replaced(text, token, new) = G!Rewritten(text, Hits(text, token), new)
BY DEF G!Replaced, Hits, G!IsPrefix, IsPrefix

Turns(upto, text, old, new) ==
  /\ upto[0] = text
  /\ \A i \in 1 .. Len(old) :
       upto[i] = IF old[i] = <<>> THEN upto[i - 1]
                 ELSE G!Replaced(upto[i - 1], old[i], new[i])

(* What InTurn computes, one replacement after another.                    *)
LEMMA InTurnSteps ==
  ASSUME NEW text, NEW old, Len(old) \in Nat, NEW new
  PROVE  \E upto : Turns(upto, text, old, new) /\ G!InTurn(text, old, new) = upto[Len(old)]
<1> DEFINE n == Len(old)
           Next1(f, i) == IF i = 0 THEN text
                          ELSE IF old[i] = <<>> THEN f[i - 1]
                          ELSE G!Replaced(f[i - 1], old[i], new[i])
           Trail(f, m) == [i \in 0 .. m |-> Next1(f, i)]
           s == CHOOSE f : f = Trail(f, n)
<1>1. n \in Nat  OBVIOUS
<1>2. G!InTurn(text, old, new) = s[n]  BY DEF G!InTurn
<1>3. ASSUME NEW f, NEW g, NEW i, i # 0 => f[i - 1] = g[i - 1]
      PROVE  Next1(f, i) = Next1(g, i)
  BY <1>3
<1> HIDE DEF Next1
<1>4. \E f : f = Trail(f, n)
  <2> DEFINE Lacking == {m \in 0 .. n : ~ \E f : f = Trail(f, m)}
  <2>1. SUFFICES ASSUME Lacking # {} PROVE FALSE
    BY <1>1
  <2>2. PICK m \in Lacking : \A j \in Lacking : m =< j
    <3>1. Lacking \subseteq Nat  BY <1>1
    <3> HIDE DEF Lacking
    <3> QED  BY <2>1, <3>1, LeastExists
  <2>3. m \in 0 .. n /\ ~ \E f : f = Trail(f, m)  BY <2>2
  <2>4. m # 0
    <3> DEFINE g == [i \in 0 .. 0 |-> text]
    <3>1. \A i \in 0 .. 0 : Next1(g, i) = text  BY DEF Next1
    <3>2. g = Trail(g, 0)  BY <3>1
    <3> QED  BY <2>3, <3>2
  <2>5. PICK f : f = Trail(f, m - 1)
    <3>1. m - 1 \in 0 .. n /\ ~ (m =< m - 1)  BY <1>1, <2>3, <2>4
    <3>2. m - 1 \notin Lacking
      <4> HIDE DEF Lacking
      <4> QED  BY <2>2, <3>1
    <3> HIDE DEF Trail
    <3> QED  BY <3>1, <3>2
  <2> DEFINE g == [i \in 0 .. m |-> IF i < m THEN f[i] ELSE Next1(f, m)]
  <2>6. ASSUME NEW i \in 0 .. m PROVE g[i] = Next1(g, i)
    <3>1. i # 0 => f[i - 1] = g[i - 1]  BY <2>3, <2>4
    <3>2. Next1(f, i) = Next1(g, i)
      <4> HIDE DEF g
      <4> QED  BY <1>3, <3>1
    <3>3. g[i] = Next1(f, i)  BY <2>3, <2>4, <2>5
    <3> QED  BY <3>2, <3>3
  <2>7. g = Trail(g, m)
    <3>1. g = [i \in 0 .. m |-> g[i]]  OBVIOUS
    <3> HIDE DEF g
    <3> QED  BY <2>6, <3>1
  <2> QED  BY <2>3, <2>7
<1>5. s = Trail(s, n)
  <2> HIDE DEF Trail
  <2> QED  BY <1>4
<1>6. \A i \in 0 .. n : s[i] = Next1(s, i)
  <2> HIDE DEF s
  <2> QED  BY <1>5
<1> HIDE DEF s
<1>7. s[0] = text /\ \A i \in 1 .. n : s[i] = IF old[i] = <<>> THEN s[i - 1]
                                             ELSE G!Replaced(s[i - 1], old[i], new[i])
  BY <1>1, <1>6 DEF Next1
<1>8. Turns(s, text, old, new)  BY <1>7 DEF Turns
<1> QED  BY <1>2, <1>8

-----------------------------------------------------------------------------
(* Words (split_whitespace) and what is cut off their ends (Trimmed).      *)

(* Guardrails chooses the least and the greatest as PositionLemmas does.   *)
LEMMA MinOfG == \A S : G!Min(S) = Min(S) /\ G!Max(S) = Max(S)
BY DEF G!Min, G!Max, Min, Max

(* A piece of text between gaps.                                           *)
IsWord(text, a, b) ==
  /\ a \in 1 .. Len(text) /\ b \in a .. Len(text)
  /\ \A k \in a .. b : text[k] # "gap"
  /\ a > 1 => text[a - 1] = "gap"
  /\ b < Len(text) => text[b + 1] = "gap"

(* A word of split_whitespace is what stands between two gaps.             *)
LEMMA WordIs ==
  ASSUME NEW text \in Seq(G!Pieces), NEW a \in 1 .. Len(text), G!Begins(text, a)
  PROVE  \E b : IsWord(text, a, b) /\ G!Word(text, a) = SubSeq(text, a, b)
<1> DEFINE n == Len(text)
           I == {j \in a .. n : \A k \in a .. j : text[k] # "gap"}
           b == Max(I)
<1>1. n \in Nat /\ a \in 1 .. n  OBVIOUS
<1>2. text[a] # "gap" /\ (a = 1 \/ text[a - 1] = "gap")  BY DEF G!Begins
<1>3. a \in I  BY <1>1, <1>2
<1>4. b \in I /\ \A y \in I : y =< b
  <2>1. I \subseteq 1 .. n /\ I # {}  BY <1>1, <1>3
  <2> HIDE DEF I
  <2> QED  BY <1>1, <2>1, MaxIsGreatest
<1>5. b \in a .. n /\ \A k \in a .. b : text[k] # "gap"
  <2> HIDE DEF b
  <2> QED  BY <1>4
<1>6. ASSUME b < n, text[b + 1] # "gap" PROVE FALSE
  <2>1. b + 1 \in I
    <3> HIDE DEF b
    <3> QED  BY <1>1, <1>5, <1>6
  <2>2. b + 1 =< b  BY <1>4, <2>1
  <2> HIDE DEF b, I
  <2> QED  BY <1>1, <1>5, <2>2
<1>7. G!Word(text, a) = SubSeq(text, a, b)  BY MinOfG DEF G!Word
<1> HIDE DEF b
<1>8. IsWord(text, a, b)  BY <1>1, <1>2, <1>5, <1>6 DEF IsWord
<1> QED  BY <1>7, <1>8

(* What is left of a token when its ends are cut off.                      *)
CutTo(token, which, core) ==
  \/ (\A k \in 1 .. Len(token) : token[k] \in which) /\ core = <<>>
  \/ \E p \in 1 .. Len(token), q \in 1 .. Len(token) :
       /\ p =< q /\ token[p] \notin which /\ token[q] \notin which
       /\ \A k \in 1 .. Len(token) : k < p \/ q < k => token[k] \in which
       /\ core = SubSeq(token, p, q)

(* What Trimmed leaves of a token.                                         *)
LEMMA TrimmedIs ==
  ASSUME NEW token \in Seq(G!Pieces), NEW which
  PROVE  CutTo(token, which, G!Trimmed(token, which))
<1> DEFINE n == Len(token)
           I == {i \in DOMAIN token : token[i] \notin which}
<1>1. n \in Nat /\ DOMAIN token = 1 .. n  OBVIOUS
<1>2. CASE I = {}
  <2>1. G!Trimmed(token, which) = <<>>  BY <1>2 DEF G!Trimmed
  <2>2. \A k \in 1 .. n : token[k] \in which  BY <1>1, <1>2
  <2> HIDE DEF I
  <2> QED  BY <2>1, <2>2 DEF CutTo
<1>3. CASE I # {}
  <2>1. I \subseteq 1 .. n /\ I \subseteq Nat  BY <1>1
  <2>2. /\ Min(I) \in I /\ \A y \in I : Min(I) =< y
        /\ Max(I) \in I /\ \A y \in I : y =< Max(I)
    <3> HIDE DEF I
    <3> QED  BY <1>1, <1>3, <2>1, MinIsLeast, MaxIsGreatest
  <2>3. G!Trimmed(token, which) = SubSeq(token, Min(I), Max(I))
    BY <1>3, MinOfG DEF G!Trimmed
  <2> DEFINE p == Min(I)
             q == Max(I)
  <2>4. p \in I /\ q \in I /\ (\A y \in I : p =< y /\ y =< q)
        /\ G!Trimmed(token, which) = SubSeq(token, p, q)
    BY <2>2, <2>3
  <2> HIDE DEF p, q
  <2>5. p \in 1 .. n /\ q \in 1 .. n /\ p =< q /\ token[p] \notin which /\ token[q] \notin which
    BY <1>1, <2>4
  <2>6. ASSUME NEW k \in 1 .. n, k < p \/ q < k PROVE token[k] \in which
    <3>1. k \notin I  BY <2>4, <2>5, <2>6
    <3> QED  BY <1>1, <3>1
  <2> QED  BY <2>4, <2>5, <2>6 DEF CutTo
<1> QED  BY <1>2, <1>3

(* What is cut out of a text.                                              *)
LEMMA PartIs ==
  ASSUME NEW text \in Seq(G!Pieces), NEW a \in 1 .. Len(text), NEW b \in a .. Len(text)
  PROVE  /\ SubSeq(text, a, b) \in Seq(G!Pieces) /\ Len(SubSeq(text, a, b)) = b - a + 1
         /\ SubSeq(text, a, b) # <<>>
         /\ \A k \in 1 .. b - a + 1 : SubSeq(text, a, b)[k] = text[a + k - 1]
         /\ \A k \in a .. b : SubSeq(text, a, b)[k - a + 1] = text[k]
<1> DEFINE part == SubSeq(text, a, b)
<1>1. Len(text) \in Nat /\ a \in 1 .. Len(text) /\ b \in a .. Len(text)  OBVIOUS
<1>2. \A i \in a .. b : text[i] \in G!Pieces  BY <1>1
<1>3. /\ part \in Seq(G!Pieces) /\ Len(part) = IF a =< b THEN b - a + 1 ELSE 0
      /\ \A i \in 1 .. b - a + 1 : part[i] = text[a + i - 1]
  BY <1>1, <1>2, SubSeqProperties
<1> HIDE DEF part
<1>4. Len(part) = b - a + 1  BY <1>1, <1>3
<1>5. part # <<>>
  <2>1. Len(<<>>) = 0 /\ b - a + 1 # 0  BY <1>1
  <2> QED  BY <1>4, <2>1
<1>6. ASSUME NEW k \in a .. b PROVE part[k - a + 1] = text[k]
  <2>1. k - a + 1 \in 1 .. b - a + 1 /\ a + (k - a + 1) - 1 = k  BY <1>1
  <2> QED  BY <1>3, <2>1
<1> QED  BY <1>3, <1>4, <1>5, <1>6 DEF part

-----------------------------------------------------------------------------
(* Words with a core of one piece of W: the profane words, as the          *)
(* guardrail knows them, and later those of a key.                         *)

Known(W) == W \subseteq G!Pieces /\ "gap" \notin W /\ W \intersect G!Marks = {}

(* The word from a to b has a core of one piece of W, at p.                *)
CoreAt(x, W, M, a, b, p) ==
  /\ IsWord(x, a, b) /\ p \in a .. b /\ x[p] \in W
  /\ \A k \in a .. b : k # p => x[k] \in M

(* Every word has one piece of W at most.                                  *)
AtMostOne(x, W) ==
  \A a, b : IsWord(x, a, b) => \A i, j \in a .. b : x[i] \in W /\ x[j] \in W => i = j

(* y is x, with stars for some of its pieces of W.                         *)
Starred(x, y, W) ==
  /\ x \in Seq(G!Pieces) /\ y \in Seq(G!Pieces) /\ Len(y) = Len(x)
  /\ \A i \in 1 .. Len(x) : y[i] = x[i] \/ (x[i] \in W /\ y[i] = "stars")

(* Only one word begins at a place.                                        *)
LEMMA SameWord ==
  ASSUME NEW x \in Seq(G!Pieces), NEW a, NEW b, NEW c, IsWord(x, a, b), IsWord(x, a, c)
  PROVE  b = c
<1>1. Len(x) \in Nat /\ a \in 1 .. Len(x) /\ b \in a .. Len(x) /\ c \in a .. Len(x)
  BY DEF IsWord
<1>2. CASE b < c
  <2>1. b + 1 \in a .. c /\ b < Len(x)  BY <1>1, <1>2
  <2> QED  BY <2>1 DEF IsWord
<1>3. CASE c < b
  <2>1. c + 1 \in a .. b /\ c < Len(x)  BY <1>1, <1>3
  <2> QED  BY <2>1 DEF IsWord
<1> QED  BY <1>1, <1>2, <1>3

(* A text is itself with no stars put.                                     *)
LEMMA StarredSame ==
  ASSUME NEW x \in Seq(G!Pieces), NEW W PROVE Starred(x, x, W)
BY DEF Starred

(* Stars on stars are stars.                                               *)
LEMMA StarredOn ==
  ASSUME NEW x, NEW y, NEW z, NEW W, Known(W), Starred(x, y, W), Starred(y, z, W)
  PROVE  Starred(x, z, W)
<1>1. "stars" \notin W  BY DEF Known, G!Marks
<1> QED  BY <1>1 DEF Starred

(* Stars leave the words where they are.                                   *)
LEMMA StarredWord ==
  ASSUME NEW x, NEW y, NEW W, Known(W), Starred(x, y, W), NEW a, NEW b
  PROVE  IsWord(x, a, b) <=> IsWord(y, a, b)
<1>1. Len(y) = Len(x) /\ Len(x) \in Nat  BY DEF Starred
<1>2. \A i \in 1 .. Len(x) : x[i] = "gap" <=> y[i] = "gap"
  BY DEF Starred, Known
<1>3. a \in 1 .. Len(x) /\ b \in a .. Len(x) =>
        /\ \A k \in a .. b : k \in 1 .. Len(x)
        /\ a > 1 => a - 1 \in 1 .. Len(x)
        /\ b < Len(x) => b + 1 \in 1 .. Len(x)
  BY <1>1
<1> QED  BY <1>1, <1>2, <1>3 DEF IsWord

(* So they are through any number of replacements.                         *)
LEMMA StarredInTurn ==
  ASSUME NEW W, Known(W), NEW n \in Nat, NEW s, s[0] \in Seq(G!Pieces),
         \A i \in 1 .. n : s[i - 1] \in Seq(G!Pieces) => Starred(s[i - 1], s[i], W)
  PROVE  \A i \in 0 .. n : \A j \in i .. n : Starred(s[i], s[j], W)
<1>1. \A i \in 0 .. n : s[i] \in Seq(G!Pieces)
  <2> DEFINE Bad == {i \in 0 .. n : s[i] \notin Seq(G!Pieces)}
  <2>1. SUFFICES ASSUME Bad # {} PROVE FALSE
    OBVIOUS
  <2>2. PICK i \in Bad : \A j \in Bad : i =< j
    <3>1. Bad \subseteq Nat  OBVIOUS
    <3> HIDE DEF Bad
    <3> QED  BY <2>1, <3>1, LeastExists
  <2>3. i \in 1 .. n /\ s[i] \notin Seq(G!Pieces)  BY <2>2
  <2>4. i - 1 \in 0 .. n /\ ~ (i =< i - 1)  BY <2>3
  <2>5. s[i - 1] \in Seq(G!Pieces)  BY <2>2, <2>4
  <2>6. Starred(s[i - 1], s[i], W)  BY <2>3, <2>5
  <2> QED  BY <2>3, <2>6 DEF Starred
<1>2. ASSUME NEW i \in 0 .. n PROVE \A j \in i .. n : Starred(s[i], s[j], W)
  <2> DEFINE Bad == {j \in i .. n : ~ Starred(s[i], s[j], W)}
  <2>1. SUFFICES ASSUME Bad # {} PROVE FALSE
    OBVIOUS
  <2>2. PICK j \in Bad : \A k \in Bad : j =< k
    <3>1. Bad \subseteq Nat  OBVIOUS
    <3> HIDE DEF Bad
    <3> QED  BY <2>1, <3>1, LeastExists
  <2>3. j \in i .. n /\ ~ Starred(s[i], s[j], W)  BY <2>2
  <2>4. j # i  BY <1>1, <2>3, StarredSame
  <2>5. j - 1 \in i .. n /\ j - 1 \in 0 .. n /\ j \in 1 .. n /\ ~ (j =< j - 1)
    BY <2>3, <2>4
  <2>6. j - 1 \notin Bad
    <3> HIDE DEF Bad
    <3> QED  BY <2>2, <2>5
  <2>7. Starred(s[i], s[j - 1], W)  BY <2>5, <2>6
  <2>8. Starred(s[j - 1], s[j], W)  BY <1>1, <2>5
  <2> QED  BY <2>3, <2>7, <2>8, StarredOn
<1> QED  BY <1>2

(* A token with such a core gives way to stars, wherever it occurs.        *)
HasCore(token, W, M) ==
  \E p \in 1 .. Len(token) :
    /\ token[p] \in W
    /\ \A k \in 1 .. Len(token) : k # p => token[k] \in M

(* mask_token keeps the length, and leaves nothing but marks.              *)
LEMMA StarsAreAsLong ==
  ASSUME NEW W, Known(W), NEW token \in Seq(G!Pieces), HasCore(token, W, G!Marks)
  PROVE  /\ G!mask_token(token) \in Seq(G!Pieces)
         /\ Len(G!mask_token(token)) = Len(token) /\ token # <<>>
         /\ \A k \in 1 .. Len(token) :
              /\ token[k] # "gap" /\ G!mask_token(token)[k] \in G!Marks
              /\ \/ G!mask_token(token)[k] = token[k]
                 \/ token[k] \in W /\ G!mask_token(token)[k] = "stars"
<1>1. DOMAIN token = 1 .. Len(token) /\ Len(token) \in Nat  OBVIOUS
<1>2. token # <<>>
  <2>1. Len(<<>>) = 0  OBVIOUS
  <2> QED  BY <1>1, <2>1 DEF HasCore
<1>3. \A k \in 1 .. Len(token) : token[k] \in W \/ token[k] \in G!Marks
  BY DEF HasCore
<1> DEFINE new == [i \in 1 .. Len(token) |-> IF token[i] \in G!Marks THEN token[i] ELSE "stars"]
<1>4. G!mask_token(token) = new  BY <1>1 DEF G!mask_token
<1>5. "stars" \in G!Pieces /\ "stars" \in G!Marks
  <2>1. "stars" \in G!Pieces  BY DEF G!Pieces
  <2>2. "stars" \in G!Marks  BY DEF G!Marks
  <2> QED  BY <2>1, <2>2
<1>6. \A k \in 1 .. Len(token) :
        /\ new[k] \in G!Pieces /\ new[k] \in G!Marks
        /\ new[k] = token[k] \/ (token[k] \in W /\ new[k] = "stars")
  BY <1>1, <1>3, <1>5
<1>7. new \in Seq(G!Pieces) /\ Len(new) = Len(token)
  <2>1. new \in [1 .. Len(token) -> G!Pieces]  BY <1>6
  <2> HIDE DEF new
  <2> QED  BY <1>1, <2>1
<1>8. \A k \in 1 .. Len(token) : token[k] # "gap"
  <2>1. "gap" \notin G!Marks  BY DEF G!Marks
  <2> QED  BY <1>3, <2>1 DEF Known
<1> HIDE DEF new
<1> QED  BY <1>2, <1>4, <1>6, <1>7, <1>8

(* Replacing such a token puts stars, also at its other occurrences.       *)
LEMMA StarsPut ==
  ASSUME NEW W, Known(W), NEW x \in Seq(G!Pieces),
         NEW token \in Seq(G!Pieces), HasCore(token, W, G!Marks)
  PROVE  LET y == G!Replaced(x, token, G!mask_token(token))
         IN /\ Starred(x, y, W)
            /\ \A a, b : IsWord(x, a, b) /\ SubSeq(x, a, b) = token =>
                 \A k \in a .. b : y[k] \in G!Marks
            /\ Len(token) = 1 => \A k \in 1 .. Len(x) : y[k] # token[1]
<1> DEFINE n == Len(x)
           l == Len(token)
           new == G!mask_token(token)
           ends == Hits(x, token)
           y == G!Replaced(x, token, new)
<1>1. /\ new \in Seq(G!Pieces) /\ Len(new) = l /\ token # <<>> /\ l \in Nat /\ n \in Nat
      /\ \A k \in 1 .. l : /\ token[k] # "gap" /\ new[k] \in G!Marks
                           /\ new[k] = token[k] \/ (token[k] \in W /\ new[k] = "stars")
  BY StarsAreAsLong
<1>2. /\ Ends(x, ends)
      /\ \A i \in 1 .. n : ends[i] = IF OccursAt(x, token, i) THEN i + l - 1 ELSE 0
  BY <1>1, HitsEnd
<1> HIDE DEF new, ends
<1>3. AsLong(x, ends, new)
  <2>1. ASSUME NEW i \in 1 .. n, ends[i] # 0 PROVE ends[i] + 1 - i = l
    <3>1. ends[i] = i + l - 1  BY <1>2, <2>1
    <3> QED  BY <1>1, <3>1
  <2> QED  BY <1>1, <2>1 DEF AsLong
<1>4. PICK V : Visits(x, ends, new, 1, y, V)
  <2>1. y = G!Rewritten(x, ends, new)  BY ReplacedIsRewritten DEF ends
  <2> QED  BY <1>1, <1>2, <1>3, <2>1, RewrittenAsLong
<1> HIDE DEF y
<1>5. /\ y \in Seq(G!Pieces) /\ Len(y) = n /\ V \subseteq 1 .. n + 1
      /\ \A j \in 1 .. n : \E v \in V : v =< j /\ j < After(ends, v)
  <2>1. n + 1 - 1 = n  BY <1>1
  <2> QED  BY <1>4, <2>1 DEF Visits
<1>6. ASSUME NEW v \in V, v =< n, ends[v] = 0
      PROVE  After(ends, v) = v + 1 /\ y[v] = x[v] /\ ~ OccursAt(x, token, v)
  <2>1. v \in 1 .. n /\ v + 1 - 1 = v  BY <1>1, <1>5, <1>6
  <2>2. y[v + 1 - 1] = x[v]  BY <1>4, <1>6 DEF Visits
  <2>3. v + l - 1 # 0
    <3>1. l # 0
      <4>1. token \in Seq(G!Pieces) /\ token # <<>>  BY <1>1
      <4> QED  BY <4>1
    <3> QED  BY <1>1, <2>1, <3>1
  <2> QED  BY <1>2, <1>6, <2>1, <2>2, <2>3 DEF After
<1>7. ASSUME NEW v \in V, v =< n, ends[v] # 0
      PROVE  /\ OccursAt(x, token, v) /\ ends[v] = v + l - 1 /\ After(ends, v) = v + l
             /\ \A k \in v .. ends[v] :
                  k + 1 - v \in 1 .. l /\ y[k] = new[k + 1 - v] /\ x[k] = token[k + 1 - v]
  <2>1. v \in 1 .. n  BY <1>1, <1>5, <1>7
  <2>2. OccursAt(x, token, v) /\ ends[v] = v + l - 1  BY <1>2, <1>7, <2>1
  <2>3. ASSUME NEW k \in v .. ends[v]
        PROVE  k + 1 - v \in 1 .. l /\ y[k] = new[k + 1 - v] /\ x[k] = token[k + 1 - v]
    <3>1. k + 1 - v \in 1 .. l /\ v + (k + 1 - v) - 1 = k /\ k + 1 - 1 = k
      BY <1>1, <2>1, <2>2
    <3>2. y[k + 1 - 1] = new[k + 1 - v]  BY <1>4, <1>7 DEF Visits
    <3>3. x[v + (k + 1 - v) - 1] = token[k + 1 - v]  BY <2>2, <3>1 DEF OccursAt
    <3> QED  BY <3>1, <3>2, <3>3
  <2>4. After(ends, v) = v + l  BY <1>1, <1>7, <2>1, <2>2 DEF After
  <2> QED  BY <2>2, <2>3, <2>4
<1>8. ASSUME NEW j \in 1 .. n
      PROVE  \/ y[j] = x[j] /\ ~ OccursAt(x, token, j)
             \/ \E k \in 1 .. l : y[j] = new[k] /\ x[j] = token[k]
  <2>1. PICK v \in V : v =< j /\ j < After(ends, v)  BY <1>5
  <2>2. v \in 1 .. n  BY <1>1, <1>5, <2>1
  <2>3. CASE ends[v] = 0
    <3>1. v = j  BY <1>6, <2>1, <2>2, <2>3
    <3> QED  BY <1>6, <2>2, <2>3, <3>1
  <2>4. CASE ends[v] # 0
    <3>1. j \in v .. ends[v]  BY <1>1, <1>7, <2>1, <2>2, <2>4
    <3> QED  BY <1>7, <2>2, <2>4, <3>1
  <2> QED  BY <2>3, <2>4
<1>9. Starred(x, y, W)
  <2>1. ASSUME NEW j \in 1 .. n PROVE y[j] = x[j] \/ (x[j] \in W /\ y[j] = "stars")
    BY <1>1, <1>8
  <2> QED  BY <1>5, <2>1 DEF Starred
<1>10. ASSUME NEW a, NEW b, IsWord(x, a, b), SubSeq(x, a, b) = token
       PROVE  \A k \in a .. b : y[k] \in G!Marks
  <2>1. /\ a \in 1 .. n /\ b \in a .. n /\ l = b - a + 1
        /\ \A k \in 1 .. l : token[k] = x[a + k - 1]
    <3>1. a \in 1 .. n /\ b \in a .. n  BY <1>10 DEF IsWord
    <3>2. Len(SubSeq(x, a, b)) = b - a + 1
          /\ \A k \in 1 .. b - a + 1 : SubSeq(x, a, b)[k] = x[a + k - 1]
      BY <3>1, PartIs
    <3>3. l = b - a + 1  BY <1>10, <3>2
    <3>4. \A k \in 1 .. b - a + 1 : token[k] = x[a + k - 1]  BY <1>10, <3>2
    <3> QED  BY <3>1, <3>3, <3>4
  <2>2. OccursAt(x, token, a)
    <3>1. a + l - 1 =< n  BY <1>1, <2>1
    <3> QED  BY <2>1, <3>1 DEF OccursAt
  <2>3. ends[a] = b /\ ends[a] # 0  BY <1>1, <1>2, <2>1, <2>2
  <2>4. PICK v \in V : v =< a /\ a < After(ends, v)  BY <1>5, <2>1
  <2>5. v \in 1 .. n  BY <1>1, <1>5, <2>1, <2>4
  <2>6. v = a
    <3>1. SUFFICES ASSUME v < a PROVE FALSE  BY <2>1, <2>4, <2>5
    <3>2. ends[v] # 0
      <4>1. CASE ends[v] = 0  BY <1>6, <2>1, <2>4, <2>5, <3>1, <4>1
      <4> QED  BY <4>1
    <3>3. a - 1 \in v .. ends[v]  BY <1>1, <1>7, <2>1, <2>4, <2>5, <3>1, <3>2
    <3>4. x[a - 1] # "gap"
      <4>1. v =< n  BY <1>1, <2>5
      <4>2. /\ (a - 1) + 1 - v \in 1 .. l /\ x[a - 1] = token[(a - 1) + 1 - v]
        BY <1>7, <3>2, <3>3, <4>1
      <4> QED  BY <1>1, <4>2
    <3>5. a > 1  BY <2>1, <2>5, <3>1
    <3> QED  BY <1>10, <3>4, <3>5 DEF IsWord
  <2>7. \A k \in a .. ends[a] : k + 1 - a \in 1 .. l /\ y[k] = new[k + 1 - a]
    BY <1>7, <2>3, <2>5, <2>6
  <2> QED  BY <1>1, <2>3, <2>7
<1>11. ASSUME l = 1, NEW k \in 1 .. n PROVE y[k] # token[1]
  <2>1. token[1] \notin G!Marks
    <3>1. token[1] \in W  BY <1>11 DEF HasCore
    <3> QED  BY <3>1 DEF Known
  <2>2. CASE y[k] = x[k] /\ ~ OccursAt(x, token, k)
    <3>1. k + l - 1 =< n /\ \A i \in 1 .. l : i = 1 /\ k + i - 1 = k  BY <1>1, <1>11
    <3>2. x[k] # token[1]  BY <2>2, <3>1 DEF OccursAt
    <3> QED  BY <2>2, <3>2
  <2>3. CASE \E i \in 1 .. l : y[k] = new[i] /\ x[k] = token[i]
    BY <1>1, <2>1, <2>3
  <2> QED  BY <1>8, <2>2, <2>3
<1> QED  BY <1>9, <1>10, <1>11 DEF y, new

(* The core of a token is one piece of W.                                  *)
LEMMA CoreIs ==
  ASSUME NEW W, Known(W), NEW M, M \subseteq G!Marks, NEW token \in Seq(G!Pieces)
  PROVE  (\E w \in W : G!Trimmed(token, M) = <<w>>) <=> HasCore(token, W, M)
<1> DEFINE l == Len(token)
           core == G!Trimmed(token, M)
<1>1. l \in Nat /\ W \intersect M = {}  BY DEF Known
<1>2. CASE (\A k \in 1 .. l : token[k] \in M) /\ core = <<>>
  <2>1. ~ HasCore(token, W, M)  BY <1>1, <1>2 DEF HasCore
  <2>2. \A w \in W : core # <<w>>
    <3>1. \A w : <<>> # <<w>>  OBVIOUS
    <3> QED  BY <1>2, <3>1
  <2> QED  BY <2>1, <2>2
<1>3. CASE \E p \in 1 .. l, q \in 1 .. l :
             /\ p =< q /\ token[p] \notin M /\ token[q] \notin M
             /\ \A k \in 1 .. l : k < p \/ q < k => token[k] \in M
             /\ core = SubSeq(token, p, q)
  <2>1. PICK p \in 1 .. l, q \in 1 .. l :
             /\ p =< q /\ token[p] \notin M /\ token[q] \notin M
             /\ \A k \in 1 .. l : k < p \/ q < k => token[k] \in M
             /\ core = SubSeq(token, p, q)
    BY <1>3
  <2>2. Len(core) = q - p + 1 /\ core[1] = token[p]
    <3>1. p \in 1 .. Len(token) /\ q \in p .. Len(token)  BY <1>1, <2>1
    <3>2. /\ Len(SubSeq(token, p, q)) = q - p + 1
          /\ \A k \in 1 .. q - p + 1 : SubSeq(token, p, q)[k] = token[p + k - 1]
      BY <3>1, PartIs
    <3>3. 1 \in 1 .. q - p + 1 /\ p + 1 - 1 = p  BY <3>1
    <3> HIDE DEF core
    <3> QED  BY <2>1, <3>2, <3>3
  <2>3. ASSUME NEW w \in W, core = <<w>> PROVE HasCore(token, W, M)
    <3>1. Len(<<w>>) = 1 /\ <<w>>[1] = w  OBVIOUS
    <3> HIDE DEF core
    <3>2. q - p + 1 = 1 /\ token[p] = w  BY <2>2, <2>3, <3>1
    <3>3. p = q  BY <3>2, <2>1, <1>1
    <3>4. \A k \in 1 .. l : k # p => token[k] \in M  BY <1>1, <2>1, <3>3
    <3> QED  BY <2>3, <3>2, <3>4 DEF HasCore
  <2>4. ASSUME HasCore(token, W, M) PROVE \E w \in W : core = <<w>>
    <3>1. PICK r \in 1 .. l : /\ token[r] \in W
                              /\ \A k \in 1 .. l : k # r => token[k] \in M
      BY <2>4 DEF HasCore
    <3>2. p = r /\ q = r  BY <2>1, <3>1
    <3>3. core \in Seq(G!Pieces) /\ Len(core) = 1 /\ core[1] = token[r]
      <4>1. r - r + 1 = 1  BY <3>1
      <4>2. SubSeq(token, p, q) \in Seq(G!Pieces)
        <5>1. p \in 1 .. Len(token) /\ q \in p .. Len(token)  BY <1>1, <2>1
        <5> QED  BY <5>1, PartIs
      <4> HIDE DEF core
      <4> QED  BY <2>1, <2>2, <3>2, <4>1, <4>2
    <3> HIDE DEF core
    <3>4. core = <<token[r]>>  BY <3>3
    <3> QED  BY <3>1, <3>4
  <2> QED  BY <2>3, <2>4
<1>4. CutTo(token, M, core)  BY TrimmedIs
<1> HIDE DEF core
<1> QED  BY <1>2, <1>3, <1>4 DEF CutTo

(* What mask_profanity replaces: the words with such a core.               *)
CoreHits(x, W, M) ==
  [i \in DOMAIN x |->
     IF G!Begins(x, i) /\ \E w \in W : G!Trimmed(G!Word(x, i), M) = <<w>>
     THEN G!Word(x, i) ELSE <<>>]

(* A word is replaced exactly if it has a core of one piece of W.          *)
LEMMA CoreHit ==
  ASSUME NEW W, Known(W), NEW M, M \subseteq G!Marks, NEW x \in Seq(G!Pieces), NEW i \in 1 .. Len(x)
  PROVE  \/ /\ CoreHits(x, W, M)[i] = <<>>
            /\ \A b, p : ~ CoreAt(x, W, M, i, b, p)
         \/ \E b, p : /\ CoreAt(x, W, M, i, b, p)
                      /\ CoreHits(x, W, M)[i] = SubSeq(x, i, b)
                      /\ HasCore(SubSeq(x, i, b), W, M)
<1> DEFINE hit == CoreHits(x, W, M)[i]
<1>1. hit = IF G!Begins(x, i) /\ \E w \in W : G!Trimmed(G!Word(x, i), M) = <<w>>
            THEN G!Word(x, i) ELSE <<>>
  <2>1. i \in DOMAIN x  OBVIOUS
  <2> QED  BY <2>1 DEF CoreHits
<1>2. CASE ~ G!Begins(x, i)
  <2>1. ASSUME NEW b, NEW p, CoreAt(x, W, M, i, b, p) PROVE FALSE
    <3>1. /\ b \in i .. Len(x) /\ \A k \in i .. b : x[k] # "gap"
          /\ i > 1 => x[i - 1] = "gap"
      BY <2>1 DEF CoreAt, IsWord
    <3>2. x[i] # "gap"  BY <3>1
    <3>3. i = 1 \/ i > 1  OBVIOUS
    <3> QED  BY <1>2, <3>1, <3>2, <3>3 DEF G!Begins
  <2> QED  BY <1>1, <1>2, <2>1
<1>3. CASE G!Begins(x, i)
  <2>1. PICK b : IsWord(x, i, b) /\ G!Word(x, i) = SubSeq(x, i, b)  BY <1>3, WordIs
  <2> DEFINE token == SubSeq(x, i, b)
  <2>2. /\ b \in i .. Len(x) /\ token \in Seq(G!Pieces) /\ Len(token) = b - i + 1
        /\ \A k \in 1 .. b - i + 1 : token[k] = x[i + k - 1]
        /\ \A k \in i .. b : token[k - i + 1] = x[k]
    <3>1. b \in i .. Len(x)  BY <2>1 DEF IsWord
    <3> QED  BY <3>1, PartIs
  <2>3. hit = IF HasCore(token, W, M) THEN token ELSE <<>>
    <3>1. (\E w \in W : G!Trimmed(token, M) = <<w>>) <=> HasCore(token, W, M)
      BY <2>2, CoreIs
    <3> QED  BY <1>1, <1>3, <2>1, <3>1
  <2> HIDE DEF token, hit
  <2>4. HasCore(token, W, M) <=> \E p : CoreAt(x, W, M, i, b, p)
    <3>1. ASSUME HasCore(token, W, M) PROVE \E p : CoreAt(x, W, M, i, b, p)
      <4>1. PICK q \in 1 .. b - i + 1 :
              /\ token[q] \in W
              /\ \A k \in 1 .. b - i + 1 : k # q => token[k] \in M
        BY <2>2, <3>1 DEF HasCore
      <4>2. i + q - 1 \in i .. b /\ x[i + q - 1] \in W  BY <2>2, <4>1
      <4>3. ASSUME NEW k \in i .. b, k # i + q - 1 PROVE x[k] \in M
        <5>1. k - i + 1 \in 1 .. b - i + 1 /\ k - i + 1 # q  BY <2>2, <4>3
        <5> QED  BY <2>2, <4>1, <5>1
      <4>4. CoreAt(x, W, M, i, b, i + q - 1)  BY <2>1, <4>2, <4>3 DEF CoreAt
      <4> QED  BY <4>4
    <3>2. ASSUME NEW p, CoreAt(x, W, M, i, b, p) PROVE HasCore(token, W, M)
      <4>1. p \in i .. b /\ x[p] \in W /\ \A k \in i .. b : k # p => x[k] \in M
        BY <3>2 DEF CoreAt
      <4>2. p - i + 1 \in 1 .. b - i + 1 /\ token[p - i + 1] \in W  BY <2>2, <4>1
      <4>3. ASSUME NEW k \in 1 .. b - i + 1, k # p - i + 1 PROVE token[k] \in M
        <5>1. i + k - 1 \in i .. b /\ i + k - 1 # p  BY <2>2, <4>1, <4>3
        <5> QED  BY <2>2, <4>1, <5>1
      <4> QED  BY <2>2, <4>2, <4>3 DEF HasCore
    <3> QED  BY <3>1, <3>2
  <2>5. \A c, p : CoreAt(x, W, M, i, c, p) => c = b
    BY <2>1, SameWord DEF CoreAt
  <2> QED  BY <2>3, <2>4, <2>5 DEF token, hit
<1> QED  BY <1>2, <1>3

(* In whatever case, what counts as profane is a word that may be listed.  *)
LEMMA OnlyListed ==
  ASSUME NEW extra, extra \subseteq G!Listed
  PROVE  G!Profane(extra) \subseteq G!Listed
<1>1. SUFFICES ASSUME NEW w \in G!Profane(extra) PROVE w \in G!Listed  OBVIOUS
<1>2. G!Lower(w) = w \/ w = "Damn"  BY DEF G!Lower
<1>3. G!Lower(w) \in G!PROFANITY \union {G!Lower(v) : v \in extra}  BY <1>1 DEF G!Profane
<1>4. \A v \in G!Listed : G!Lower(v) \in G!Listed  BY DEF G!Lower, G!Listed
<1>5. G!PROFANITY \subseteq G!Listed /\ "Damn" \in G!Listed  BY DEF G!PROFANITY, G!Listed
<1> QED  BY <1>2, <1>3, <1>4, <1>5

(* Such words are no marks and no gaps.                                    *)
LEMMA KnownProfane ==
  ASSUME NEW extra, extra \subseteq G!Listed
  PROVE  Known(G!Profane(extra))
<1>1. G!Profane(extra) \subseteq G!Listed  BY OnlyListed
<1>2. G!Listed \subseteq G!Pieces  BY DEF G!Listed, G!Pieces
<1>3. "gap" \notin G!Listed /\ G!Listed \intersect G!Marks = {}  BY DEF G!Listed, G!Marks
<1> QED  BY <1>1, <1>2, <1>3 DEF Known

HasCores(x, W, M) == \E a, b, p : CoreAt(x, W, M, a, b, p)

(* The steps of mask_profanity.                                            *)
StarSteps(s, x, W) ==
  /\ s[0] = x
  /\ \A i \in 1 .. Len(x) :
       \/ s[i] = s[i - 1] /\ \A b, p : ~ CoreAt(x, W, G!Marks, i, b, p)
       \/ \E b, p : /\ CoreAt(x, W, G!Marks, i, b, p) /\ HasCore(SubSeq(x, i, b), W, G!Marks)
                    /\ s[i] = G!Replaced(s[i - 1], SubSeq(x, i, b),
                                         G!mask_token(SubSeq(x, i, b)))

(* What mask_profanity does, word after word.                              *)
LEMMA ProfanitySteps ==
  ASSUME NEW x \in Seq(G!Pieces), NEW extra, Known(G!Profane(extra))
  PROVE  \E s : /\ StarSteps(s, x, G!Profane(extra))
               /\ s[Len(x)] = G!mask_profanity(x, extra)
<1> DEFINE n == Len(x)
           W == G!Profane(extra)
           hits == CoreHits(x, W, G!Marks)
           new == [i \in DOMAIN x |-> G!mask_token(hits[i])]
<1>0. Known(W)  OBVIOUS
<1>1. n \in Nat /\ DOMAIN x = 1 .. n  OBVIOUS
<1>2. Len(hits) = n
  <2>1. hits = [i \in 1 .. n |-> hits[i]]  BY <1>1 DEF CoreHits
  <2> HIDE DEF hits
  <2> QED  BY <1>1, <2>1
<1>3. G!mask_profanity(x, extra) = G!InTurn(x, hits, new)
  BY DEF G!mask_profanity, CoreHits
<1>4. PICK s : /\ s[0] = x /\ G!InTurn(x, hits, new) = s[n]
               /\ \A i \in 1 .. n :
                    s[i] = IF hits[i] = <<>> THEN s[i - 1]
                           ELSE G!Replaced(s[i - 1], hits[i], new[i])
  <2> HIDE DEF hits, new
  <2>1. \E s : Turns(s, x, hits, new) /\ G!InTurn(x, hits, new) = s[Len(hits)]
    <3>1. Len(hits) \in Nat  BY <1>1, <1>2
    <3> QED  BY <3>1, InTurnSteps
  <2> QED  BY <1>2, <2>1 DEF Turns
<1>5. \A i \in 1 .. n : new[i] = G!mask_token(hits[i])  BY <1>1
<1> HIDE DEF hits, new, W
<1>6. ASSUME NEW i \in 1 .. n
      PROVE  \/ s[i] = s[i - 1] /\ \A b, p : ~ CoreAt(x, W, G!Marks, i, b, p)
             \/ \E b, p : /\ CoreAt(x, W, G!Marks, i, b, p) /\ HasCore(SubSeq(x, i, b), W, G!Marks)
                          /\ s[i] = G!Replaced(s[i - 1], SubSeq(x, i, b),
                                               G!mask_token(SubSeq(x, i, b)))
  <2>1. CASE hits[i] = <<>> /\ \A b, p : ~ CoreAt(x, W, G!Marks, i, b, p)
    BY <1>4, <2>1
  <2>2. CASE \E b, p : /\ CoreAt(x, W, G!Marks, i, b, p) /\ hits[i] = SubSeq(x, i, b)
                       /\ HasCore(SubSeq(x, i, b), W, G!Marks)
    <3>1. PICK b, p : /\ CoreAt(x, W, G!Marks, i, b, p) /\ hits[i] = SubSeq(x, i, b)
                      /\ HasCore(SubSeq(x, i, b), W, G!Marks)
      BY <2>2
    <3>2. hits[i] # <<>>
      <4>1. b \in i .. Len(x)  BY <3>1 DEF CoreAt, IsWord
      <4>2. SubSeq(x, i, b) # <<>>  BY <4>1, PartIs
      <4> QED  BY <3>1, <4>2
    <3> QED  BY <1>4, <1>5, <3>1, <3>2
  <2> QED  BY <1>0, <2>1, <2>2, CoreHit DEF hits
<1> HIDE DEF W
<1>7. StarSteps(s, x, W)  BY <1>4, <1>6 DEF StarSteps
<1> QED  BY <1>3, <1>4, <1>7 DEF W

(* Steps that change nothing leave the first.                              *)
LEMMA NoneChanges ==
  ASSUME NEW n \in Nat, NEW s, \A i \in 1 .. n : s[i] = s[i - 1]
  PROVE  s[n] = s[0]
<1> DEFINE Bad == {i \in 0 .. n : s[i] # s[0]}
<1>1. SUFFICES ASSUME Bad # {} PROVE FALSE
  OBVIOUS
<1>2. PICK i \in Bad : \A j \in Bad : i =< j
  <2>1. Bad \subseteq Nat  OBVIOUS
  <2> HIDE DEF Bad
  <2> QED  BY <1>1, <2>1, LeastExists
<1>3. i \in 1 .. n /\ s[i] # s[0]  BY <1>2
<1>4. i - 1 \in 0 .. n /\ ~ (i =< i - 1)  BY <1>3
<1>5. i - 1 \notin Bad
  <2> HIDE DEF Bad
  <2> QED  BY <1>2, <1>4
<1> QED  BY <1>3, <1>4, <1>5

(* A text without a profane word stays as it is (mask_profanity).          *)
LEMMA NoCore ==
  ASSUME NEW x \in Seq(G!Pieces), NEW extra, extra \subseteq G!Listed,
         ~ HasCores(x, G!Profane(extra), G!Marks)
  PROVE  G!mask_profanity(x, extra) = x
<1> DEFINE n == Len(x)
           W == G!Profane(extra)
<1>1. PICK s : StarSteps(s, x, W) /\ s[n] = G!mask_profanity(x, extra)
  BY KnownProfane, ProfanitySteps
<1> HIDE DEF W
<1>2. \A i \in 1 .. n : s[i] = s[i - 1]  BY <1>1 DEF StarSteps, HasCores, W
<1>3. s[n] = s[0]
  <2>1. n \in Nat  OBVIOUS
  <2> HIDE DEF n
  <2> QED  BY <1>2, <2>1, NoneChanges
<1> QED  BY <1>1, <1>3 DEF StarSteps

(* What mask_profanity leaves of a text: the same but for stars; no word   *)
(* that is profane; and nothing, anywhere, of a profane word that stood    *)
(* alone.                                                                  *)
LEMMA ProfanityMasks ==
  ASSUME NEW x \in Seq(G!Pieces), NEW extra, extra \subseteq G!Listed, NEW W,
         W = G!Profane(extra), NEW y, y = G!mask_profanity(x, extra)
  PROVE  /\ Starred(x, y, W)
         /\ AtMostOne(x, W) => ~ HasCores(y, W, G!Marks)
         /\ \A a : IsWord(x, a, a) /\ x[a] \in W => \A k \in 1 .. Len(y) : y[k] # x[a]
<1> DEFINE n == Len(x)
<1>0. Known(W) /\ n \in Nat /\ "stars" \notin W
  <2>1. Known(W)  BY KnownProfane
  <2>2. "stars" \in G!Marks  BY DEF G!Marks
  <2> QED  BY <2>1, <2>2 DEF Known
<1>1. PICK s :
        /\ s[0] = x /\ s[n] = y
        /\ \A i \in 1 .. n :
             \/ s[i] = s[i - 1] /\ \A b, p : ~ CoreAt(x, W, G!Marks, i, b, p)
             \/ \E b, p : /\ CoreAt(x, W, G!Marks, i, b, p) /\ HasCore(SubSeq(x, i, b), W, G!Marks)
                          /\ s[i] = G!Replaced(s[i - 1], SubSeq(x, i, b),
                                               G!mask_token(SubSeq(x, i, b)))
  <2>1. PICK s : StarSteps(s, x, W) /\ s[n] = y
    BY <1>0, ProfanitySteps
  <2> QED  BY <2>1 DEF StarSteps
<1>2. ASSUME NEW i \in 1 .. n, s[i - 1] \in Seq(G!Pieces) PROVE Starred(s[i - 1], s[i], W)
  <2>1. CASE s[i] = s[i - 1]  BY <1>2, <2>1, StarredSame
  <2>2. CASE \E b, p : /\ CoreAt(x, W, G!Marks, i, b, p) /\ HasCore(SubSeq(x, i, b), W, G!Marks)
                       /\ s[i] = G!Replaced(s[i - 1], SubSeq(x, i, b),
                                            G!mask_token(SubSeq(x, i, b)))
    <3>1. PICK b, p : /\ CoreAt(x, W, G!Marks, i, b, p) /\ HasCore(SubSeq(x, i, b), W, G!Marks)
                      /\ s[i] = G!Replaced(s[i - 1], SubSeq(x, i, b),
                                           G!mask_token(SubSeq(x, i, b)))
      BY <2>2
    <3>2. SubSeq(x, i, b) \in Seq(G!Pieces)
      <4>1. b \in i .. Len(x)  BY <3>1 DEF CoreAt, IsWord
      <4> QED  BY <4>1, PartIs
    <3> QED  BY <1>0, <1>2, <3>1, <3>2, StarsPut
  <2> QED  BY <1>1, <2>1, <2>2
<1>3. \A i \in 0 .. n : \A j \in i .. n : Starred(s[i], s[j], W)
  BY <1>0, <1>1, <1>2, StarredInTurn
<1>4. \A i \in 0 .. n : Starred(x, s[i], W) /\ Starred(s[i], y, W)
  <2>1. 0 \in 0 .. n /\ n \in 0 .. n  BY <1>0
  <2>2. \A i \in 0 .. n : i \in 0 .. n /\ n \in i .. n  BY <1>0
  <2> HIDE DEF n
  <2> QED  BY <1>1, <1>3, <2>1, <2>2
<1>5. Starred(x, y, W)
  <2>1. 0 \in 0 .. n  BY <1>0
  <2> QED  BY <1>1, <1>4, <2>1
<1>6. ASSUME NEW a, NEW b, NEW p, CoreAt(x, W, G!Marks, a, b, p), y[p] \in W,
             \A k \in a .. b : k # p => x[k] \notin W
      PROVE  FALSE
  <2>1. a \in 1 .. n /\ b \in a .. n /\ p \in a .. b /\ IsWord(x, a, b)
    BY <1>6 DEF CoreAt, IsWord
  <2>2. PICK c, q : /\ CoreAt(x, W, G!Marks, a, c, q) /\ HasCore(SubSeq(x, a, c), W, G!Marks)
                    /\ s[a] = G!Replaced(s[a - 1], SubSeq(x, a, c),
                                         G!mask_token(SubSeq(x, a, c)))
    BY <1>1, <1>6, <2>1
  <2>3. c = b
    <3>1. IsWord(x, a, c)  BY <2>2 DEF CoreAt
    <3> QED  BY <2>1, <3>1, SameWord
  <2> DEFINE u == s[a - 1]
             v == s[a]
             token == SubSeq(x, a, b)
  <2>4. a - 1 \in 0 .. n /\ a \in 0 .. n  BY <1>0, <2>1
  <2>5. Starred(x, u, W) /\ Starred(u, y, W) /\ Starred(v, y, W)  BY <1>4, <2>4
  <2> HIDE DEF u, v
  <2>6. \A k \in a .. b : u[k] = x[k]
    <3>1. u[p] = x[p]  BY <1>0, <1>6, <2>1, <2>5 DEF Starred
    <3>2. ASSUME NEW k \in a .. b, k # p PROVE u[k] = x[k]
      BY <1>6, <2>1, <2>5, <3>2 DEF Starred
    <3> QED  BY <3>1, <3>2
  <2>7. u \in Seq(G!Pieces) /\ Len(u) = n /\ IsWord(u, a, b)
    <3>1. u \in Seq(G!Pieces) /\ Len(u) = n  BY <2>5 DEF Starred
    <3> QED  BY <1>0, <2>1, <2>5, <3>1, StarredWord
  <2>8. SubSeq(u, a, b) = token /\ token \in Seq(G!Pieces)
    <3>1. /\ token \in Seq(G!Pieces) /\ Len(token) = b - a + 1
          /\ \A k \in a .. b : token[k - a + 1] = x[k]
      BY <2>1, PartIs
    <3>2. /\ SubSeq(u, a, b) \in Seq(G!Pieces) /\ Len(SubSeq(u, a, b)) = b - a + 1
          /\ \A k \in a .. b : SubSeq(u, a, b)[k - a + 1] = u[k]
      BY <2>1, <2>7, PartIs
    <3> HIDE DEF token
    <3>3. \A k \in 1 .. b - a + 1 : k + a - 1 \in a .. b /\ (k + a - 1) - a + 1 = k
      BY <2>1
    <3>4. ASSUME NEW k \in 1 .. Len(token) PROVE SubSeq(u, a, b)[k] = token[k]
      BY <2>6, <3>1, <3>2, <3>3
    <3> QED  BY <3>1, <3>2, <3>4, SeqEqual
  <2>9. v[p] \in G!Marks
    <3>1. v = G!Replaced(u, token, G!mask_token(token)) /\ HasCore(token, W, G!Marks)
      BY <2>2, <2>3 DEF u, v
    <3> HIDE DEF token
    <3>2. \A k \in a .. b : v[k] \in G!Marks
      BY <1>0, <2>7, <2>8, <3>1, StarsPut
    <3> QED  BY <2>1, <3>2
  <2>10. y[p] \in G!Marks
    <3>1. y[p] = v[p] \/ y[p] = "stars"
      <4>1. p \in 1 .. Len(v)  BY <1>0, <1>5, <2>1, <2>5 DEF Starred
      <4> QED  BY <2>5, <4>1 DEF Starred
    <3> QED  BY <2>9, <3>1 DEF G!Marks
  <2> QED  BY <1>0, <1>6, <2>10 DEF Known
<1>7. ASSUME AtMostOne(x, W), NEW a, NEW b, NEW p, CoreAt(y, W, G!Marks, a, b, p) PROVE FALSE
  <2>1. /\ IsWord(y, a, b) /\ p \in a .. b /\ y[p] \in W
        /\ \A k \in a .. b : k # p => y[k] \in G!Marks
    BY <1>7 DEF CoreAt
  <2>2. IsWord(x, a, b)  BY <1>0, <1>5, <2>1, StarredWord
  <2>3. a \in 1 .. n /\ b \in a .. n  BY <2>2 DEF IsWord
  <2>4. x[p] = y[p]  BY <1>0, <1>5, <2>1, <2>3 DEF Starred
  <2>5. \A k \in a .. b : k # p => x[k] \notin W
    BY <1>7, <2>1, <2>2, <2>4 DEF AtMostOne
  <2>6. \A k \in a .. b : k # p => x[k] \in G!Marks
    BY <1>5, <2>1, <2>3, <2>5 DEF Starred
  <2>7. CoreAt(x, W, G!Marks, a, b, p)  BY <2>1, <2>2, <2>4, <2>6 DEF CoreAt
  <2> QED  BY <1>6, <2>1, <2>5, <2>7
<1>8. ASSUME NEW a, IsWord(x, a, a), x[a] \in W, NEW k \in 1 .. Len(y) PROVE y[k] # x[a]
  <2>1. a \in 1 .. n /\ CoreAt(x, W, G!Marks, a, a, a)
    <3>1. a \in 1 .. n  BY <1>8 DEF IsWord
    <3>2. a \in a .. a /\ \A j \in a .. a : j = a  BY <3>1
    <3> QED  BY <1>8, <3>1, <3>2 DEF CoreAt
  <2>2. PICK c, q : /\ CoreAt(x, W, G!Marks, a, c, q) /\ HasCore(SubSeq(x, a, c), W, G!Marks)
                    /\ s[a] = G!Replaced(s[a - 1], SubSeq(x, a, c),
                                         G!mask_token(SubSeq(x, a, c)))
    BY <1>1, <2>1
  <2>3. c = a
    <3>1. IsWord(x, a, c)  BY <2>2 DEF CoreAt
    <3> QED  BY <1>8, <3>1, SameWord
  <2> DEFINE token == SubSeq(x, a, a)
  <2>4. token \in Seq(G!Pieces) /\ Len(token) = 1 /\ token[1] = x[a]
    <3>1. a \in a .. Len(x) /\ a - a + 1 = 1 /\ a + 1 - 1 = a /\ 1 \in 1 .. 1  BY <2>1
    <3>2. /\ token \in Seq(G!Pieces) /\ Len(token) = a - a + 1
          /\ \A j \in 1 .. a - a + 1 : token[j] = x[a + j - 1]
      BY <2>1, <3>1, PartIs
    <3> HIDE DEF token
    <3> QED  BY <3>1, <3>2
  <2>5. a - 1 \in 0 .. n /\ a \in 0 .. n  BY <1>0, <2>1
  <2>6. s[a - 1] \in Seq(G!Pieces) /\ Len(s[a - 1]) = n /\ Starred(s[a], y, W) /\ Len(y) = n
        /\ Len(s[a]) = n
    <3>1. /\ Starred(x, s[a - 1], W) /\ Starred(s[a], y, W) /\ Starred(x, y, W)
          /\ Starred(x, s[a], W)
      BY <1>4, <1>5, <2>5
    <3> QED  BY <3>1 DEF Starred
  <2>7. s[a][k] # x[a]
    <3>1. s[a] = G!Replaced(s[a - 1], token, G!mask_token(token)) /\ HasCore(token, W, G!Marks)
      BY <2>2, <2>3
    <3> HIDE DEF token
    <3>2. \A j \in 1 .. Len(s[a - 1]) : s[a][j] # token[1]
      BY <1>0, <2>4, <2>6, <3>1, StarsPut
    <3> QED  BY <2>4, <2>6, <3>2
  <2>8. y[k] = s[a][k] \/ y[k] = "stars"  BY <2>6 DEF Starred
  <2> QED  BY <1>0, <1>8, <2>7, <2>8
<1> QED  BY <1>5, <1>7, <1>8 DEF HasCores

-----------------------------------------------------------------------------
(* What a single piece for every hit leaves.                               *)

(* Nothing that is put from i to e is put for a hit.                       *)
Unhit(ends, h, i, e) == \A k \in i .. e : ends[h[k]] = 0

(* The positions stay together.                                            *)
Straight(text, h, out, i, e) ==
  /\ \A k \in i .. e + 1 : h[k] = h[i] + k - i
  /\ \A k \in i .. e : out[k] = text[h[i] + k - i]

(* Positions that are not hit stay together.                               *)
LEMMA TraceStraight ==
  ASSUME NEW text \in Seq(G!Pieces), NEW ends, NEW piece, Ends(text, ends),
         NEW out, NEW m, NEW h, Trace(text, ends, piece, 1, out, m, h),
         NEW i \in 1 .. m, NEW e \in i .. m, Unhit(ends, h, i, e)
  PROVE  Straight(text, h, out, i, e)
<1>1. /\ m \in Nat /\ h \in [1 .. m + 1 -> 1 .. Len(text) + 1] /\ Len(text) \in Nat
      /\ \A k \in 1 .. m : /\ h[k] \in 1 .. Len(text) /\ h[k + 1] = After(ends, h[k])
                           /\ out[k] = IF ends[h[k]] # 0 THEN piece ELSE text[h[k]]
  BY DEF Trace
<1>0. \A k \in i .. e : ends[h[k]] = 0  BY DEF Unhit
<1>2. i \in 1 .. m /\ e \in i .. m /\ h[i] \in 1 .. Len(text)  BY <1>1
<1> DEFINE Bad == {k \in i .. e + 1 : h[k] # h[i] + k - i}
<1>3. Bad = {}
  <2>1. SUFFICES ASSUME Bad # {} PROVE FALSE
    OBVIOUS
  <2>2. PICK k \in Bad : \A j \in Bad : k =< j
    <3>1. Bad \subseteq Nat  BY <1>2
    <3> HIDE DEF Bad
    <3> QED  BY <2>1, <3>1, LeastExists
  <2>3. k \in i .. e + 1 /\ h[k] # h[i] + k - i  BY <2>2
  <2>4. k # i  BY <1>2, <2>3
  <2>5. k - 1 \in i .. e /\ k - 1 \in 1 .. m /\ k - 1 \in i .. e + 1 /\ ~ (k =< k - 1)
        /\ (k - 1) + 1 = k
    BY <1>1, <1>2, <2>3, <2>4
  <2>6. k - 1 \notin Bad
    <3> HIDE DEF Bad
    <3> QED  BY <2>2, <2>5
  <2>7. h[k - 1] = h[i] + (k - 1) - i  BY <2>5, <2>6
  <2>8. h[k] = h[k - 1] + 1
    <3>1. h[(k - 1) + 1] = After(ends, h[k - 1]) /\ ends[h[k - 1]] = 0
      BY <1>0, <1>1, <2>5
    <3> QED  BY <2>5, <3>1 DEF After
  <2> QED  BY <1>2, <2>3, <2>7, <2>8
<1>4. \A k \in i .. e + 1 : h[k] = h[i] + k - i  BY <1>3
<1>5. ASSUME NEW k \in i .. e PROVE out[k] = text[h[i] + k - i]
  <2>1. k \in 1 .. m /\ k \in i .. e + 1  BY <1>1, <1>2
  <2> QED  BY <1>0, <1>1, <1>4, <2>1
<1> QED  BY <1>4, <1>5 DEF Straight

(* The same, from the positions of the text that are not hit.              *)
Missed(ends, a, b) == \A j \in a .. b : ends[j] = 0

LEMMA TraceReaches ==
  ASSUME NEW text \in Seq(G!Pieces), NEW ends, NEW piece, Ends(text, ends),
         NEW out, NEW m, NEW h, Trace(text, ends, piece, 1, out, m, h),
         NEW i \in 1 .. m, NEW J \in h[i] .. Len(text), Missed(ends, h[i], J)
  PROVE  \E e \in i .. m : h[e] = J /\ Unhit(ends, h, i, e)
<1>0. \A j \in h[i] .. J : ends[j] = 0  BY DEF Missed
<1>1. /\ m \in Nat /\ h \in [1 .. m + 1 -> 1 .. Len(text) + 1] /\ Len(text) \in Nat
      /\ \A k \in 1 .. m : h[k] \in 1 .. Len(text) /\ h[k + 1] = After(ends, h[k])
  BY DEF Trace
<1>2. i \in 1 .. m /\ h[i] \in 1 .. Len(text) /\ J \in h[i] .. Len(text) /\ J \in 1 .. Len(text)
      /\ J \in Int /\ h[i] \in Int
  BY <1>1
<1>3. PICK e \in 1 .. m : h[e] =< J /\ J < After(ends, h[e])
  BY <1>2, TraceCovers
<1>4. e \in 1 .. m + 1 /\ e + 1 \in 1 .. m + 1 /\ i \in 1 .. m + 1 /\ h[e + 1] = After(ends, h[e])
      /\ h[e] \in Int /\ h[e + 1] \in Int
  BY <1>1, <1>2, <1>3
<1>5. i =< e
  <2>1. SUFFICES ASSUME e < i PROVE FALSE  BY <1>2, <1>3
  <2>2. h[e + 1] =< h[i]
    <3>1. CASE e + 1 = i  BY <1>4, <3>1
    <3>2. CASE e + 1 # i
      <4>1. e + 1 < i  BY <1>2, <1>3, <2>1, <3>2
      <4>2. \A k \in 1 .. m + 1 : e + 1 < k => h[e + 1] < h[k]
        BY <1>4, TraceIncreases
      <4> QED  BY <1>2, <1>4, <4>1, <4>2
    <3> QED  BY <3>1, <3>2
  <2> QED  BY <1>2, <1>3, <1>4, <2>2
<1>6. ASSUME NEW k \in i .. e PROVE ends[h[k]] = 0
  <2>1. k \in 1 .. m /\ k \in 1 .. m + 1 /\ h[k] \in Int  BY <1>1, <1>2, <1>3
  <2>2. h[i] =< h[k]
    <3>1. \A j \in 1 .. m + 1 : i < j => h[i] < h[j]
      BY <1>2, <1>4, TraceIncreases
    <3>2. CASE i = k  BY <1>2, <3>2
    <3>3. CASE i < k  BY <1>2, <2>1, <3>1, <3>3
    <3> QED  BY <1>2, <2>1, <3>2, <3>3
  <2>3. h[k] =< h[e]
    <3>1. \A j \in 1 .. m + 1 : k < j => h[k] < h[j]
      BY <2>1, TraceIncreases
    <3>2. CASE k = e  BY <2>1, <3>2
    <3>3. CASE k < e  BY <1>4, <2>1, <3>1, <3>3
    <3> QED  BY <1>3, <2>1, <3>2, <3>3
  <2>4. h[k] \in h[i] .. J  BY <1>2, <1>3, <1>4, <2>1, <2>2, <2>3
  <2> QED  BY <1>0, <2>4
<1>7. h[e] = J
  <2>1. e \in i .. e  BY <1>3, <1>5
  <2>2. ends[h[e]] = 0  BY <1>6, <2>1
  <2>3. After(ends, h[e]) = h[e] + 1  BY <2>2 DEF After
  <2> QED  BY <1>2, <1>3, <1>4, <2>3
<1> QED  BY <1>3, <1>5, <1>6, <1>7 DEF Unhit

(* Nothing but what is put is new.                                         *)
Within(x, y, N) == \A k \in 1 .. Len(y) : y[k] \in N \/ \E j \in 1 .. Len(x) : y[k] = x[j]

(* A rewriting puts nothing new but its piece.                             *)
LEMMA TraceWithin ==
  ASSUME NEW text, NEW ends, NEW piece, NEW out, NEW m, NEW h,
         Trace(text, ends, piece, 1, out, m, h)
  PROVE  Within(text, out, {piece}) /\ out \in Seq(G!Pieces) /\ Len(out) = m
BY DEF Trace, Within

(* Where nothing is hit, nothing changes.                                  *)
LEMMA NothingHit ==
  ASSUME NEW text \in Seq(G!Pieces), NEW ends, NEW piece \in G!Pieces,
         \A i \in 1 .. Len(text) : ends[i] = 0
  PROVE  G!Rewritten(text, ends, <<piece>>) = text
<1> DEFINE n == Len(text)
           out == G!Rewritten(text, ends, <<piece>>)
<1>1. Ends(text, ends)  BY DEF Ends
<1>2. PICK m, h : Trace(text, ends, piece, 1, out, m, h)  BY <1>1, RewrittenOne
<1> HIDE DEF out
<1>3. /\ m \in Nat /\ n \in Nat /\ out \in Seq(G!Pieces) /\ Len(out) = m
      /\ h[1] = 1 /\ h[m + 1] = n + 1 /\ \A k \in 1 .. m : h[k] \in 1 .. n
  BY <1>2 DEF Trace
<1>4. CASE m = 0
  <2>1. n = 0  BY <1>3, <1>4
  <2> QED  BY <1>3, <1>4, <2>1 DEF out
<1>5. CASE m # 0
  <2>1. 1 \in 1 .. m /\ m \in 1 .. m /\ Unhit(ends, h, 1, m)  BY <1>3, <1>5 DEF Unhit
  <2>2. /\ \A k \in 1 .. m + 1 : h[k] = h[1] + k - 1
        /\ \A k \in 1 .. m : out[k] = text[h[1] + k - 1]
    <3>1. Straight(text, h, out, 1, m)  BY <1>1, <1>2, <2>1, TraceStraight
    <3> QED  BY <3>1 DEF Straight
  <2>3. m = n
    <3>1. m + 1 \in 1 .. m + 1  BY <1>3
    <3>2. h[m + 1] = 1 + (m + 1) - 1  BY <1>3, <2>2, <3>1
    <3> QED  BY <1>3, <3>2
  <2>4. \A k \in 1 .. n : out[k] = text[k]
    <3>1. \A k \in 1 .. m : 1 + k - 1 = k  BY <1>3
    <3> QED  BY <1>3, <2>2, <2>3, <3>1
  <2>5. out = text  BY <1>3, <2>3, <2>4, SeqEqual
  <2> QED  BY <2>5 DEF out
<1> QED  BY <1>4, <1>5

(* Words are bounded where those of the text are.                          *)
Edges(text, h, m, a, b) ==
  /\ a \in 1 .. m /\ b \in a .. m /\ b + 1 \in 1 .. m + 1
  /\ h[a] \in 1 .. Len(text) /\ h[b + 1] \in h[a] + 1 .. Len(text) + 1
  /\ h[a] > 1 => text[h[a] - 1] = "gap"
  /\ h[b + 1] =< Len(text) => text[h[b + 1]] = "gap"

(* A word of the result begins and ends where words of the text do.        *)
LEMMA TraceEdges ==
  ASSUME NEW text \in Seq(G!Pieces), NEW ends, NEW piece, piece # "gap", Ends(text, ends),
         NEW out, NEW m, NEW h, Trace(text, ends, piece, 1, out, m, h),
         NEW a, NEW b, IsWord(out, a, b)
  PROVE  Edges(text, h, m, a, b)
<1>1. /\ m \in Nat /\ h \in [1 .. m + 1 -> 1 .. Len(text) + 1] /\ Len(text) \in Nat
      /\ Len(out) = m /\ h[1] = 1 /\ h[m + 1] = Len(text) + 1
      /\ \A k \in 1 .. m : /\ h[k] \in 1 .. Len(text) /\ h[k + 1] = After(ends, h[k])
                           /\ out[k] = IF ends[h[k]] # 0 THEN piece ELSE text[h[k]]
  BY DEF Trace
<1>2. /\ a \in 1 .. m /\ b \in a .. m /\ (a > 1 => out[a - 1] = "gap")
      /\ b < m => out[b + 1] = "gap"
  BY <1>1 DEF IsWord
<1>3. /\ a \in 1 .. m + 1 /\ b + 1 \in 1 .. m + 1 /\ a < b + 1
      /\ h[a] \in 1 .. Len(text) /\ h[b + 1] \in 1 .. Len(text) + 1
  BY <1>1, <1>2
<1>4. h[a] < h[b + 1]
  <2>1. \A k \in 1 .. m + 1 : a < k => h[a] < h[k]  BY <1>3, TraceIncreases
  <2> QED  BY <1>3, <2>1
<1>5. ASSUME h[a] > 1 PROVE text[h[a] - 1] = "gap"
  <2>1. a > 1  BY <1>1, <1>2, <1>5
  <2>2. a - 1 \in 1 .. m /\ (a - 1) + 1 = a /\ out[a - 1] = "gap"  BY <1>1, <1>2, <2>1
  <2>3. ends[h[a - 1]] = 0 /\ text[h[a - 1]] = "gap"  BY <1>1, <2>2
  <2>4. h[a] = h[a - 1] + 1
    <3>1. h[(a - 1) + 1] = After(ends, h[a - 1])  BY <1>1, <2>2
    <3> QED  BY <2>2, <2>3, <3>1 DEF After
  <2>5. h[a - 1] \in Int  BY <1>1, <2>2
  <2>6. h[a] - 1 = h[a - 1]  BY <2>4, <2>5
  <2> QED  BY <2>3, <2>6
<1>6. ASSUME h[b + 1] =< Len(text) PROVE text[h[b + 1]] = "gap"
  <2>1. b # m  BY <1>1, <1>6
  <2>2. b < m /\ b + 1 \in 1 .. m  BY <1>1, <1>2, <2>1
  <2> QED  BY <1>1, <1>2, <2>2
<1> QED  BY <1>1, <1>2, <1>3, <1>4, <1>5, <1>6 DEF Edges

(* A word in which nothing is hit is a word of the text.                   *)
SameAs(x, c, y, a, b) ==
  IsWord(x, c, c + b - a) /\ \A k \in a .. b : y[k] = x[c + k - a]

(* A word in which nothing was put is a word of the text.                  *)
LEMMA TraceWord ==
  ASSUME NEW text \in Seq(G!Pieces), NEW ends, NEW piece, piece # "gap", Ends(text, ends),
         NEW out, NEW m, NEW h, Trace(text, ends, piece, 1, out, m, h),
         NEW a, NEW b, IsWord(out, a, b), Unhit(ends, h, a, b)
  PROVE  /\ SameAs(text, h[a], out, a, b)
         /\ \A k \in a .. b : h[k] = h[a] + k - a
<1>1. m \in Nat /\ Len(text) \in Nat /\ Len(out) = m  BY DEF Trace
<1>2. /\ a \in 1 .. m /\ b \in a .. m /\ b + 1 \in 1 .. m + 1
      /\ h[a] \in 1 .. Len(text) /\ h[b + 1] \in h[a] + 1 .. Len(text) + 1
      /\ h[a] > 1 => text[h[a] - 1] = "gap"
      /\ h[b + 1] =< Len(text) => text[h[b + 1]] = "gap"
  BY TraceEdges DEF Edges
<1>3. /\ \A k \in a .. b + 1 : h[k] = h[a] + k - a
      /\ \A k \in a .. b : out[k] = text[h[a] + k - a]
  <2>1. a \in 1 .. m /\ b \in a .. m  BY <1>2
  <2>2. Straight(text, h, out, a, b)  BY <2>1, TraceStraight
  <2> QED  BY <2>2 DEF Straight
<1> DEFINE A == h[a]
           Z == h[a] + b - a
<1>4. h[b + 1] = Z + 1
  <2>1. b + 1 \in a .. b + 1  BY <1>2
  <2>2. h[b + 1] = h[a] + (b + 1) - a  BY <1>3, <2>1
  <2> QED  BY <1>2, <2>2
<1>5. A \in 1 .. Len(text) /\ Z \in A .. Len(text)
  <2>1. A \in 1 .. Len(text)  BY <1>2
  <2>2. Z \in Int /\ Z >= A  BY <1>2
  <2>3. Z + 1 \in h[a] + 1 .. Len(text) + 1  BY <1>2, <1>4
  <2> HIDE DEF Z
  <2> QED  BY <1>1, <2>1, <2>2, <2>3
<1>6. ASSUME NEW j \in A .. Z PROVE text[j] # "gap"
  <2>1. j - A + a \in a .. b /\ A + (j - A + a) - a = j  BY <1>2
  <2>2. out[j - A + a] # "gap"  BY <2>1 DEF IsWord
  <2>3. out[j - A + a] = text[A + (j - A + a) - a]  BY <1>3, <2>1
  <2> QED  BY <2>1, <2>2, <2>3
<1>7. Z < Len(text) => text[Z + 1] = "gap"
  <2>1. Z \in Int  BY <1>2
  <2>2. Z < Len(text) => h[b + 1] =< Len(text)
    <3> HIDE DEF Z
    <3> QED  BY <1>1, <1>4, <2>1
  <2> QED  BY <1>2, <1>4, <2>2
<1>8. IsWord(text, A, Z)
  <2> HIDE DEF Z
  <2> QED  BY <1>2, <1>5, <1>6, <1>7 DEF IsWord
<1>9. \A k \in a .. b : k \in a .. b + 1  BY <1>2
<1> QED  BY <1>3, <1>8, <1>9 DEF SameAs

(* No word is new but for what is put.                                     *)
OldWords(x, y, N) ==
  \A a, b : IsWord(y, a, b) /\ (\A k \in a .. b : y[k] \notin N) => \E c : SameAs(x, c, y, a, b)

(* A rewriting has no new word but those it puts its piece in.             *)
LEMMA TraceOldWords ==
  ASSUME NEW text \in Seq(G!Pieces), NEW ends, NEW piece, piece # "gap", Ends(text, ends),
         NEW out, NEW m, NEW h, Trace(text, ends, piece, 1, out, m, h)
  PROVE  OldWords(text, out, {piece})
<1>1. ASSUME NEW a, NEW b, IsWord(out, a, b), \A k \in a .. b : out[k] # piece
      PROVE  \E c : SameAs(text, c, out, a, b)
  <2>1. a \in 1 .. m /\ b \in a .. m /\ m \in Nat  BY <1>1 DEF Trace, IsWord
  <2>2. ASSUME NEW k \in a .. b PROVE ends[h[k]] = 0
    <3>1. k \in 1 .. m /\ out[k] # piece  BY <1>1, <2>1
    <3> QED  BY <3>1 DEF Trace
  <2>3. Unhit(ends, h, a, b)  BY <2>2 DEF Unhit
  <2>4. SameAs(text, h[a], out, a, b)  BY <1>1, <2>3, TraceWord
  <2> QED  BY <2>4
<1> QED  BY <1>1 DEF OldWords

(* Nor have two after another.                                             *)
LEMMA OldWordsOn ==
  ASSUME NEW x, NEW y, NEW z, NEW N, NEW M, OldWords(x, y, N), OldWords(y, z, M)
  PROVE  OldWords(x, z, N \union M)
<1>1. ASSUME NEW a, NEW b, IsWord(z, a, b), \A k \in a .. b : z[k] \notin N \union M
      PROVE  \E c : SameAs(x, c, z, a, b)
  <2>1. PICK c : SameAs(y, c, z, a, b)  BY <1>1 DEF OldWords
  <2> DEFINE d == c + b - a
  <2>2. IsWord(y, c, d) /\ \A k \in a .. b : z[k] = y[c + k - a]  BY <2>1 DEF SameAs
  <2>3. a \in Int /\ b \in Int /\ c \in Int /\ d \in c .. d
    <3>1. a \in Int /\ b \in Int  BY <1>1 DEF IsWord
    <3>2. c \in Int /\ d \in c .. Len(y)  BY <2>2 DEF IsWord
    <3> HIDE DEF d
    <3> QED  BY <3>1, <3>2
  <2>4. ASSUME NEW j \in c .. d PROVE y[j] \notin N
    <3>1. j - c + a \in a .. b /\ c + (j - c + a) - a = j  BY <2>3
    <3> HIDE DEF d
    <3>2. z[j - c + a] = y[c + (j - c + a) - a]  BY <2>2, <3>1
    <3> QED  BY <1>1, <3>1, <3>2
  <2>5. PICK e : SameAs(x, e, y, c, d)
    <3> HIDE DEF d
    <3> QED  BY <2>2, <2>4 DEF OldWords
  <2>6. IsWord(x, e, e + d - c) /\ \A k \in c .. d : y[k] = x[e + k - c]  BY <2>5 DEF SameAs
  <2>7. e \in Int  BY <2>6 DEF IsWord
  <2>8. e + d - c = e + b - a  BY <2>3, <2>7
  <2>9. ASSUME NEW k \in a .. b PROVE z[k] = x[e + k - a]
    <3>1. c + k - a \in c .. d /\ e + (c + k - a) - c = e + k - a  BY <2>3, <2>7
    <3> HIDE DEF d
    <3>2. y[c + k - a] = x[e + (c + k - a) - c]  BY <2>6, <3>1
    <3> QED  BY <2>2, <3>1, <3>2
  <2> HIDE DEF d
  <2>10. SameAs(x, e, z, a, b)  BY <2>6, <2>8, <2>9 DEF SameAs
  <2> QED  BY <2>10
<1> QED  BY <1>1 DEF OldWords

(* Then no word is new that has a core of one piece of W.                  *)
LEMMA NoNewCore ==
  ASSUME NEW x, NEW y, NEW N, NEW W, NEW M, OldWords(x, y, N), N \intersect (W \union M) = {},
         ~ HasCores(x, W, M)
  PROVE  ~ HasCores(y, W, M)
<1>1. SUFFICES ASSUME NEW a, NEW b, NEW p, CoreAt(y, W, M, a, b, p) PROVE FALSE
  BY DEF HasCores
<1>2. /\ IsWord(y, a, b) /\ p \in a .. b /\ y[p] \in W
      /\ \A k \in a .. b : k # p => y[k] \in M
  BY <1>1 DEF CoreAt
<1>3. PICK c : SameAs(x, c, y, a, b)
  <2>1. \A k \in a .. b : y[k] \notin N  BY <1>2
  <2> QED  BY <1>2, <2>1 DEF OldWords
<1> DEFINE d == c + b - a
<1>4. IsWord(x, c, d) /\ \A k \in a .. b : y[k] = x[c + k - a]  BY <1>3 DEF SameAs
<1>5. a \in Int /\ b \in Int /\ c \in Int
  <2>1. a \in Int /\ b \in Int  BY <1>2 DEF IsWord
  <2>2. c \in Int  BY <1>4 DEF IsWord
  <2> QED  BY <2>1, <2>2
<1> DEFINE q == c + p - a
<1>6. q \in c .. d /\ x[q] \in W
  <2>1. q \in c .. d  BY <1>2, <1>5
  <2> QED  BY <1>2, <1>4, <2>1
<1>7. ASSUME NEW j \in c .. d, j # q PROVE x[j] \in M
  <2>1. j - c + a \in a .. b /\ j - c + a # p /\ c + (j - c + a) - a = j  BY <1>2, <1>5, <1>7
  <2>2. y[j - c + a] \in M  BY <1>2, <2>1
  <2>3. y[j - c + a] = x[c + (j - c + a) - a]  BY <1>4, <2>1
  <2> QED  BY <2>1, <2>2, <2>3
<1> HIDE DEF d, q
<1>8. CoreAt(x, W, M, c, d, q)  BY <1>4, <1>6, <1>7 DEF CoreAt
<1> QED  BY <1>8 DEF HasCores

-----------------------------------------------------------------------------
(* Secrets.                                                                *)

(* The word of a word is a word.                                           *)
LEMMA SameAsOn ==
  ASSUME NEW x, NEW y, NEW z, NEW a, NEW b, NEW c, NEW e, IsWord(z, a, b),
         SameAs(y, c, z, a, b), SameAs(x, e, y, c, c + b - a)
  PROVE  SameAs(x, e, z, a, b)
<1> DEFINE d == c + b - a
<1>1. IsWord(y, c, d) /\ \A k \in a .. b : z[k] = y[c + k - a]  BY DEF SameAs
<1>2. IsWord(x, e, e + d - c) /\ \A k \in c .. d : y[k] = x[e + k - c]  BY DEF SameAs
<1>3. a \in Int /\ b \in Int /\ c \in Int /\ e \in Int
  <2>1. a \in Int /\ b \in Int  BY DEF IsWord
  <2>2. c \in Int  BY <1>1 DEF IsWord
  <2>3. e \in Int  BY <1>2 DEF IsWord
  <2> QED  BY <2>1, <2>2, <2>3
<1>4. e + d - c = e + b - a  BY <1>3
<1>5. ASSUME NEW k \in a .. b PROVE z[k] = x[e + k - a]
  <2>1. c + k - a \in c .. d /\ e + (c + k - a) - c = e + k - a  BY <1>3
  <2> HIDE DEF d
  <2>2. y[c + k - a] = x[e + (c + k - a) - c]  BY <1>2, <2>1
  <2> QED  BY <1>1, <2>1, <2>2
<1> HIDE DEF d
<1> QED  BY <1>2, <1>4, <1>5 DEF SameAs

(* A word is its own.                                                      *)
LEMMA SameAsIts ==
  ASSUME NEW x, NEW a, NEW b, IsWord(x, a, b)
  PROVE  SameAs(x, a, x, a, b)
<1>1. a \in Int /\ b \in Int  BY DEF IsWord
<1>2. a + b - a = b /\ \A k \in a .. b : a + k - a = k  BY <1>1
<1> QED  BY <1>2 DEF SameAs

(* The words with a key are words of the text before.                      *)
HasKey(x, a, b) == \E p \in a .. b : x[p] \in G!Keys
KeyWords(x, y) ==
  \A a, b : IsWord(y, a, b) /\ HasKey(y, a, b) => \E c : SameAs(x, c, y, a, b)

(* A word that is the same has the same key.                               *)
LEMMA KeyInSame ==
  ASSUME NEW x, NEW y, NEW a, NEW b, NEW c, IsWord(y, a, b), SameAs(x, c, y, a, b),
         HasKey(y, a, b)
  PROVE  IsWord(x, c, c + b - a) /\ HasKey(x, c, c + b - a)
<1>1. PICK p \in a .. b : y[p] \in G!Keys  BY DEF HasKey
<1>2. IsWord(x, c, c + b - a) /\ x[c + p - a] \in G!Keys  BY <1>1 DEF SameAs
<1>3. c + p - a \in c .. c + b - a
  <2>1. a \in Int /\ b \in Int  BY DEF IsWord
  <2>2. c \in Int  BY <1>2 DEF IsWord
  <2> QED  BY <1>1, <2>1, <2>2
<1> QED  BY <1>2, <1>3 DEF HasKey

KeyStep(x, y) ==
  /\ y \in Seq(G!Pieces)
  /\ KeyWords(x, y) /\ OldWords(x, y, {"[key]"}) /\ Within(x, y, {"[key]"})

(* Nothing changed is such a step.                                         *)
LEMMA KeyStepSame ==
  ASSUME NEW x \in Seq(G!Pieces)
  PROVE  KeyStep(x, x)
<1>1. \A a, b : IsWord(x, a, b) => \E c : SameAs(x, c, x, a, b)  BY SameAsIts
<1>2. Within(x, x, {"[key]"})  BY DEF Within
<1> QED  BY <1>1, <1>2 DEF KeyStep, KeyWords, OldWords

(* What two rewritings put is new after both.                              *)
LEMMA WithinOn ==
  ASSUME NEW x, NEW y, NEW z, NEW N, NEW M, Within(x, y, N), Within(y, z, M)
  PROVE  Within(x, z, N \union M)
BY DEF Within

(* Two such steps are one.                                                 *)
LEMMA KeyStepOn ==
  ASSUME NEW x, NEW y, NEW z, KeyStep(x, y), KeyStep(y, z)
  PROVE  KeyStep(x, z)
<1>1. KeyWords(x, z)
  <2>1. ASSUME NEW a, NEW b, IsWord(z, a, b), HasKey(z, a, b)
        PROVE  \E c : SameAs(x, c, z, a, b)
    <3>1. PICK c : SameAs(y, c, z, a, b)  BY <2>1 DEF KeyStep, KeyWords
    <3>2. IsWord(y, c, c + b - a) /\ HasKey(y, c, c + b - a)  BY <2>1, <3>1, KeyInSame
    <3>3. PICK e : SameAs(x, e, y, c, c + b - a)  BY <3>2 DEF KeyStep, KeyWords
    <3>4. SameAs(x, e, z, a, b)  BY <2>1, <3>1, <3>3, SameAsOn
    <3> QED  BY <3>4
  <2> QED  BY <2>1 DEF KeyWords
<1>2. OldWords(x, z, {"[key]"} \union {"[key]"}) /\ Within(x, z, {"[key]"} \union {"[key]"})
  BY OldWordsOn, WithinOn DEF KeyStep
<1>3. {"[key]"} \union {"[key]"} = {"[key]"}  OBVIOUS
<1> QED  BY <1>1, <1>2, <1>3 DEF KeyStep

KeysApart(x) == AtMostOne(x, G!Keys)

(* They bring no two keys together in a word.                              *)
LEMMA KeysStayApart ==
  ASSUME NEW x, NEW y, KeysApart(x), KeyStep(x, y)
  PROVE  KeysApart(y)
<1>1. SUFFICES ASSUME NEW a, NEW b, IsWord(y, a, b), NEW i \in a .. b, NEW j \in a .. b,
                      y[i] \in G!Keys, y[j] \in G!Keys
               PROVE  i = j
  BY DEF KeysApart, AtMostOne
<1>2. HasKey(y, a, b)  BY <1>1 DEF HasKey
<1>3. PICK c : SameAs(x, c, y, a, b)  BY <1>1, <1>2 DEF KeyStep, KeyWords
<1>4. IsWord(x, c, c + b - a) /\ x[c + i - a] \in G!Keys /\ x[c + j - a] \in G!Keys
  BY <1>1, <1>3 DEF SameAs
<1>5. a \in Int /\ b \in Int /\ c \in Int
  <2>1. a \in Int /\ b \in Int  BY <1>1 DEF IsWord
  <2>2. c \in Int  BY <1>4 DEF IsWord
  <2> QED  BY <2>1, <2>2
<1>6. c + i - a \in c .. c + b - a /\ c + j - a \in c .. c + b - a  BY <1>5
<1>7. c + i - a = c + j - a
  <2> DEFINE u == c + i - a
             v == c + j - a
             d == c + b - a
  <2>1. u \in c .. d /\ v \in c .. d /\ x[u] \in G!Keys /\ x[v] \in G!Keys /\ IsWord(x, c, d)
    BY <1>4, <1>6
  <2> HIDE DEF u, v, d
  <2>2. u = v  BY <2>1 DEF KeysApart, AtMostOne
  <2> QED  BY <2>2 DEF u, v
<1> QED  BY <1>5, <1>7

(* Nor does any number of them.                                            *)
LEMMA KeysInTurn ==
  ASSUME NEW n \in Nat, NEW s, s[0] \in Seq(G!Pieces), KeysApart(s[0]),
         \A i \in 1 .. n : s[i - 1] \in Seq(G!Pieces) /\ KeysApart(s[i - 1])
                             => KeyStep(s[i - 1], s[i])
  PROVE  /\ \A i \in 0 .. n : s[i] \in Seq(G!Pieces) /\ KeysApart(s[i])
         /\ \A i \in 0 .. n : \A j \in i .. n : KeyStep(s[i], s[j])
<1>1. \A i \in 0 .. n : s[i] \in Seq(G!Pieces) /\ KeysApart(s[i])
  <2> DEFINE Bad == {i \in 0 .. n : ~ (s[i] \in Seq(G!Pieces) /\ KeysApart(s[i]))}
  <2>1. SUFFICES ASSUME Bad # {} PROVE FALSE
    OBVIOUS
  <2>2. PICK i \in Bad : \A j \in Bad : i =< j
    <3>1. Bad \subseteq Nat  OBVIOUS
    <3> HIDE DEF Bad
    <3> QED  BY <2>1, <3>1, LeastExists
  <2>3. i \in 1 .. n /\ ~ (s[i] \in Seq(G!Pieces) /\ KeysApart(s[i]))  BY <2>2
  <2>4. i - 1 \in 0 .. n /\ ~ (i =< i - 1)  BY <2>3
  <2>5. s[i - 1] \in Seq(G!Pieces) /\ KeysApart(s[i - 1])  BY <2>2, <2>4
  <2>6. KeyStep(s[i - 1], s[i])  BY <2>3, <2>5
  <2>7. s[i] \in Seq(G!Pieces)  BY <2>6 DEF KeyStep
  <2> QED  BY <2>3, <2>5, <2>6, <2>7, KeysStayApart
<1>2. ASSUME NEW i \in 0 .. n PROVE \A j \in i .. n : KeyStep(s[i], s[j])
  <2> DEFINE Bad == {j \in i .. n : ~ KeyStep(s[i], s[j])}
  <2>1. SUFFICES ASSUME Bad # {} PROVE FALSE
    OBVIOUS
  <2>2. PICK j \in Bad : \A k \in Bad : j =< k
    <3>1. Bad \subseteq Nat  OBVIOUS
    <3> HIDE DEF Bad
    <3> QED  BY <2>1, <3>1, LeastExists
  <2>3. j \in i .. n /\ ~ KeyStep(s[i], s[j])  BY <2>2
  <2>4. j # i  BY <1>1, <2>3, KeyStepSame
  <2>5. j - 1 \in i .. n /\ j - 1 \in 0 .. n /\ j \in 1 .. n /\ ~ (j =< j - 1)
    BY <2>3, <2>4
  <2>6. j - 1 \notin Bad
    <3> HIDE DEF Bad
    <3> QED  BY <2>2, <2>5
  <2>7. KeyStep(s[i], s[j - 1])  BY <2>5, <2>6
  <2>8. KeyStep(s[j - 1], s[j])  BY <1>1, <2>5
  <2> QED  BY <2>3, <2>7, <2>8, KeyStepOn
<1> QED  BY <1>1, <1>2

(* Nothing that is hit has a gap: then words come from words.              *)
Gapless(text, ends) ==
  \A i \in 1 .. Len(text) : ends[i] # 0 => \A j \in i .. ends[i] : text[j] # "gap"

(* Then a word of the result comes from one word of the text.              *)
LEMMA TraceInside ==
  ASSUME NEW text \in Seq(G!Pieces), NEW ends, NEW piece, piece # "gap", Ends(text, ends),
         Gapless(text, ends),
         NEW out, NEW m, NEW h, Trace(text, ends, piece, 1, out, m, h),
         NEW a, NEW b, IsWord(out, a, b)
  PROVE  /\ IsWord(text, h[a], h[b + 1] - 1)
         /\ \A k \in a .. b : h[k] \in h[a] .. h[b + 1] - 1
<1> DEFINE A == h[a]
           Z == h[b + 1] - 1
<1>1. /\ m \in Nat /\ h \in [1 .. m + 1 -> 1 .. Len(text) + 1] /\ Len(text) \in Nat
      /\ Len(out) = m
      /\ \A k \in 1 .. m : /\ h[k] \in 1 .. Len(text) /\ h[k + 1] = After(ends, h[k])
                           /\ out[k] = IF ends[h[k]] # 0 THEN piece ELSE text[h[k]]
  BY DEF Trace
<1>2. /\ a \in 1 .. m /\ b \in a .. m /\ b + 1 \in 1 .. m + 1
      /\ h[a] \in 1 .. Len(text) /\ h[b + 1] \in h[a] + 1 .. Len(text) + 1
      /\ h[a] > 1 => text[h[a] - 1] = "gap"
      /\ h[b + 1] =< Len(text) => text[h[b + 1]] = "gap"
  <2>1. Edges(text, h, m, a, b)  BY TraceEdges
  <2> QED  BY <2>1 DEF Edges
<1>3. /\ A \in 1 .. Len(text) /\ Z \in A .. Len(text) /\ h[b + 1] = Z + 1
      /\ a \in 1 .. m + 1 /\ A \in Int /\ Z \in Int
  <2> DEFINE C == h[b + 1]
  <2>1. A \in 1 .. Len(text) /\ C \in A + 1 .. Len(text) + 1 /\ Z = C - 1  BY <1>2
  <2>2. a \in 1 .. m + 1  BY <1>1, <1>2
  <2> HIDE DEF A, Z, C
  <2>3. C \in Int /\ A \in Int  BY <1>1, <2>1
  <2>4. C = Z + 1 /\ Z \in A .. Len(text) /\ Z \in Int  BY <1>1, <2>1, <2>3
  <2> QED  BY <2>1, <2>2, <2>3, <2>4 DEF C
<1>4. ASSUME NEW k \in 1 .. m + 1 PROVE /\ a < k => A < h[k]
                                        /\ k < b + 1 => h[k] =< Z
                                        /\ k < a => h[k] < A
                                        /\ b + 1 < k => Z + 1 < h[k]
                                        /\ h[k] \in Int
  <2>1. \A j \in 1 .. m + 1 : a < j => h[a] < h[j]  BY <1>3, TraceIncreases
  <2>2. \A j \in 1 .. m + 1 : k < j => h[k] < h[j]  BY <1>4, TraceIncreases
  <2>3. \A j \in 1 .. m + 1 : b + 1 < j => h[b + 1] < h[j]  BY <1>2, TraceIncreases
  <2>4. h[k] \in Int /\ h[a] \in Int /\ h[b + 1] \in Int  BY <1>1, <1>2, <1>3
  <2>5. k < b + 1 => h[k] < h[b + 1]  BY <1>2, <2>2
  <2>6. b + 1 < k => h[b + 1] < h[k]  BY <2>3
  <2> HIDE DEF A, Z
  <2>7. h[a] = A /\ h[b + 1] = Z + 1  BY <1>3 DEF A
  <2> QED  BY <1>3, <2>1, <2>2, <2>4, <2>5, <2>6, <2>7
<1>5. ASSUME NEW j \in A .. Z PROVE text[j] # "gap"
  <2>1. j \in 1 .. Len(text)  BY <1>1, <1>3
  <2>2. PICK v \in 1 .. m : h[v] =< j /\ j < After(ends, h[v])  BY <2>1, TraceCovers
  <2>3. v \in 1 .. m + 1 /\ v + 1 \in 1 .. m + 1 /\ h[v + 1] = After(ends, h[v])
        /\ h[v] \in Int /\ h[v + 1] \in Int /\ h[v] \in 1 .. Len(text)
    BY <1>1, <2>2
  <2> HIDE DEF A, Z
  <2>4. v \in a .. b
    <3>1. ~ (v < a)
      <4>1. SUFFICES ASSUME v < a PROVE FALSE  OBVIOUS
      <4>2. CASE v + 1 = a
        <5>1. h[v + 1] = A  BY <4>2 DEF A
        <5> QED  BY <1>3, <2>2, <2>3, <5>1
      <4>3. CASE v + 1 # a
        <5>1. v + 1 < a  BY <1>2, <2>2, <4>1, <4>3
        <5>2. h[v + 1] < A  BY <1>4, <2>3, <5>1
        <5> QED  BY <1>3, <2>2, <2>3, <5>2
      <4> QED  BY <4>2, <4>3
    <3>2. ~ (b < v)
      <4>1. SUFFICES ASSUME b < v PROVE FALSE  OBVIOUS
      <4>2. CASE v = b + 1  BY <1>3, <2>2, <2>3, <4>2
      <4>3. CASE v # b + 1
        <5>1. b + 1 < v  BY <1>2, <2>2, <4>1, <4>3
        <5>2. Z + 1 < h[v]  BY <1>4, <2>3, <5>1
        <5> QED  BY <1>3, <2>2, <2>3, <5>2
      <4> QED  BY <4>2, <4>3
    <3> QED  BY <1>2, <2>2, <3>1, <3>2
  <2>5. CASE ends[h[v]] # 0
    <3>1. ends[h[v]] \in h[v] .. Len(text)  BY <2>3, <2>5 DEF Ends
    <3>2. j \in h[v] .. ends[h[v]]  BY <2>1, <2>2, <2>3, <2>5, <3>1 DEF After
    <3> QED  BY <2>3, <2>5, <3>2 DEF Gapless
  <2>6. CASE ends[h[v]] = 0
    <3>1. j = h[v]  BY <2>1, <2>2, <2>3, <2>6 DEF After
    <3>2. out[v] = text[j]  BY <1>1, <2>6, <3>1
    <3>3. out[v] # "gap"  BY <2>4 DEF IsWord
    <3> QED  BY <3>2, <3>3
  <2> QED  BY <2>5, <2>6
<1>6. A > 1 => text[A - 1] = "gap"  BY <1>2
<1>7. Z < Len(text) => text[Z + 1] = "gap"
  <2>1. Z + 1 = h[b + 1]  BY <1>3
  <2>2. Z < Len(text) => h[b + 1] =< Len(text)  BY <1>1, <1>3
  <2> HIDE DEF Z
  <2> QED  BY <1>2, <2>1, <2>2
<1>8. ASSUME NEW k \in a .. b PROVE h[k] \in A .. Z
  <2>1. k \in 1 .. m + 1 /\ k < b + 1  BY <1>1, <1>2
  <2> HIDE DEF A, Z
  <2>2. h[k] =< Z /\ h[k] \in Int  BY <1>4, <2>1
  <2>3. A =< h[k]
    <3>1. CASE k = a  BY <1>3, <3>1 DEF A
    <3>2. CASE k # a
      <4>1. a < k  BY <1>2, <3>2
      <4> QED  BY <1>3, <1>4, <2>1, <2>2, <4>1
    <3> QED  BY <3>1, <3>2
  <2> QED  BY <1>3, <2>2, <2>3
<1> HIDE DEF A, Z
<1>9. IsWord(text, A, Z)  BY <1>3, <1>5, <1>6, <1>7 DEF IsWord
<1> QED  BY <1>8, <1>9 DEF A, Z

(* What is_secret_token looks for, without gaps.                           *)
SecretToken(token) ==
  /\ token \in Seq(G!Pieces) /\ token # <<>> /\ token[1] \in G!Keys
  /\ \A k \in 1 .. Len(token) : token[k] # "gap"

(* A token does not occur in a word with a key.                            *)
Spared(y, token) ==
  \A a, b : IsWord(y, a, b) /\ HasKey(y, a, b) =>
    \A j \in a .. b : j + Len(token) - 1 =< b => ~ OccursAt(y, token, j)

(* Replacing a secret is such a step; it leaves no word with a key in      *)
(* which the secret occurs, and a secret of one piece nowhere.              *)
LEMMA SecretPut ==
  ASSUME NEW x \in Seq(G!Pieces), KeysApart(x), NEW token, SecretToken(token),
         NEW y, y = G!Replaced(x, token, <<"[key]">>)
  PROVE  /\ KeyStep(x, y) /\ Spared(y, token)
         /\ Len(token) = 1 => \A k \in 1 .. Len(y) : y[k] # token[1]
<1> DEFINE n == Len(x)
           l == Len(token)
           ends == Hits(x, token)
<1>1. /\ token \in Seq(G!Pieces) /\ token # <<>> /\ l \in Nat /\ l # 0 /\ n \in Nat
      /\ token[1] \in G!Keys /\ \A k \in 1 .. l : token[k] # "gap"
  BY DEF SecretToken
<1>2. /\ Ends(x, ends)
      /\ \A i \in 1 .. n : ends[i] = IF OccursAt(x, token, i) THEN i + l - 1 ELSE 0
  BY <1>1, HitsEnd
<1>3. "[key]" \in G!Pieces  BY DEF G!Pieces
<1>4. PICK m, h : Trace(x, ends, "[key]", 1, y, m, h)
  <2>1. y = G!Rewritten(x, ends, <<"[key]">>)  BY ReplacedIsRewritten
  <2> HIDE DEF ends
  <2> QED  BY <1>2, <1>3, <2>1, RewrittenOne
<1> HIDE DEF ends
<1>5. /\ m \in Nat /\ y \in Seq(G!Pieces) /\ Len(y) = m
      /\ \A k \in 1 .. m : /\ h[k] \in 1 .. n /\ h[k + 1] = After(ends, h[k])
                           /\ y[k] = IF ends[h[k]] # 0 THEN "[key]" ELSE x[h[k]]
  BY <1>4 DEF Trace
<1>6. ASSUME NEW i \in 1 .. n
      PROVE  IF ends[i] # 0 THEN OccursAt(x, token, i) /\ ends[i] = i + l - 1 /\ x[i] \in G!Keys
                            ELSE ~ OccursAt(x, token, i)
  <2>1. i + l - 1 # 0  BY <1>1
  <2>2. CASE OccursAt(x, token, i)
    <3>1. x[i + 1 - 1] = token[1]
      <4>1. 1 \in 1 .. l  BY <1>1
      <4> QED  BY <2>2, <4>1 DEF OccursAt
    <3>2. x[i] \in G!Keys  BY <1>1, <3>1
    <3> QED  BY <1>2, <2>1, <2>2, <3>2
  <2>3. CASE ~ OccursAt(x, token, i)  BY <1>2, <2>3
  <2> QED  BY <2>2, <2>3
<1>7. Gapless(x, ends)
  <2>1. ASSUME NEW i \in 1 .. n, ends[i] # 0, NEW j \in i .. ends[i] PROVE x[j] # "gap"
    <3>1. OccursAt(x, token, i) /\ ends[i] = i + l - 1  BY <1>6, <2>1
    <3>2. j - i + 1 \in 1 .. l /\ i + (j - i + 1) - 1 = j  BY <1>1, <2>1, <3>1
    <3>3. x[i + (j - i + 1) - 1] = token[j - i + 1]  BY <3>1, <3>2 DEF OccursAt
    <3> QED  BY <1>1, <3>2, <3>3
  <2> QED  BY <2>1 DEF Gapless
<1>8. ASSUME NEW a, NEW b, IsWord(y, a, b), HasKey(y, a, b)
      PROVE  Unhit(ends, h, a, b)
  <2>1. PICK p \in a .. b : y[p] \in G!Keys  BY <1>8 DEF HasKey
  <2>2. a \in 1 .. m /\ b \in a .. m  BY <1>5, <1>8 DEF IsWord
  <2>3. SUFFICES ASSUME NEW k \in a .. b, ends[h[k]] # 0 PROVE FALSE  BY DEF Unhit
  <2>4. p \in 1 .. m /\ k \in 1 .. m  BY <1>5, <2>2
  <2>5. x[h[p]] \in G!Keys /\ ends[h[p]] = 0
    <3>1. "[key]" \notin G!Keys  BY DEF G!Keys
    <3> QED  BY <1>5, <2>1, <2>4, <3>1
  <2>6. x[h[k]] \in G!Keys  BY <1>5, <1>6, <2>3, <2>4
  <2>7. IsWord(x, h[a], h[b + 1] - 1) /\ \A j \in a .. b : h[j] \in h[a] .. h[b + 1] - 1
    BY <1>2, <1>4, <1>7, <1>8, TraceInside
  <2>8. h[p] = h[k]
    <3> DEFINE A == h[a]
               Z == h[b + 1] - 1
               u == h[p]
               v == h[k]
    <3>1. IsWord(x, A, Z) /\ u \in A .. Z /\ v \in A .. Z /\ x[u] \in G!Keys /\ x[v] \in G!Keys
      BY <2>5, <2>6, <2>7
    <3> HIDE DEF A, Z, u, v
    <3>2. u = v  BY <3>1 DEF KeysApart, AtMostOne
    <3> QED  BY <3>2 DEF u, v
  <2> QED  BY <2>3, <2>5, <2>8
<1>9. KeyWords(x, y)
  <2>1. ASSUME NEW a, NEW b, IsWord(y, a, b), HasKey(y, a, b)
        PROVE  \E c : SameAs(x, c, y, a, b)
    <3>1. Unhit(ends, h, a, b)  BY <1>8, <2>1
    <3>2. SameAs(x, h[a], y, a, b)  BY <1>2, <1>4, <2>1, <3>1, TraceWord
    <3> QED  BY <3>2
  <2> QED  BY <2>1 DEF KeyWords
<1>10. Spared(y, token)
  <2>1. SUFFICES ASSUME NEW a, NEW b, IsWord(y, a, b), HasKey(y, a, b),
                        NEW j \in a .. b, j + l - 1 =< b, OccursAt(y, token, j)
                 PROVE  FALSE
    BY DEF Spared
  <2>2. Unhit(ends, h, a, b)  BY <1>8, <2>1
  <2>3. SameAs(x, h[a], y, a, b) /\ \A k \in a .. b : h[k] = h[a] + k - a
    BY <1>2, <1>4, <2>1, <2>2, TraceWord
  <2>4. IsWord(x, h[a], h[a] + b - a) /\ \A k \in a .. b : y[k] = x[h[a] + k - a]
    BY <2>3 DEF SameAs
  <2>5. a \in 1 .. m /\ b \in a .. m  BY <1>5, <2>1 DEF IsWord
  <2>6. h[a] \in 1 .. n /\ h[a] + b - a =< n
    <3>1. h[a] + b - a \in h[a] .. n  BY <2>4 DEF IsWord
    <3>2. h[a] \in 1 .. n  BY <1>5, <2>5
    <3> QED  BY <3>1, <3>2
  <2> DEFINE i == h[j]
  <2>7. i = h[a] + j - a /\ i \in 1 .. n /\ ends[i] = 0
    <3>1. j \in 1 .. m  BY <1>5, <2>1, <2>5
    <3>2. ends[h[j]] = 0  BY <2>1, <2>2 DEF Unhit
    <3> QED  BY <1>5, <2>1, <2>3, <3>1, <3>2
  <2> HIDE DEF i
  <2>8. OccursAt(x, token, i)
    <3>1. i + l - 1 =< n  BY <1>1, <2>1, <2>5, <2>6, <2>7
    <3>2. ASSUME NEW k \in 1 .. l PROVE x[i + k - 1] = token[k]
      <4>1. j + k - 1 \in a .. b  BY <1>1, <2>1, <2>5
      <4>2. h[a] + (j + k - 1) - a = i + k - 1  BY <2>1, <2>5, <2>6, <2>7
      <4>3. y[j + k - 1] = x[h[a] + (j + k - 1) - a]  BY <2>4, <4>1
      <4>4. y[j + k - 1] = token[k]  BY <2>1 DEF OccursAt
      <4> QED  BY <4>2, <4>3, <4>4
    <3> QED  BY <3>1, <3>2 DEF OccursAt
  <2> QED  BY <1>6, <2>7, <2>8
<1>11. ASSUME l = 1, NEW k \in 1 .. m PROVE y[k] # token[1]
  <2>1. h[k] \in 1 .. n /\ y[k] = IF ends[h[k]] # 0 THEN "[key]" ELSE x[h[k]]  BY <1>5
  <2>2. CASE ends[h[k]] # 0
    <3>1. "[key]" \notin G!Keys  BY DEF G!Keys
    <3> QED  BY <1>1, <2>1, <2>2, <3>1
  <2>3. CASE ends[h[k]] = 0
    <3>1. ~ OccursAt(x, token, h[k])  BY <1>6, <2>1, <2>3
    <3>2. h[k] + l - 1 =< n /\ \A i \in 1 .. l : i = 1 /\ h[k] + i - 1 = h[k]
      BY <1>1, <1>11, <2>1
    <3>3. x[h[k]] # token[1]  BY <3>1, <3>2 DEF OccursAt
    <3> QED  BY <1>1, <2>1, <2>3, <3>3
  <2> QED  BY <2>2, <2>3
<1>12. OldWords(x, y, {"[key]"}) /\ Within(x, y, {"[key]"})
  BY <1>2, <1>4, TraceOldWords, TraceWithin
<1> QED  BY <1>5, <1>9, <1>10, <1>11, <1>12 DEF KeyStep

(* The word that begins at a is a secret, but for what is cut off its      *)
(* ends: it begins with a key, at p; or it is one of a fixed length.       *)
KeyAt(x, a, p) ==
  /\ a \in 1 .. Len(x) /\ p \in a .. Len(x) /\ x[p] = "key"
  /\ a > 1 => x[a - 1] = "gap"
  /\ \A k \in a .. p - 1 : x[k] \in G!Edges
SecretAt(x, a, p) ==
  KeyAt(x, a, p) \/ \E b : CoreAt(x, {"akia"}, G!Edges, a, b, p)
Secrets(x) == \E a, p : SecretAt(x, a, p)

(* Either way the first of the word that is not cut off, at p, is a key.   *)
Leads(x, a, p) ==
  /\ a \in 1 .. Len(x) /\ p \in a .. Len(x) /\ x[p] \in G!Keys
  /\ a > 1 => x[a - 1] = "gap"
  /\ \A k \in a .. p - 1 : x[k] \in G!Edges

LEMMA SecretLeads ==
  ASSUME NEW x \in Seq(G!Pieces), NEW a, NEW p, SecretAt(x, a, p)
  PROVE  Leads(x, a, p)
<1>1. CASE KeyAt(x, a, p)  BY <1>1 DEF KeyAt, Leads, G!Keys
<1>2. CASE \E b : CoreAt(x, {"akia"}, G!Edges, a, b, p)
  <2>1. PICK b : CoreAt(x, {"akia"}, G!Edges, a, b, p)  BY <1>2
  <2>2. /\ a \in 1 .. Len(x) /\ b \in a .. Len(x) /\ (a > 1 => x[a - 1] = "gap")
        /\ p \in a .. b /\ x[p] = "akia"
        /\ \A k \in a .. b : k # p => x[k] \in G!Edges
    BY <2>1 DEF CoreAt, IsWord
  <2>3. p \in a .. Len(x) /\ \A k \in a .. p - 1 : k \in a .. b /\ k # p  BY <2>2
  <2> QED  BY <2>2, <2>3 DEF Leads, G!Keys
<1> QED  BY <1>1, <1>2 DEF SecretAt

(* What is replaced for the word at i.                                     *)
SecretHits(x) ==
  [i \in DOMAIN x |->
     IF G!Begins(x, i) /\ G!is_secret_token(G!Trimmed(G!Word(x, i), G!Edges))
     THEN G!Trimmed(G!Word(x, i), G!Edges) ELSE <<>>]

SecretCore(x, i, hit) ==
  \E b, p, q : /\ IsWord(x, i, b) /\ SecretAt(x, i, p) /\ p \in i .. b /\ q \in p .. b
               /\ hit = SubSeq(x, p, q) /\ x[q] \notin G!Edges
               /\ \A k \in i .. b : k < p \/ q < k => x[k] \in G!Edges

(* A word is replaced, but for its ends, exactly if that is a secret.      *)
LEMMA SecretHit ==
  ASSUME NEW x \in Seq(G!Pieces), NEW i \in 1 .. Len(x)
  PROVE  \/ SecretHits(x)[i] = <<>> /\ \A p : ~ SecretAt(x, i, p)
         \/ SecretCore(x, i, SecretHits(x)[i])
<1> DEFINE core == G!Trimmed(G!Word(x, i), G!Edges)
           hit  == SecretHits(x)[i]
<1>1. hit = IF G!Begins(x, i) /\ G!is_secret_token(core) THEN core ELSE <<>>
  <2>1. i \in DOMAIN x  OBVIOUS
  <2> QED  BY <2>1 DEF SecretHits
<1>2. G!Keys \intersect G!Edges = {} /\ "gap" \notin G!Edges /\ "gap" \notin G!Keys
  BY DEF G!Edges, G!Keys
<1>3. CASE ~ G!Begins(x, i)
  <2>1. ASSUME NEW p, SecretAt(x, i, p) PROVE FALSE
    <3>1. /\ p \in i .. Len(x) /\ x[p] \in G!Keys /\ (i > 1 => x[i - 1] = "gap")
          /\ \A k \in i .. p - 1 : x[k] \in G!Edges
      BY <2>1, SecretLeads DEF Leads
    <3>2. x[i] # "gap"
      <4>1. i = p \/ i \in i .. p - 1  BY <3>1
      <4> QED  BY <1>2, <3>1, <4>1
    <3>3. i = 1 \/ i > 1  OBVIOUS
    <3> QED  BY <1>3, <3>1, <3>2, <3>3 DEF G!Begins
  <2> QED  BY <1>1, <1>3, <2>1
<1>4. CASE G!Begins(x, i)
  <2>1. PICK b : IsWord(x, i, b) /\ G!Word(x, i) = SubSeq(x, i, b)  BY <1>4, WordIs
  <2> DEFINE token == SubSeq(x, i, b)
             l == b - i + 1
  <2>2. /\ i \in 1 .. Len(x) /\ b \in i .. Len(x) /\ token \in Seq(G!Pieces) /\ Len(token) = l
        /\ \A k \in 1 .. l : token[k] = x[i + k - 1]
        /\ \A k \in i .. b : token[k - i + 1] = x[k]
    <3>1. b \in i .. Len(x)  BY <2>1 DEF IsWord
    <3> QED  BY <3>1, PartIs
  <2>3. core = G!Trimmed(token, G!Edges)  BY <2>1
  <2>4. (i > 1 => x[i - 1] = "gap") /\ (b < Len(x) => x[b + 1] = "gap")
    BY <2>1 DEF IsWord
  <2> HIDE DEF token, hit, core
  <2>5. ASSUME NEW p, SecretAt(x, i, p)
        PROVE  p \in i .. b /\ p - i + 1 \in 1 .. l /\ token[p - i + 1] \in G!Keys
    <3>1. /\ p \in i .. Len(x) /\ x[p] \in G!Keys
          /\ \A k \in i .. p - 1 : x[k] \in G!Edges
      BY <2>5, SecretLeads DEF Leads
    <3>2. ~ (b < p)
      <4>1. SUFFICES ASSUME b < p PROVE FALSE  OBVIOUS
      <4>2. x[b + 1] = "gap" /\ (b + 1 = p \/ b + 1 \in i .. p - 1)
        BY <2>2, <2>4, <3>1, <4>1
      <4> QED  BY <1>2, <3>1, <4>2
    <3>3. p \in i .. b /\ p - i + 1 \in 1 .. l  BY <2>2, <3>1, <3>2
    <3> QED  BY <2>2, <3>1, <3>3
  <2>6. CASE (\A k \in 1 .. Len(token) : token[k] \in G!Edges) /\ core = <<>>
    <3>1. hit = <<>>  BY <1>1, <2>6
    <3>2. \A p : ~ SecretAt(x, i, p)  BY <1>2, <2>2, <2>5, <2>6
    <3> QED  BY <3>1, <3>2 DEF hit
  <2>7. CASE \E p \in 1 .. Len(token), q \in 1 .. Len(token) :
               /\ p =< q /\ token[p] \notin G!Edges /\ token[q] \notin G!Edges
               /\ \A k \in 1 .. Len(token) : k < p \/ q < k => token[k] \in G!Edges
               /\ core = SubSeq(token, p, q)
    <3>1. PICK r \in 1 .. l, t \in 1 .. l :
               /\ r =< t /\ token[r] \notin G!Edges /\ token[t] \notin G!Edges
               /\ \A k \in 1 .. l : k < r \/ t < k => token[k] \in G!Edges
               /\ core = SubSeq(token, r, t)
      BY <2>2, <2>7
    <3> DEFINE p == i + r - 1
               q == i + t - 1
    <3>2. /\ p \in i .. b /\ q \in p .. b /\ token[r] = x[p] /\ p \in 1 .. Len(x)
          /\ token[t] = x[q]
          /\ q \in p .. Len(x) /\ r \in 1 .. Len(token) /\ t \in r .. Len(token)
      BY <2>2, <3>1
    <3>3. core = SubSeq(x, p, q)
      <4>1. /\ SubSeq(token, r, t) \in Seq(G!Pieces) /\ Len(SubSeq(token, r, t)) = t - r + 1
            /\ \A k \in 1 .. t - r + 1 : SubSeq(token, r, t)[k] = token[r + k - 1]
        BY <2>2, <3>2, PartIs
      <4>2. /\ SubSeq(x, p, q) \in Seq(G!Pieces) /\ Len(SubSeq(x, p, q)) = q - p + 1
            /\ \A k \in 1 .. q - p + 1 : SubSeq(x, p, q)[k] = x[p + k - 1]
        <5> HIDE DEF p, q
        <5> QED  BY <3>2, PartIs
      <4>3. q - p + 1 = t - r + 1  BY <2>2, <3>1
      <4>4. ASSUME NEW k \in 1 .. t - r + 1 PROVE SubSeq(token, r, t)[k] = SubSeq(x, p, q)[k]
        <5>0. /\ r \in 1 .. l /\ t \in 1 .. l /\ r =< t /\ i \in Int /\ l \in Int
              /\ k \in 1 .. t - r + 1
          BY <2>2, <3>1
        <5>1. r + k - 1 \in 1 .. l /\ i + (r + k - 1) - 1 = p + k - 1
          <6> HIDE DEF l
          <6> QED  BY <5>0
        <5>2. token[r + k - 1] = x[i + (r + k - 1) - 1]  BY <2>2, <5>1
        <5>3. k \in 1 .. q - p + 1  BY <4>3
        <5> HIDE DEF p, q
        <5> QED  BY <4>1, <4>2, <5>1, <5>2, <5>3
      <4> HIDE DEF p, q
      <4>5. SubSeq(token, r, t) = SubSeq(x, p, q)  BY <4>1, <4>2, <4>3, <4>4, SeqEqual
      <4> QED  BY <3>1, <4>5
    <3>4. \A k \in i .. b : k < p \/ q < k => x[k] \in G!Edges
      <4>1. ASSUME NEW k \in i .. b, k < p \/ q < k PROVE x[k] \in G!Edges
        <5>1. k - i + 1 \in 1 .. l /\ (k - i + 1 < r \/ t < k - i + 1)  BY <2>2, <3>1, <4>1
        <5> HIDE DEF p, q
        <5>2. token[k - i + 1] \in G!Edges  BY <3>1, <5>1
        <5> QED  BY <2>2, <5>2
      <4> QED  BY <4>1
    <3>5. core \in Seq(G!Pieces) /\ core # <<>> /\ core[1] = x[p] /\ Len(core) = q - p + 1
      <4>1. p + 1 - 1 = p /\ 1 \in 1 .. q - p + 1  BY <3>2
      <4>2. /\ SubSeq(x, p, q) \in Seq(G!Pieces) /\ SubSeq(x, p, q) # <<>>
            /\ Len(SubSeq(x, p, q)) = q - p + 1
            /\ \A k \in 1 .. q - p + 1 : SubSeq(x, p, q)[k] = x[p + k - 1]
        <5> HIDE DEF p, q
        <5> QED  BY <3>2, PartIs
      <4> HIDE DEF p, q
      <4> QED  BY <3>3, <4>1, <4>2
    <3>6. x[p] \notin G!Edges /\ x[q] \notin G!Edges
      BY <3>1, <3>2
    <3> HIDE DEF p, q
    <3>7. core = <<"akia">> <=> p = q /\ x[p] = "akia"
      <4>1. q - p + 1 = 1 <=> p = q  BY <3>2
      <4>2. ASSUME Len(core) = 1 PROVE core = <<x[p]>>
        <5>1. core \in Seq(G!Pieces) /\ Len(core) = 1 /\ core[1] = x[p]  BY <3>5, <4>2
        <5> QED  BY <5>1
      <4>3. Len(<<"akia">>) = 1 /\ <<"akia">>[1] = "akia"  OBVIOUS
      <4> QED  BY <3>5, <4>1, <4>2, <4>3
    <3>8. \A u : Leads(x, i, u) => u = p
      <4>1. SUFFICES ASSUME NEW u, Leads(x, i, u) PROVE u = p  OBVIOUS
      <4>2. /\ u \in i .. Len(x) /\ x[u] \in G!Keys
            /\ \A k \in i .. u - 1 : x[k] \in G!Edges
        BY <4>1 DEF Leads
      <4>3. ~ (p \in i .. u - 1)  BY <3>6, <4>2
      <4>4. ~ (u < p)
        <5>1. SUFFICES ASSUME u < p PROVE FALSE  OBVIOUS
        <5>2. u \in i .. b  BY <2>2, <3>2, <4>2, <5>1
        <5>3. x[u] \in G!Edges  BY <3>4, <5>1, <5>2
        <5> QED  BY <1>2, <4>2, <5>3
      <4> QED  BY <2>2, <3>2, <4>2, <4>3, <4>4
    <3>9. CASE x[p] = "key"
      <4>1. hit = core  BY <1>1, <1>4, <3>5, <3>9 DEF G!is_secret_token
      <4>2. \A k \in i .. p - 1 : k \in i .. b /\ k < p  BY <2>2, <3>2
      <4>3. SecretAt(x, i, p)
        BY <2>2, <2>4, <3>2, <3>4, <3>9, <4>2 DEF SecretAt, KeyAt
      <4>4. SecretCore(x, i, hit)
        BY <2>1, <3>2, <3>3, <3>4, <3>6, <4>1, <4>3 DEF SecretCore
      <4> QED  BY <4>4 DEF hit
    <3>10. CASE x[p] = "akia" /\ p = q
      <4>1. hit = core  BY <1>1, <1>4, <3>7, <3>10 DEF G!is_secret_token
      <4>2. \A k \in i .. b : k # p => k < p \/ q < k  BY <2>2, <3>2, <3>10
      <4>3. CoreAt(x, {"akia"}, G!Edges, i, b, p)
        BY <2>1, <3>2, <3>4, <3>10, <4>2 DEF CoreAt
      <4>4. SecretAt(x, i, p)  BY <4>3 DEF SecretAt
      <4>5. SecretCore(x, i, hit)
        BY <2>1, <3>2, <3>3, <3>4, <3>6, <4>1, <4>4 DEF SecretCore
      <4> QED  BY <4>5 DEF hit
    <3>11. CASE x[p] # "key" /\ ~ (x[p] = "akia" /\ p = q)
      <4>1. hit = <<>>  BY <1>1, <3>5, <3>7, <3>11 DEF G!is_secret_token
      <4>2. ASSUME NEW u, SecretAt(x, i, u) PROVE FALSE
        <5>1. u = p  BY <3>8, <4>2, SecretLeads
        <5>2. PICK c : CoreAt(x, {"akia"}, G!Edges, i, c, p)
          BY <3>11, <4>2, <5>1 DEF SecretAt, KeyAt
        <5>3. IsWord(x, i, c) /\ x[p] = "akia" /\ \A k \in i .. c : k # p => x[k] \in G!Edges
          BY <5>2 DEF CoreAt
        <5>4. c = b  BY <2>1, <5>3, SameWord
        <5>5. q \in i .. b  BY <2>2, <3>2
        <5> QED  BY <3>6, <3>11, <5>3, <5>4, <5>5
      <4> QED  BY <4>1, <4>2 DEF hit
    <3> QED  BY <3>9, <3>10, <3>11
  <2>8. \/ (\A k \in 1 .. Len(token) : token[k] \in G!Edges) /\ core = <<>>
        \/ \E p \in 1 .. Len(token), q \in 1 .. Len(token) :
               /\ p =< q /\ token[p] \notin G!Edges /\ token[q] \notin G!Edges
               /\ \A k \in 1 .. Len(token) : k < p \/ q < k => token[k] \in G!Edges
               /\ core = SubSeq(token, p, q)
    <3> DEFINE cut == G!Trimmed(token, G!Edges)
    <3>1. CutTo(token, G!Edges, cut)  BY <2>2, TrimmedIs
    <3>2. core = cut  BY <2>3
    <3> HIDE DEF cut
    <3> QED  BY <3>1, <3>2 DEF CutTo
  <2> QED  BY <2>6, <2>7, <2>8
<1> QED  BY <1>3, <1>4

(* What is replaced then begins with the key.                              *)
LEMMA CoreIsSecret ==
  ASSUME NEW x \in Seq(G!Pieces), NEW i, NEW token, SecretCore(x, i, token)
  PROVE  SecretToken(token)
<1>1. PICK b, p, q : /\ IsWord(x, i, b) /\ SecretAt(x, i, p) /\ p \in i .. b /\ q \in p .. b
                     /\ token = SubSeq(x, p, q)
  BY DEF SecretCore
<1>2. /\ i \in 1 .. Len(x) /\ b \in i .. Len(x) /\ \A k \in i .. b : x[k] # "gap"
  BY <1>1 DEF IsWord
<1>3. p \in 1 .. Len(x) /\ q \in p .. Len(x)  BY <1>1, <1>2
<1>4. /\ token \in Seq(G!Pieces) /\ Len(token) = q - p + 1 /\ token # <<>>
      /\ \A k \in 1 .. q - p + 1 : token[k] = x[p + k - 1]
  BY <1>1, <1>3, PartIs
<1>5. 1 \in 1 .. q - p + 1 /\ p + 1 - 1 = p  BY <1>3
<1>6. token[1] \in G!Keys
  <2>1. x[p] \in G!Keys  BY <1>1, SecretLeads DEF Leads
  <2> QED  BY <1>4, <1>5, <2>1
<1>7. \A k \in 1 .. q - p + 1 : p + k - 1 \in i .. b  BY <1>1, <1>2
<1> QED  BY <1>2, <1>4, <1>6, <1>7 DEF SecretToken

(* The steps of mask_secrets.                                              *)
KeySteps(s, x) ==
  /\ s[0] = x
  /\ \A i \in 1 .. Len(x) :
       \/ s[i] = s[i - 1] /\ \A p : ~ SecretAt(x, i, p)
       \/ \E token : /\ SecretCore(x, i, token)
                     /\ s[i] = G!Replaced(s[i - 1], token, <<"[key]">>)

(* What mask_secrets does, word after word.                                *)
LEMMA SecretSteps ==
  ASSUME NEW x \in Seq(G!Pieces)
  PROVE  \E s : KeySteps(s, x) /\ s[Len(x)] = G!mask_secrets(x)
<1> DEFINE n == Len(x)
           hits == SecretHits(x)
           new == [i \in DOMAIN x |-> <<"[key]">>]
<1>1. n \in Nat /\ DOMAIN x = 1 .. n  OBVIOUS
<1>2. Len(hits) = n
  <2>1. hits = [i \in 1 .. n |-> hits[i]]  BY <1>1 DEF SecretHits
  <2> HIDE DEF hits
  <2> QED  BY <1>1, <2>1
<1>3. G!mask_secrets(x) = G!InTurn(x, hits, new)
  BY DEF G!mask_secrets, SecretHits
<1>4. PICK s : /\ s[0] = x /\ G!InTurn(x, hits, new) = s[n]
               /\ \A i \in 1 .. n :
                    s[i] = IF hits[i] = <<>> THEN s[i - 1]
                           ELSE G!Replaced(s[i - 1], hits[i], new[i])
  <2> HIDE DEF hits, new
  <2>1. \E s : Turns(s, x, hits, new) /\ G!InTurn(x, hits, new) = s[Len(hits)]
    <3>1. Len(hits) \in Nat  BY <1>1, <1>2
    <3> QED  BY <3>1, InTurnSteps
  <2> QED  BY <1>2, <2>1 DEF Turns
<1>5. \A i \in 1 .. n : new[i] = <<"[key]">>  BY <1>1
<1> HIDE DEF hits, new
<1>6. ASSUME NEW i \in 1 .. n
      PROVE  \/ s[i] = s[i - 1] /\ \A p : ~ SecretAt(x, i, p)
             \/ \E token : /\ SecretCore(x, i, token)
                           /\ s[i] = G!Replaced(s[i - 1], token, <<"[key]">>)
  <2>1. CASE hits[i] = <<>> /\ \A p : ~ SecretAt(x, i, p)
    BY <1>4, <2>1
  <2>2. CASE SecretCore(x, i, hits[i])
    <3>1. hits[i] # <<>>  BY <2>2, CoreIsSecret DEF SecretToken
    <3>2. s[i] = G!Replaced(s[i - 1], hits[i], <<"[key]">>)  BY <1>4, <1>5, <3>1
    <3> QED  BY <2>2, <3>2
  <2> QED  BY <2>1, <2>2, SecretHit DEF hits
<1>7. KeySteps(s, x)  BY <1>4, <1>6 DEF KeySteps
<1> QED  BY <1>3, <1>4, <1>7

(* A text without a secret stays as it is (mask_secrets).                  *)
LEMMA NothingSecret ==
  ASSUME NEW x \in Seq(G!Pieces), ~ Secrets(x)
  PROVE  G!mask_secrets(x) = x
<1> DEFINE n == Len(x)
<1>1. PICK s : KeySteps(s, x) /\ s[n] = G!mask_secrets(x)  BY SecretSteps
<1>2. \A i \in 1 .. n : s[i] = s[i - 1]
  BY <1>1 DEF KeySteps, SecretCore, Secrets
<1>3. s[n] = s[0]
  <2>1. n \in Nat  OBVIOUS
  <2> HIDE DEF n
  <2> QED  BY <1>2, <2>1, NoneChanges
<1> QED  BY <1>1, <1>3 DEF KeySteps

(* A key of its own, but for what is cut off.                              *)
AloneKey(x, key) == HasCores(x, {key}, G!Edges)

(* What mask_secrets leaves of a text whose words have one key at most: no *)
(* secret, and nowhere a key that stood alone.                             *)
LEMMA SecretsMasks ==
  ASSUME NEW x \in Seq(G!Pieces), KeysApart(x), NEW y, y = G!mask_secrets(x)
  PROVE  /\ KeyStep(x, y) /\ ~ Secrets(y)
         /\ \A key \in G!Keys : AloneKey(x, key) => \A k \in 1 .. Len(y) : y[k] # key
<1> DEFINE n == Len(x)
<1>1. PICK s :
        /\ s[0] = x /\ s[n] = y
        /\ \A i \in 1 .. n :
             \/ s[i] = s[i - 1] /\ \A p : ~ SecretAt(x, i, p)
             \/ \E token : /\ SecretCore(x, i, token)
                           /\ s[i] = G!Replaced(s[i - 1], token, <<"[key]">>)
  <2>1. PICK s : KeySteps(s, x) /\ s[n] = y  BY SecretSteps
  <2> QED  BY <2>1 DEF KeySteps
<1>2. n \in Nat  OBVIOUS
<1>3. ASSUME NEW i \in 1 .. n, s[i - 1] \in Seq(G!Pieces), KeysApart(s[i - 1])
      PROVE  KeyStep(s[i - 1], s[i])
  <2>1. CASE s[i] = s[i - 1]  BY <1>3, <2>1, KeyStepSame
  <2>2. CASE \E token : /\ SecretCore(x, i, token)
                        /\ s[i] = G!Replaced(s[i - 1], token, <<"[key]">>)
    <3>1. PICK token : /\ SecretCore(x, i, token)
                       /\ s[i] = G!Replaced(s[i - 1], token, <<"[key]">>)
      BY <2>2
    <3>2. SecretToken(token)  BY <3>1, CoreIsSecret
    <3> QED  BY <1>3, <3>1, <3>2, SecretPut
  <2> QED  BY <1>1, <2>1, <2>2
<1>4. /\ \A i \in 0 .. n : s[i] \in Seq(G!Pieces) /\ KeysApart(s[i])
      /\ \A i \in 0 .. n : \A j \in i .. n : KeyStep(s[i], s[j])
  <2>1. s[0] \in Seq(G!Pieces) /\ KeysApart(s[0])  BY <1>1
  <2>2. \A i \in 1 .. n : s[i - 1] \in Seq(G!Pieces) /\ KeysApart(s[i - 1])
                            => KeyStep(s[i - 1], s[i])
    BY <1>3
  <2> HIDE DEF n
  <2> QED  BY <1>2, <2>1, <2>2, KeysInTurn
<1>5. \A i \in 0 .. n : KeyStep(s[i], y)
  <2>1. \A i \in 0 .. n : n \in i .. n  BY <1>2
  <2> HIDE DEF n
  <2> QED  BY <1>1, <1>4, <2>1
<1>6. KeyStep(x, y)
  <2>1. 0 \in 0 .. n  BY <1>2
  <2> QED  BY <1>1, <1>5, <2>1
<1>7. ASSUME NEW i \in 1 .. n, NEW p, SecretAt(x, i, p)
      PROVE  \E b, q : /\ IsWord(x, i, b) /\ p \in i .. b /\ q \in p .. b
                       /\ SecretToken(SubSeq(x, p, q)) /\ Spared(s[i], SubSeq(x, p, q))
                       /\ \A k \in i .. b : k < p \/ q < k => x[k] \in G!Edges
                       /\ x[q] \notin G!Edges
                       /\ p = q => \A k \in 1 .. Len(s[i]) : s[i][k] # x[p]
  <2>1. PICK token : /\ SecretCore(x, i, token)
                     /\ s[i] = G!Replaced(s[i - 1], token, <<"[key]">>)
    BY <1>1, <1>7
  <2>2. PICK b, r, q : /\ IsWord(x, i, b) /\ SecretAt(x, i, r) /\ r \in i .. b /\ q \in r .. b
                       /\ token = SubSeq(x, r, q) /\ x[q] \notin G!Edges
                       /\ \A k \in i .. b : k < r \/ q < k => x[k] \in G!Edges
    BY <2>1 DEF SecretCore
  <2>3. r = p
    <3>1. /\ x[p] \in G!Keys /\ x[r] \in G!Keys /\ p \in Int /\ r \in Int /\ i =< p /\ i =< r
          /\ i \in Int
          /\ \A k \in i .. p - 1 : x[k] \in G!Edges
          /\ \A k \in i .. r - 1 : x[k] \in G!Edges
      BY <1>7, <2>2, SecretLeads DEF Leads
    <3>2. G!Keys \intersect G!Edges = {}  BY DEF G!Edges, G!Keys
    <3>3. ~ (p \in i .. r - 1) /\ ~ (r \in i .. p - 1)  BY <3>1, <3>2
    <3> QED  BY <3>1, <3>3
  <2>4. i - 1 \in 0 .. n /\ s[i - 1] \in Seq(G!Pieces) /\ KeysApart(s[i - 1])
    <3>1. i - 1 \in 0 .. n  BY <1>2
    <3> QED  BY <1>4, <3>1
  <2>5. SecretToken(token)  BY <2>1, CoreIsSecret
  <2>6. /\ Spared(s[i], token)
        /\ Len(token) = 1 => \A k \in 1 .. Len(s[i]) : s[i][k] # token[1]
    BY <2>1, <2>4, <2>5, SecretPut
  <2>7. (p = q => Len(token) = 1) /\ token[1] = x[p]
    <3>1. p \in 1 .. Len(x) /\ q \in p .. Len(x)
      <4>1. i \in 1 .. Len(x) /\ b \in i .. Len(x)  BY <2>2 DEF IsWord
      <4> QED  BY <2>2, <2>3, <4>1
    <3>2. /\ Len(SubSeq(x, p, q)) = q - p + 1
          /\ \A k \in 1 .. q - p + 1 : SubSeq(x, p, q)[k] = x[p + k - 1]
      BY <3>1, PartIs
    <3>3. 1 \in 1 .. q - p + 1 /\ p + 1 - 1 = p  BY <3>1
    <3> QED  BY <2>2, <2>3, <3>1, <3>2, <3>3
  <2> QED  BY <2>2, <2>3, <2>5, <2>6, <2>7
<1>8. ASSUME NEW a, NEW p, SecretAt(y, a, p) PROVE FALSE
  <2>0. y \in Seq(G!Pieces)  BY <1>6 DEF KeyStep
  <2>1. /\ a \in 1 .. Len(y) /\ p \in a .. Len(y) /\ y[p] \in G!Keys /\ (a > 1 => y[a - 1] = "gap")
        /\ \A k \in a .. p - 1 : y[k] \in G!Edges /\ y[k] # "gap"
    <3>1. "gap" \notin G!Edges  BY DEF G!Edges
    <3> QED  BY <1>8, <2>0, <3>1, SecretLeads DEF Leads
  <2>2. y \in Seq(G!Pieces) /\ "gap" \notin G!Keys  BY <2>0 DEF G!Keys
  <2>3. PICK b : IsWord(y, a, b)
    <3>1. y[a] # "gap"
      <4>1. a = p \/ a \in a .. p - 1  BY <2>1
      <4> QED  BY <2>1, <2>2, <4>1
    <3>2. a = 1 \/ a > 1  BY <2>1
    <3>3. G!Begins(y, a)  BY <2>1, <3>1, <3>2 DEF G!Begins
    <3> QED  BY <2>1, <2>2, <3>3, WordIs
  <2>4. p \in a .. b
    <3>1. b \in a .. Len(y) /\ (b < Len(y) => y[b + 1] = "gap")  BY <2>3 DEF IsWord
    <3>2. ~ (b < p)
      <4>1. SUFFICES ASSUME b < p PROVE FALSE  OBVIOUS
      <4>2. y[b + 1] = "gap" /\ (b + 1 = p \/ b + 1 \in a .. p - 1)  BY <2>1, <3>1, <4>1
      <4> QED  BY <2>1, <2>2, <4>2
    <3> QED  BY <2>1, <3>1, <3>2
  <2>5. HasKey(y, a, b)  BY <2>1, <2>4 DEF HasKey
  <2>6. PICK c : SameAs(x, c, y, a, b)  BY <1>6, <2>3, <2>5 DEF KeyStep, KeyWords
  <2>7. IsWord(x, c, c + b - a) /\ \A k \in a .. b : y[k] = x[c + k - a]
    BY <2>6 DEF SameAs
  <2>8. b \in a .. Len(y)  BY <2>3 DEF IsWord
  <2>9. c \in 1 .. n /\ c + b - a \in c .. n /\ (c > 1 => x[c - 1] = "gap")  BY <2>7 DEF IsWord
  <2> DEFINE r == c + p - a
  <2>10. r \in c .. n /\ r \in c .. c + b - a /\ x[r] = y[p]
    <3>1. r \in c .. n /\ r \in c .. c + b - a  BY <2>1, <2>4, <2>8, <2>9
    <3> QED  BY <2>1, <2>4, <2>7, <3>1
  <2>11. ASSUME NEW k \in c .. r - 1 PROVE x[k] \in G!Edges
    <3>1. k - c + a \in a .. p - 1 /\ k - c + a \in a .. b /\ c + (k - c + a) - a = k
      BY <2>1, <2>4, <2>8, <2>9
    <3>2. y[k - c + a] = x[c + (k - c + a) - a]  BY <2>7, <3>1
    <3> QED  BY <2>1, <3>1, <3>2
  <2>12. SecretAt(x, c, r)
    <3>1. CASE KeyAt(y, a, p)
      <4>1. x[r] = "key"  BY <2>10, <3>1 DEF KeyAt
      <4> HIDE DEF r
      <4> QED  BY <2>9, <2>10, <2>11, <4>1 DEF SecretAt, KeyAt
    <3>2. CASE \E e : CoreAt(y, {"akia"}, G!Edges, a, e, p)
      <4>1. PICK e : CoreAt(y, {"akia"}, G!Edges, a, e, p)  BY <3>2
      <4>2. IsWord(y, a, e) /\ y[p] = "akia" /\ \A k \in a .. e : k # p => y[k] \in G!Edges
        BY <4>1 DEF CoreAt
      <4>3. e = b  BY <2>2, <2>3, <4>2, SameWord
      <4>4. ASSUME NEW k \in c .. c + b - a, k # r PROVE x[k] \in G!Edges
        <5>1. k - c + a \in a .. b /\ k - c + a # p /\ c + (k - c + a) - a = k
          BY <2>1, <2>4, <2>8, <2>9, <4>4
        <5>2. y[k - c + a] = x[c + (k - c + a) - a]  BY <2>7, <5>1
        <5> QED  BY <4>2, <4>3, <5>1, <5>2
      <4> HIDE DEF r
      <4>5. CoreAt(x, {"akia"}, G!Edges, c, c + b - a, r)
        BY <2>7, <2>10, <4>2, <4>4 DEF CoreAt
      <4> QED  BY <4>5 DEF SecretAt
    <3> QED  BY <1>8, <3>1, <3>2 DEF SecretAt
  <2> HIDE DEF r
  <2>13. PICK e, q : /\ IsWord(x, c, e) /\ r \in c .. e /\ q \in r .. e
                     /\ SecretToken(SubSeq(x, r, q)) /\ Spared(s[c], SubSeq(x, r, q))
    BY <1>7, <2>9, <2>12
  <2>14. e = c + b - a  BY <2>7, <2>13, SameWord
  <2> DEFINE token == SubSeq(x, r, q)
  <2>15. /\ Len(token) = q - r + 1 /\ \A k \in 1 .. q - r + 1 : token[k] = x[r + k - 1]
    <3>1. r \in 1 .. Len(x) /\ q \in r .. Len(x)  BY <2>9, <2>10, <2>13, <2>14
    <3> QED  BY <3>1, PartIs
  <2>16. PICK d : SameAs(s[c], d, y, a, b)
    <3>1. c \in 0 .. n  BY <1>2, <2>9
    <3>2. KeyWords(s[c], y)  BY <1>5, <3>1 DEF KeyStep
    <3> QED  BY <2>3, <2>5, <3>2 DEF KeyWords
  <2> DEFINE f == d + b - a
             j == d + p - a
  <2>17. /\ IsWord(s[c], d, f) /\ HasKey(s[c], d, f)
         /\ \A k \in a .. b : y[k] = s[c][d + k - a]
    <3>1. IsWord(s[c], d, f) /\ HasKey(s[c], d, f)  BY <2>3, <2>5, <2>16, KeyInSame
    <3> HIDE DEF f
    <3>2. \A k \in a .. b : y[k] = s[c][d + k - a]  BY <2>16 DEF SameAs
    <3> QED  BY <3>1, <3>2
  <2>18. d \in Int /\ f =< Len(s[c]) /\ Len(s[c]) \in Int
    <3>1. d \in 1 .. Len(s[c]) /\ f \in d .. Len(s[c])  BY <2>17 DEF IsWord
    <3>2. c \in 0 .. n  BY <1>2, <2>9
    <3>3. s[c] \in Seq(G!Pieces)  BY <1>4, <3>2
    <3>4. Len(s[c]) \in Nat  BY <3>3
    <3> HIDE DEF f
    <3> QED  BY <3>1, <3>4
  <2> HIDE DEF token
  <2>19. j \in d .. f /\ j + Len(token) - 1 =< f
    BY <2>1, <2>4, <2>8, <2>9, <2>10, <2>13, <2>14, <2>15, <2>18 DEF r
  <2>20. OccursAt(s[c], token, j)
    <3>1. j + Len(token) - 1 =< Len(s[c])
      <4>1. j \in Int /\ f \in Int /\ Len(token) \in Int
        BY <2>1, <2>4, <2>8, <2>10, <2>13, <2>15, <2>18
      <4> HIDE DEF j, f
      <4> QED  BY <2>18, <2>19, <4>1
    <3>2. ASSUME NEW k \in 1 .. Len(token) PROVE s[c][j + k - 1] = token[k]
      <4>1. /\ k \in 1 .. q - r + 1 /\ p + k - 1 \in a .. b
            /\ d + (p + k - 1) - a = j + k - 1 /\ c + (p + k - 1) - a = r + k - 1
        BY <2>1, <2>4, <2>8, <2>9, <2>10, <2>13, <2>14, <2>15, <2>18 DEF r
      <4>2. token[k] = x[r + k - 1]  BY <2>15, <4>1
      <4>3. y[p + k - 1] = x[c + (p + k - 1) - a]  BY <2>7, <4>1
      <4>4. y[p + k - 1] = s[c][d + (p + k - 1) - a]  BY <2>17, <4>1
      <4> QED  BY <4>1, <4>2, <4>3, <4>4
    <3> QED  BY <3>1, <3>2 DEF OccursAt
  <2>21. Spared(s[c], token)  BY <2>13 DEF token
  <2> HIDE DEF j, f
  <2> QED  BY <2>17, <2>19, <2>20, <2>21 DEF Spared
<1>9. ASSUME NEW key \in G!Keys, AloneKey(x, key), NEW k \in 1 .. Len(y) PROVE y[k] # key
  <2>1. PICK a, b, p : CoreAt(x, {key}, G!Edges, a, b, p)  BY <1>9 DEF AloneKey, HasCores
  <2>2. /\ IsWord(x, a, b) /\ p \in a .. b /\ x[p] = key
        /\ \A j \in a .. b : j # p => x[j] \in G!Edges
    BY <2>1 DEF CoreAt
  <2>3. a \in 1 .. n /\ b \in a .. n /\ (a > 1 => x[a - 1] = "gap")  BY <2>2 DEF IsWord
  <2>4. SecretAt(x, a, p)
    <3>1. p \in a .. n /\ \A j \in a .. p - 1 : j \in a .. b /\ j # p  BY <2>2, <2>3
    <3>2. CASE key = "key"  BY <2>2, <2>3, <3>1, <3>2 DEF SecretAt, KeyAt
    <3>3. CASE key = "akia"  BY <2>1, <3>3 DEF SecretAt
    <3> QED  BY <3>2, <3>3 DEF G!Keys
  <2>5. PICK e, q : /\ IsWord(x, a, e) /\ p \in a .. e /\ q \in p .. e
                    /\ x[q] \notin G!Edges
                    /\ p = q => \A j \in 1 .. Len(s[a]) : s[a][j] # x[p]
    BY <1>7, <2>3, <2>4
  <2>6. p = q
    <3>1. e = b  BY <2>2, <2>5, SameWord
    <3>2. q \in a .. b  BY <2>3, <2>5, <3>1
    <3> QED  BY <2>2, <2>5, <3>2
  <2>7. KeyStep(s[a], y)
    <3>1. a \in 0 .. n  BY <1>2, <2>3
    <3> QED  BY <1>5, <3>1
  <2>8. y[k] \in {"[key]"} \/ \E j \in 1 .. Len(s[a]) : y[k] = s[a][j]
    BY <1>9, <2>7 DEF KeyStep, Within
  <2>9. "[key]" # key  BY <1>9 DEF G!Keys
  <2> QED  BY <2>2, <2>5, <2>6, <2>8, <2>9
<1> QED  BY <1>6, <1>8, <1>9 DEF Secrets

-----------------------------------------------------------------------------
(* Personal data.                                                          *)

(* A rewriting that puts no mark and no gap frees no secret.               *)
LEMMA NoNewSecret ==
  ASSUME NEW text \in Seq(G!Pieces), NEW ends, Ends(text, ends),
         NEW piece, piece \notin G!Marks \union {"gap"} \union G!Keys,
         NEW out, NEW m, NEW h, Trace(text, ends, piece, 1, out, m, h), ~ Secrets(text)
  PROVE  ~ Secrets(out)
<1>0. piece # "gap" /\ piece # "key" /\ piece \notin G!Edges /\ piece # "akia"
  BY DEF G!Edges, G!Marks, G!Keys
<1>a. ASSUME NEW a, NEW b, NEW p, CoreAt(out, {"akia"}, G!Edges, a, b, p) PROVE FALSE
  <2>1. OldWords(text, out, {piece})  BY <1>0, TraceOldWords
  <2>2. ~ HasCores(text, {"akia"}, G!Edges)  BY DEF Secrets, SecretAt, HasCores
  <2>3. {piece} \intersect ({"akia"} \union G!Edges) = {}  BY <1>0
  <2>4. ~ HasCores(out, {"akia"}, G!Edges)  BY <2>1, <2>2, <2>3, NoNewCore
  <2> QED  BY <1>a, <2>4 DEF HasCores
<1>1. SUFFICES ASSUME NEW a, NEW p, KeyAt(out, a, p) PROVE FALSE
  BY <1>a DEF Secrets, SecretAt
<1>2. /\ m \in Nat /\ h \in [1 .. m + 1 -> 1 .. Len(text) + 1] /\ Len(text) \in Nat
      /\ Len(out) = m /\ h[1] = 1
      /\ \A k \in 1 .. m : /\ h[k] \in 1 .. Len(text) /\ h[k + 1] = After(ends, h[k])
                           /\ out[k] = IF ends[h[k]] # 0 THEN piece ELSE text[h[k]]
  BY DEF Trace
<1>3. /\ a \in 1 .. m /\ p \in a .. m /\ out[p] = "key" /\ (a > 1 => out[a - 1] = "gap")
      /\ \A k \in a .. p - 1 : out[k] \in G!Edges
  BY <1>1, <1>2 DEF KeyAt
<1>4. Unhit(ends, h, a, p)
  <2>1. ASSUME NEW k \in a .. p PROVE ends[h[k]] = 0
    <3>1. k \in 1 .. m /\ (k = p \/ k \in a .. p - 1)  BY <1>2, <1>3
    <3>2. out[k] # piece  BY <1>0, <1>3, <3>1
    <3> QED  BY <1>2, <3>1, <3>2
  <2> QED  BY <2>1 DEF Unhit
<1>5. Straight(text, h, out, a, p)  BY <1>3, <1>4, TraceStraight
<1>6. /\ \A k \in a .. p + 1 : h[k] = h[a] + k - a
      /\ \A k \in a .. p : out[k] = text[h[a] + k - a]
  BY <1>5 DEF Straight
<1> DEFINE A == h[a]
           q == A + p - a
<1>7. A \in 1 .. Len(text) /\ q \in A .. Len(text) /\ text[q] = "key"
  <2>1. A \in 1 .. Len(text) /\ h[p] = q /\ h[p] \in 1 .. Len(text)
    <3>1. p \in a .. p + 1 /\ p \in 1 .. m  BY <1>2, <1>3
    <3> QED  BY <1>2, <1>3, <1>6, <3>1
  <2>2. p \in a .. p  BY <1>2, <1>3
  <2>3. text[q] = "key"  BY <1>3, <1>6, <2>2
  <2>4. q >= A
    <3>1. a \in Int /\ p \in Int /\ A \in Int /\ a =< p  BY <1>2, <1>3, <2>1
    <3> HIDE DEF A
    <3> QED  BY <3>1
  <2> HIDE DEF A, q
  <2> QED  BY <1>2, <2>1, <2>3, <2>4
<1>8. ASSUME NEW j \in A .. q - 1 PROVE text[j] \in G!Edges
  <2>1. A \in Int /\ a \in Int /\ p \in Int /\ q = A + p - a  BY <1>2, <1>3, <1>7
  <2> HIDE DEF A, q
  <2> DEFINE k == j - A + a
  <2>2. k \in a .. p - 1 /\ k \in a .. p /\ A + k - a = j  BY <2>1
  <2> HIDE DEF k
  <2>3. out[k] = text[A + k - a]  BY <1>6, <2>2 DEF A
  <2>4. out[k] \in G!Edges  BY <1>3, <2>2
  <2> QED  BY <2>2, <2>3, <2>4
<1>9. ASSUME A > 1 PROVE text[A - 1] = "gap"
  <2>1. a > 1  BY <1>2, <1>3, <1>9
  <2>2. a - 1 \in 1 .. m /\ (a - 1) + 1 = a /\ out[a - 1] = "gap"  BY <1>2, <1>3, <2>1
  <2>3. ends[h[a - 1]] = 0 /\ text[h[a - 1]] = "gap"  BY <1>2, <2>2
  <2>4. h[a] = h[a - 1] + 1 /\ h[a - 1] \in Int
    <3>1. h[(a - 1) + 1] = After(ends, h[a - 1])  BY <1>2, <2>2
    <3> QED  BY <1>2, <2>2, <2>3, <3>1 DEF After
  <2> QED  BY <2>3, <2>4
<1> HIDE DEF A, q
<1>10. SecretAt(text, A, q)  BY <1>7, <1>8, <1>9 DEF SecretAt, KeyAt
<1> QED  BY <1>10 DEF Secrets

(* Where an address that takes in what begins at i ends.                   *)
LocalRun(x, i) == {j \in i .. Len(x) : \A k \in i .. j : x[k] \in G!Local}
MailEnds(x) ==
  [i \in DOMAIN x |-> IF \E j \in LocalRun(x, i) : x[j] = "mail"
                      THEN G!Max(LocalRun(x, i)) ELSE 0]

(* Where an address is, something is hit, and only then.                   *)
LEMMA MailEnd ==
  ASSUME NEW x \in Seq(G!Pieces)
  PROVE  /\ Ends(x, MailEnds(x))
         /\ \A i \in 1 .. Len(x) : x[i] = "mail" => MailEnds(x)[i] # 0
         /\ (\A i \in 1 .. Len(x) : x[i] # "mail") =>
              \A i \in 1 .. Len(x) : MailEnds(x)[i] = 0
<1>1. DOMAIN x = 1 .. Len(x) /\ Len(x) \in Nat  OBVIOUS
<1>2. ASSUME NEW i \in 1 .. Len(x)
      PROVE  /\ MailEnds(x)[i] = 0 \/ MailEnds(x)[i] \in i .. Len(x)
             /\ x[i] = "mail" => MailEnds(x)[i] # 0
             /\ (\A j \in 1 .. Len(x) : x[j] # "mail") => MailEnds(x)[i] = 0
  <2> DEFINE run == LocalRun(x, i)
             end == MailEnds(x)[i]
  <2>1. end = IF \E j \in run : x[j] = "mail" THEN Max(run) ELSE 0
    BY <1>1, MinOfG DEF MailEnds
  <2>2. run \subseteq 1 .. Len(x) /\ run \subseteq i .. Len(x)  BY <1>1 DEF LocalRun
  <2> HIDE DEF run, end
  <2>3. CASE \E j \in run : x[j] = "mail"
    <3>1. Max(run) \in run
      <4>1. run # {}  BY <2>3
      <4> QED  BY <1>1, <2>2, <4>1, MaxIsGreatest
    <3>2. end \in i .. Len(x)  BY <2>1, <2>2, <2>3, <3>1
    <3>3. end # 0  BY <1>1, <3>2
    <3>4. \E j \in 1 .. Len(x) : x[j] = "mail"  BY <2>2, <2>3
    <3> QED  BY <3>2, <3>3, <3>4 DEF end
  <2>4. CASE ~ \E j \in run : x[j] = "mail"
    <3>1. end = 0  BY <2>1, <2>4
    <3>2. x[i] # "mail"
      <4>1. SUFFICES ASSUME x[i] = "mail" PROVE FALSE  OBVIOUS
      <4>2. "mail" \in G!Local  BY DEF G!Local, G!Alphabetic
      <4>3. i \in i .. Len(x) /\ \A k \in i .. i : k = i  BY <1>1
      <4>4. i \in run  BY <4>1, <4>2, <4>3 DEF run, LocalRun
      <4> QED  BY <2>4, <4>1, <4>4
    <3> QED  BY <3>1, <3>2 DEF end
  <2> QED  BY <2>3, <2>4
<1> QED  BY <1>2 DEF Ends

Rewrites(x, y, piece) ==
  \E ends, m, h : Ends(x, ends) /\ Trace(x, ends, piece, 1, y, m, h)

(* mask_emails rewrites, leaves no address, and changes nothing without    *)
(* one.                                                                    *)
LEMMA EmailsMask ==
  ASSUME NEW x \in Seq(G!Pieces)
  PROVE  LET y == G!mask_emails(x)
         IN /\ Rewrites(x, y, "[mail]")
            /\ \A k \in 1 .. Len(y) : y[k] # "mail"
            /\ (\A k \in 1 .. Len(x) : x[k] # "mail") => y = x
<1> DEFINE y == G!mask_emails(x)
           ends == MailEnds(x)
<1>1. y = G!Rewritten(x, ends, <<"[mail]">>)  BY DEF G!mask_emails, MailEnds, LocalRun
<1>2. /\ Ends(x, ends)
      /\ \A i \in 1 .. Len(x) : x[i] = "mail" => ends[i] # 0
      /\ (\A i \in 1 .. Len(x) : x[i] # "mail") => \A i \in 1 .. Len(x) : ends[i] = 0
  BY MailEnd
<1>3. "[mail]" \in G!Pieces  BY DEF G!Pieces
<1> HIDE DEF y, ends
<1>4. PICK m, h : Trace(x, ends, "[mail]", 1, y, m, h)
  BY <1>1, <1>2, <1>3, RewrittenOne
<1>5. Rewrites(x, y, "[mail]")  BY <1>2, <1>4 DEF Rewrites
<1>6. ASSUME NEW k \in 1 .. Len(y) PROVE y[k] # "mail"
  <2>1. h[k] \in 1 .. Len(x) /\ y[k] = IF ends[h[k]] # 0 THEN "[mail]" ELSE x[h[k]]
    BY <1>4 DEF Trace
  <2>2. CASE ends[h[k]] # 0  BY <2>1, <2>2
  <2>3. CASE ends[h[k]] = 0  BY <1>2, <2>1, <2>3
  <2> QED  BY <2>2, <2>3
<1>7. ASSUME \A k \in 1 .. Len(x) : x[k] # "mail" PROVE y = x
  <2>1. \A i \in 1 .. Len(x) : ends[i] = 0  BY <1>2, <1>7
  <2> QED  BY <1>1, <1>3, <2>1, NothingHit
<1> QED  BY <1>5, <1>6, <1>7 DEF y

(* Digits and separators from i on end with the digit at M.                *)
Dials(x, i, M) ==
  /\ M \in i .. Len(x) /\ x[M] \in G!Digits /\ \A k \in i .. M : x[k] \in G!Dial
  /\ \A j \in M + 1 .. Len(x) : (\A k \in i .. j : x[k] \in G!Dial) => x[j] \notin G!Digits

(* They make no number for what stands before them, or in them, or after.  *)
Spoilt(x, i, M) ==
  \/ i > 1 /\ x[i - 1] \in G!Digits \union G!Attaching
  \/ G!digit_count(SubSeq(x, i, M)) < 7
  \/ M < Len(x) /\ x[M + 1] \in G!Alphabetic

DialRun(x, i) == {j \in i .. Len(x) : \A k \in i .. j : x[k] \in G!Dial}
DialDigits(x, i) == {j \in DialRun(x, i) : x[j] \in G!Digits}

(* Such a digit is the last of those that try_match_phone collects.        *)
LEMMA LastDigit ==
  ASSUME NEW x \in Seq(G!Pieces), NEW i \in 1 .. Len(x)
  PROVE  /\ DialDigits(x, i) # {} =>
              Max(DialDigits(x, i)) \in DialDigits(x, i) /\ Dials(x, i, Max(DialDigits(x, i)))
         /\ \A M : Dials(x, i, M) => M \in DialDigits(x, i) /\ M = Max(DialDigits(x, i))
<1> DEFINE D == DialDigits(x, i)
<1>1. Len(x) \in Nat /\ i \in 1 .. Len(x)  OBVIOUS
<1>2. D \subseteq 1 .. Len(x)  BY <1>1 DEF DialDigits, DialRun
<1>3. \A j : j \in D <=> /\ j \in i .. Len(x) /\ x[j] \in G!Digits
                         /\ \A k \in i .. j : x[k] \in G!Dial
  BY DEF DialDigits, DialRun
<1> HIDE DEF D
<1>4. ASSUME D # {} PROVE Max(D) \in D /\ Dials(x, i, Max(D))
  <2> DEFINE M == Max(D)
  <2>1. M \in D /\ \A y \in D : y =< M  BY <1>1, <1>2, <1>4, MaxIsGreatest
  <2> HIDE DEF M
  <2>2. ASSUME NEW j \in M + 1 .. Len(x), \A k \in i .. j : x[k] \in G!Dial
        PROVE  x[j] \notin G!Digits
    <3>1. M \in i .. Len(x)  BY <1>3, <2>1
    <3>2. j \in i .. Len(x) /\ ~ (j =< M)  BY <1>1, <3>1
    <3> QED  BY <1>3, <2>1, <2>2, <3>2
  <2> QED  BY <1>3, <2>1, <2>2 DEF Dials, M
<1>5. ASSUME NEW M, Dials(x, i, M) PROVE M \in D /\ M = Max(D)
  <2>1. M \in D  BY <1>3, <1>5 DEF Dials
  <2>2. Max(D) \in D /\ \A y \in D : y =< Max(D)
    <3>1. D # {}  BY <2>1
    <3> QED  BY <1>1, <1>2, <3>1, MaxIsGreatest
  <2> DEFINE N == Max(D)
  <2>3. N \in D /\ M =< N  BY <2>1, <2>2
  <2> HIDE DEF N
  <2>4. N \in i .. Len(x) /\ M \in i .. Len(x) /\ x[N] \in G!Digits
        /\ \A k \in i .. N : x[k] \in G!Dial
    BY <1>3, <2>1, <2>3
  <2>5. ~ (M < N)
    <3>1. SUFFICES ASSUME M < N PROVE FALSE  OBVIOUS
    <3>2. N \in M + 1 .. Len(x)  BY <1>1, <2>4, <3>1
    <3> QED  BY <1>5, <2>4, <3>2 DEF Dials
  <2>6. M = N  BY <1>1, <2>3, <2>4, <2>5
  <2> QED  BY <2>1, <2>6 DEF N
<1> QED  BY <1>4, <1>5 DEF D

(* What try_match_phone finds.                                             *)
LEMMA PhoneIs ==
  ASSUME NEW x \in Seq(G!Pieces), NEW i \in 1 .. Len(x)
  PROVE  /\ G!try_match_phone(x, i) # 0 =>
              Dials(x, i, G!try_match_phone(x, i)) /\ ~ Spoilt(x, i, G!try_match_phone(x, i))
         /\ \A M : Dials(x, i, M) => Spoilt(x, i, M) \/ G!try_match_phone(x, i) = M
<1> DEFINE D == DialDigits(x, i)
           end == G!try_match_phone(x, i)
<1>1. end = IF \/ i > 1 /\ x[i - 1] \in G!Digits \union G!Attaching
               \/ D = {}
               \/ G!digit_count(SubSeq(x, i, Max(D))) < 7
               \/ Max(D) < Len(x) /\ x[Max(D) + 1] \in G!Alphabetic
            THEN 0 ELSE Max(D)
  BY MinOfG DEF G!try_match_phone, DialDigits, DialRun
<1> HIDE DEF end
<1>2. ASSUME end # 0 PROVE Dials(x, i, end) /\ ~ Spoilt(x, i, end)
  <2>1. D # {} /\ end = Max(D) /\ ~ Spoilt(x, i, Max(D))  BY <1>1, <1>2 DEF Spoilt
  <2> HIDE DEF D
  <2> QED  BY <2>1, LastDigit DEF D
<1>3. ASSUME NEW M, Dials(x, i, M), ~ Spoilt(x, i, M) PROVE end = M
  <2>1. M \in D /\ M = Max(D)  BY <1>3, LastDigit
  <2> HIDE DEF D
  <2>2. D # {}  BY <2>1
  <2> QED  BY <1>1, <1>3, <2>1, <2>2 DEF Spoilt
<1> QED  BY <1>2, <1>3 DEF end

(* More digits count for more.                                             *)
Number(text) == {i \in DOMAIN text : text[i] = "number"}
Short(text)  == {i \in DOMAIN text : text[i] = "short"}

(* Guardrails counts as the library does.                                  *)
LEMMA CountG == \A S : G!Cardinality(S) = Cardinality(S)
BY DEF G!Cardinality, Cardinality

(* Fewer than seven digits are fewer than seven in any part that begins    *)
(* with them.                                                              *)
LEMMA CountGrows ==
  ASSUME NEW x \in Seq(G!Pieces), NEW a \in 1 .. Len(x), NEW b \in a .. Len(x),
         NEW c \in b .. Len(x), G!digit_count(SubSeq(x, a, c)) < 7
  PROVE  G!digit_count(SubSeq(x, a, b)) < 7
<1> DEFINE s == SubSeq(x, a, b)
           t == SubSeq(x, a, c)
<1>1. c \in a .. Len(x) /\ a \in Int /\ b \in Int /\ c \in Int /\ b =< c  OBVIOUS
<1>2. /\ s \in Seq(G!Pieces) /\ Len(s) = b - a + 1
      /\ \A k \in 1 .. b - a + 1 : s[k] = x[a + k - 1]
  BY PartIs
<1>3. /\ t \in Seq(G!Pieces) /\ Len(t) = c - a + 1
      /\ \A k \in 1 .. c - a + 1 : t[k] = x[a + k - 1]
  BY <1>1, PartIs
<1> HIDE DEF s, t
<1>4. DOMAIN s = 1 .. b - a + 1 /\ DOMAIN t = 1 .. c - a + 1 /\ DOMAIN s \subseteq DOMAIN t
  <2>1. DOMAIN s = 1 .. Len(s) /\ DOMAIN t = 1 .. Len(t)  BY <1>2, <1>3
  <2> QED  BY <1>1, <1>2, <1>3, <2>1
<1>5. \A k \in DOMAIN s : s[k] = t[k]  BY <1>2, <1>3, <1>4
<1>6. Number(s) \subseteq Number(t) /\ Short(s) \subseteq Short(t)
  BY <1>4, <1>5 DEF Number, Short
<1>7. IsFiniteSet(Number(t)) /\ IsFiniteSet(Short(t))
  <2>1. IsFiniteSet(1 .. c - a + 1)  BY <1>1, FS_Interval
  <2>2. Number(t) \subseteq 1 .. c - a + 1 /\ Short(t) \subseteq 1 .. c - a + 1
    BY <1>4 DEF Number, Short
  <2> QED  BY <2>1, <2>2, FS_Subset
<1>8. /\ Cardinality(Number(s)) \in Nat /\ Cardinality(Number(t)) \in Nat
      /\ Cardinality(Short(s)) \in Nat /\ Cardinality(Short(t)) \in Nat
      /\ Cardinality(Number(s)) =< Cardinality(Number(t))
      /\ Cardinality(Short(s)) =< Cardinality(Short(t))
  <2>1. IsFiniteSet(Number(s)) /\ Cardinality(Number(s)) =< Cardinality(Number(t))
    BY <1>6, <1>7, FS_Subset
  <2>2. IsFiniteSet(Short(s)) /\ Cardinality(Short(s)) =< Cardinality(Short(t))
    BY <1>6, <1>7, FS_Subset
  <2> QED  BY <1>7, <2>1, <2>2, FS_CardinalityType
<1>9. /\ G!digit_count(s) = 7 * Cardinality(Number(s)) + 4 * Cardinality(Short(s))
      /\ G!digit_count(t) = 7 * Cardinality(Number(t)) + 4 * Cardinality(Short(t))
  BY CountG DEF G!digit_count, Number, Short
<1>10. G!digit_count(t) < 7  BY DEF t
<1>11. G!digit_count(s) < 7  BY <1>8, <1>9, <1>10
<1> QED  BY <1>11 DEF s

(* What mask_phones replaces.                                              *)
PhoneEnds(x) == [i \in DOMAIN x |-> G!try_match_phone(x, i)]

(* mask_phones rewrites what try_match_phone finds.                        *)
LEMMA PhoneEnd ==
  ASSUME NEW x \in Seq(G!Pieces)
  PROVE  /\ Ends(x, PhoneEnds(x))
         /\ \A i \in 1 .. Len(x) : PhoneEnds(x)[i] = G!try_match_phone(x, i)
         /\ G!mask_phones(x) = G!Rewritten(x, PhoneEnds(x), <<"[phone]">>)
<1>1. DOMAIN x = 1 .. Len(x)  OBVIOUS
<1>2. \A i \in 1 .. Len(x) : PhoneEnds(x)[i] = G!try_match_phone(x, i)
  BY <1>1 DEF PhoneEnds
<1>3. ASSUME NEW i \in 1 .. Len(x), PhoneEnds(x)[i] # 0
      PROVE  PhoneEnds(x)[i] \in i .. Len(x)
  <2>1. Dials(x, i, PhoneEnds(x)[i])  BY <1>2, <1>3, PhoneIs
  <2> QED  BY <2>1 DEF Dials
<1>4. Ends(x, PhoneEnds(x))  BY <1>3 DEF Ends
<1>5. G!mask_phones(x) = G!Rewritten(x, PhoneEnds(x), <<"[phone]">>)
  BY DEF G!mask_phones, PhoneEnds
<1> QED  BY <1>2, <1>4, <1>5

(* The positions of a number that mask_phones would find in what it left   *)
(* are those of digits and separators it passed over.                      *)
Passed(x, y, h, i, e) ==
  /\ h[i] \in 1 .. Len(x) /\ h[i] + e - i \in h[i] .. Len(x)
  /\ x[h[i] + e - i] \in G!Digits
  /\ \A j \in h[i] .. h[i] + e - i : x[j] \in G!Dial
  /\ SubSeq(y, i, e) = SubSeq(x, h[i], h[i] + e - i)

(* So they are, digit by digit.                                            *)
LEMMA PassedOver ==
  ASSUME NEW x \in Seq(G!Pieces), NEW y \in Seq(G!Pieces), NEW h,
         NEW i \in 1 .. Len(y), NEW e, Dials(y, i, e), Straight(x, h, y, i, e),
         h[i] \in 1 .. Len(x), h[e] \in 1 .. Len(x)
  PROVE  Passed(x, y, h, i, e)
<1> DEFINE A == h[i]
           E == A + e - i
<1>1. /\ e \in i .. Len(y) /\ y[e] \in G!Digits /\ \A k \in i .. e : y[k] \in G!Dial
      /\ i \in Int /\ e \in Int /\ i =< e /\ Len(y) \in Nat /\ Len(x) \in Nat
  BY DEF Dials
<1>2. /\ \A k \in i .. e + 1 : h[k] = A + k - i
      /\ \A k \in i .. e : y[k] = x[A + k - i]
  BY DEF Straight
<1>3. e \in i .. e + 1 /\ e \in i .. e  BY <1>1
<1>4. E = h[e] /\ A \in 1 .. Len(x) /\ E \in 1 .. Len(x)  BY <1>2, <1>3
<1>5. x[E] \in G!Digits  BY <1>1, <1>2, <1>3
<1>6. E = A + e - i  OBVIOUS
<1> HIDE DEF A, E
<1>7. E \in A .. Len(x)  BY <1>1, <1>4, <1>6
<1>8. ASSUME NEW j \in A .. E PROVE x[j] \in G!Dial
  <2> DEFINE k == j - A + i
  <2>1. k \in i .. e /\ A + k - i = j  BY <1>1, <1>4, <1>6
  <2> HIDE DEF k
  <2> QED  BY <1>1, <1>2, <2>1
<1>9. SubSeq(y, i, e) = SubSeq(x, A, E)
  <2> DEFINE s == SubSeq(y, i, e)
             t == SubSeq(x, A, E)
  <2>1. s \in Seq(G!Pieces) /\ Len(s) = e - i + 1
        /\ \A k \in 1 .. e - i + 1 : s[k] = y[i + k - 1]
    BY <1>1, PartIs
  <2>2. t \in Seq(G!Pieces) /\ Len(t) = E - A + 1
        /\ \A k \in 1 .. E - A + 1 : t[k] = x[A + k - 1]
    BY <1>4, <1>7, PartIs
  <2> HIDE DEF s, t
  <2>3. E - A + 1 = e - i + 1  BY <1>1, <1>4, <1>6
  <2>4. ASSUME NEW k \in 1 .. Len(s) PROVE s[k] = t[k]
    <3>1. k \in 1 .. e - i + 1 /\ k \in 1 .. E - A + 1  BY <2>1, <2>3
    <3>2. i + k - 1 \in i .. e /\ A + (i + k - 1) - i = A + k - 1  BY <1>1, <1>4, <3>1
    <3> QED  BY <1>2, <2>1, <2>2, <3>1, <3>2
  <2>5. s = t  BY <2>1, <2>2, <2>3, <2>4, SeqEqual
  <2> QED  BY <2>5 DEF s, t
<1> QED  BY <1>4, <1>5, <1>7, <1>8, <1>9 DEF Passed, A, E

(* Nothing that follows is a number of its own: every one of its digits    *)
(* would end where the letter is.                                          *)
LEMMA NoneBefore ==
  ASSUME NEW x \in Seq(G!Pieces), NEW A \in 1 .. Len(x), NEW M, Dials(x, A, M),
         M < Len(x), x[M + 1] \in G!Alphabetic, NEW j \in A .. M
  PROVE  G!try_match_phone(x, j) = 0
<1> DEFINE N == G!try_match_phone(x, j)
<1>1. /\ M \in A .. Len(x) /\ x[M] \in G!Digits /\ \A k \in A .. M : x[k] \in G!Dial
      /\ \A k \in M + 1 .. Len(x) : (\A l \in A .. k : x[l] \in G!Dial) => x[k] \notin G!Digits
  BY DEF Dials
<1>2. /\ A \in Int /\ M \in Int /\ j \in Int /\ Len(x) \in Nat
      /\ 1 =< A /\ A =< j /\ j =< M /\ M =< Len(x)
  BY <1>1
<1>3. j \in 1 .. Len(x)  BY <1>2
<1>4. SUFFICES ASSUME N # 0 PROVE FALSE  OBVIOUS
<1>5. Dials(x, j, N) /\ ~ Spoilt(x, j, N)  BY <1>3, <1>4, PhoneIs
<1> HIDE DEF N
<1>6. ASSUME NEW k \in M + 1 .. Len(x), \A l \in j .. k : x[l] \in G!Dial
      PROVE  x[k] \notin G!Digits
  <2>1. ASSUME NEW l \in A .. k PROVE x[l] \in G!Dial
    <3>1. l \in A .. M \/ l \in j .. k  BY <1>2
    <3> QED  BY <1>1, <1>6, <3>1
  <2> QED  BY <1>1, <2>1
<1>7. Dials(x, j, M)
  <2>1. M \in j .. Len(x) /\ \A k \in j .. M : k \in A .. M  BY <1>2
  <2> QED  BY <1>1, <1>6, <2>1 DEF Dials
<1>8. M = N  BY <1>3, <1>5, <1>7, LastDigit
<1> QED  BY <1>5, <1>8 DEF Spoilt

(* What mask_phones left has no number left.                               *)
LEMMA NoNumberLeft ==
  ASSUME NEW x \in Seq(G!Pieces), NEW y, NEW m, NEW h,
         Trace(x, PhoneEnds(x), "[phone]", 1, y, m, h), NEW i \in 1 .. m
  PROVE  G!try_match_phone(y, i) = 0
<1> DEFINE ends == PhoneEnds(x)
           e == G!try_match_phone(y, i)
           A == h[i]
           E == h[i] + e - i
<1>1. Ends(x, ends) /\ \A j \in 1 .. Len(x) : ends[j] = G!try_match_phone(x, j)
  BY PhoneEnd
<1> HIDE DEF ends
<1>2. Trace(x, ends, "[phone]", 1, y, m, h)  BY DEF ends
<1>3. /\ m \in Nat /\ y \in Seq(G!Pieces) /\ Len(y) = m /\ Len(x) \in Nat
      /\ h \in [1 .. m + 1 -> 1 .. Len(x) + 1] /\ h[1] = 1 /\ h[m + 1] = Len(x) + 1
      /\ \A k \in 1 .. m : /\ h[k] \in 1 .. Len(x) /\ h[k + 1] = After(ends, h[k])
                           /\ y[k] = IF ends[h[k]] # 0 THEN "[phone]" ELSE x[h[k]]
  BY <1>2 DEF Trace
<1>4. SUFFICES ASSUME e # 0 PROVE FALSE  OBVIOUS
<1>5. Dials(y, i, e) /\ ~ Spoilt(y, i, e)  BY <1>3, <1>4, PhoneIs
<1> HIDE DEF e
<1>6. /\ e \in i .. m /\ y[e] \in G!Digits /\ \A k \in i .. e : y[k] \in G!Dial
      /\ \A j \in e + 1 .. m : (\A k \in i .. j : y[k] \in G!Dial) => y[j] \notin G!Digits
  BY <1>3, <1>5 DEF Dials
<1>7. i \in Int /\ e \in Int /\ i =< e /\ e =< m /\ 1 =< i /\ i \in 1 .. m /\ e \in 1 .. m
  BY <1>3, <1>6
<1>8. "[phone]" \notin G!Dial  BY DEF G!Dial, G!Attaching, G!Digits
<1>9. Unhit(ends, h, i, e)
  <2>1. ASSUME NEW k \in i .. e PROVE ends[h[k]] = 0
    <3>1. k \in 1 .. m  BY <1>3, <1>7
    <3> QED  BY <1>3, <1>6, <1>8, <3>1
  <2> QED  BY <2>1 DEF Unhit
<1>10. Straight(x, h, y, i, e)  BY <1>1, <1>2, <1>6, <1>9, TraceStraight
<1>11. Passed(x, y, h, i, e)  BY <1>3, <1>5, <1>7, <1>10, PassedOver
<1>12. /\ A \in 1 .. Len(x) /\ E \in A .. Len(x) /\ x[E] \in G!Digits
       /\ \A j \in A .. E : x[j] \in G!Dial
       /\ SubSeq(y, i, e) = SubSeq(x, A, E)
  BY <1>11 DEF Passed
<1>13. h[e] = E /\ h[e + 1] = E + 1 /\ E = A + e - i
  <2>1. e \in i .. e + 1 /\ e + 1 \in i .. e + 1  BY <1>7
  <2>2. h[e] = A + e - i /\ h[e + 1] = A + (e + 1) - i  BY <1>10, <2>1 DEF Straight
  <2> QED  BY <1>3, <1>7, <1>12, <2>2
<1> HIDE DEF A, E
<1>14. A \in Int /\ E \in Int /\ A =< E /\ E =< Len(x) /\ 1 =< A  BY <1>3, <1>12
<1>15. ends[A] = 0
  <2>1. i \in i .. e  BY <1>7
  <2> QED  BY <1>9, <2>1 DEF Unhit, A
<1>16. PICK M : Dials(x, A, M) /\ M \in E .. Len(x)
  <2>1. E \in DialDigits(x, A)  BY <1>12 DEF DialDigits, DialRun
  <2>2. DialDigits(x, A) # {}  BY <2>1
  <2>3. Dials(x, A, Max(DialDigits(x, A)))  BY <1>12, <2>2, LastDigit
  <2> DEFINE M == Max(DialDigits(x, A))
  <2>4. DialDigits(x, A) \subseteq 1 .. Len(x)
    <3>1. A .. Len(x) \subseteq 1 .. Len(x)  BY <1>3, <1>14
    <3> QED  BY <3>1 DEF DialDigits, DialRun
  <2>5. E =< M  BY <1>3, <2>1, <2>2, <2>4, MaxIsGreatest
  <2>6. M \in A .. Len(x)  BY <2>3 DEF Dials
  <2> HIDE DEF M
  <2>7. M \in E .. Len(x)  BY <1>3, <1>14, <2>5, <2>6
  <2> QED  BY <2>3, <2>7 DEF M
<1>17. Spoilt(x, A, M)
  <2>1. G!try_match_phone(x, A) = 0  BY <1>1, <1>12, <1>15
  <2>2. M # 0  BY <1>3, <1>14, <1>16
  <2> QED  BY <1>12, <1>16, <2>1, <2>2, PhoneIs
<1>18. CASE A > 1 /\ x[A - 1] \in G!Digits \union G!Attaching
  <2>1. i > 1  BY <1>3, <1>7, <1>18 DEF A
  <2> DEFINE q == h[i - 1]
  <2>2. i - 1 \in 1 .. m /\ (i - 1) + 1 = i  BY <1>3, <1>7, <2>1
  <2>3. /\ q \in 1 .. Len(x) /\ A = After(ends, q)
        /\ y[i - 1] = IF ends[q] # 0 THEN "[phone]" ELSE x[q]
    BY <1>3, <2>2 DEF A
  <2> HIDE DEF q
  <2>4. CASE ends[q] = 0
    <3>1. q = A - 1  BY <1>14, <2>3, <2>4 DEF After
    <3> QED  BY <1>5, <1>18, <2>1, <2>3, <2>4, <3>1 DEF Spoilt
  <2>5. CASE ends[q] # 0
    <3>1. ends[q] \in q .. Len(x)  BY <1>1, <2>3, <2>5 DEF Ends
    <3>2. ends[q] = A - 1 /\ q \in Int /\ q =< A - 1  BY <1>14, <2>3, <2>5, <3>1 DEF After
    <3>3. Dials(x, q, A - 1)  BY <1>1, <2>3, <2>5, <3>2, PhoneIs
    <3>4. E \in (A - 1) + 1 .. Len(x)  BY <1>3, <1>14
    <3>5. ASSUME NEW k \in q .. E PROVE x[k] \in G!Dial
      <4>1. k \in q .. A - 1 \/ k \in A .. E  BY <1>14, <3>2
      <4> QED  BY <1>12, <3>3, <4>1 DEF Dials
    <3> QED  BY <1>12, <3>3, <3>4, <3>5 DEF Dials
  <2> QED  BY <2>4, <2>5
<1>19. CASE G!digit_count(SubSeq(x, A, M)) < 7
  <2>1. G!digit_count(SubSeq(x, A, E)) < 7  BY <1>12, <1>16, <1>19, CountGrows
  <2> QED  BY <1>5, <1>12, <2>1 DEF Spoilt
<1>20. CASE M < Len(x) /\ x[M + 1] \in G!Alphabetic
  <2>1. M \in Int /\ E =< M  BY <1>3, <1>14, <1>16
  <2>2. CASE M = E
    <3>1. e < m  BY <1>3, <1>7, <1>13, <1>14, <1>20, <2>2
    <3>2. e + 1 \in 1 .. m  BY <1>3, <1>7, <3>1
    <3>3. h[e + 1] = M + 1 /\ M + 1 \in 1 .. Len(x)  BY <1>3, <1>13, <1>14, <1>20, <2>1, <2>2
    <3>4. ends[M + 1] = 0
      <4>1. SUFFICES ASSUME ends[M + 1] # 0 PROVE FALSE  OBVIOUS
      <4>2. Dials(x, M + 1, ends[M + 1])  BY <1>1, <3>3, <4>1, PhoneIs
      <4>3. M + 1 \in M + 1 .. ends[M + 1]  BY <2>1, <3>3, <4>2 DEF Dials
      <4>4. x[M + 1] \in G!Dial  BY <4>2, <4>3 DEF Dials
      <4> QED  BY <1>20, <4>4 DEF G!Dial, G!Attaching, G!Digits, G!Alphabetic, G!Keys
    <3>5. y[e + 1] = x[M + 1]  BY <1>3, <3>2, <3>3, <3>4
    <3> QED  BY <1>3, <1>5, <1>20, <3>1, <3>5 DEF Spoilt
  <2>3. CASE M # E
    <3>1. M \in A .. Len(x)  BY <1>14, <1>16, <2>1
    <3>2. ASSUME NEW j \in A .. M PROVE ends[j] = 0
      <4>1. G!try_match_phone(x, j) = 0  BY <1>12, <1>16, <1>20, NoneBefore
      <4>2. j \in 1 .. Len(x)  BY <1>3, <1>14, <3>1
      <4> QED  BY <1>1, <4>1, <4>2
    <3>3. PICK f \in i .. m : h[f] = M /\ Unhit(ends, h, i, f)
      <4>1. M \in h[i] .. Len(x) /\ Missed(ends, h[i], M)
        BY <3>1, <3>2 DEF A, Missed
      <4> QED  BY <1>1, <1>2, <4>1, TraceReaches
    <3>4. Straight(x, h, y, i, f)  BY <1>1, <1>2, <3>3, TraceStraight
    <3>5. /\ \A k \in i .. f + 1 : h[k] = A + k - i
          /\ \A k \in i .. f : y[k] = x[A + k - i]
      BY <3>4 DEF Straight, A
    <3>6. f \in Int /\ i =< f /\ f =< m  BY <1>3, <1>7, <3>3
    <3>7. f \in i .. f + 1 /\ f \in i .. f  BY <1>7, <3>6
    <3>8. M = A + f - i  BY <3>3, <3>5, <3>7
    <3>9. f \in e + 1 .. m  BY <1>3, <1>7, <1>13, <1>14, <2>1, <2>3, <3>6, <3>8
    <3>10. y[f] \in G!Digits
      <4>1. y[f] = x[M]  BY <3>5, <3>7, <3>8
      <4> QED  BY <1>16, <4>1 DEF Dials
    <3>11. ASSUME NEW k \in i .. f PROVE y[k] \in G!Dial
      <4>1. A + k - i \in A .. M  BY <1>7, <1>14, <2>1, <3>6, <3>8
      <4>2. x[A + k - i] \in G!Dial  BY <1>16, <4>1 DEF Dials
      <4> QED  BY <3>5, <4>2
    <3> QED  BY <1>6, <3>9, <3>10, <3>11
  <2> QED  BY <2>2, <2>3
<1> QED  BY <1>17, <1>18, <1>19, <1>20 DEF Spoilt

(* mask_phones changes nothing of what it left.                            *)
LEMMA PhonesMask ==
  ASSUME NEW x \in Seq(G!Pieces)
  PROVE  LET y == G!mask_phones(x)
         IN Rewrites(x, y, "[phone]") /\ G!mask_phones(y) = y
<1> DEFINE y == G!mask_phones(x)
<1>1. "[phone]" \in G!Pieces  BY DEF G!Pieces
<1>2. Ends(x, PhoneEnds(x)) /\ y = G!Rewritten(x, PhoneEnds(x), <<"[phone]">>)
  BY PhoneEnd
<1> HIDE DEF y
<1>3. PICK m, h : Trace(x, PhoneEnds(x), "[phone]", 1, y, m, h)
  BY <1>1, <1>2, RewrittenOne
<1>4. Rewrites(x, y, "[phone]")  BY <1>2, <1>3 DEF Rewrites
<1>5. y \in Seq(G!Pieces) /\ Len(y) = m  BY <1>3 DEF Trace
<1>6. \A i \in 1 .. Len(y) : PhoneEnds(y)[i] = 0
  <2>1. \A i \in 1 .. m : G!try_match_phone(y, i) = 0  BY <1>3, NoNumberLeft
  <2> QED  BY <1>5, <2>1, PhoneEnd
<1>7. G!mask_phones(y) = y  BY <1>1, <1>5, <1>6, PhoneEnd, NothingHit
<1> QED  BY <1>4, <1>7 DEF y

(* What a rewriting keeps of a text, all in one.                           *)
LEMMA RewritesKeeps ==
  ASSUME NEW x \in Seq(G!Pieces), NEW y, NEW piece, Rewrites(x, y, piece),
         piece \notin G!Marks \union {"gap"} \union G!Keys
  PROVE  /\ y \in Seq(G!Pieces) /\ Within(x, y, {piece}) /\ OldWords(x, y, {piece})
         /\ ~ Secrets(x) => ~ Secrets(y)
<1>1. PICK ends, m, h : Ends(x, ends) /\ Trace(x, ends, piece, 1, y, m, h)
  BY DEF Rewrites
<1>2. piece # "gap"  OBVIOUS
<1>3. y \in Seq(G!Pieces) /\ Within(x, y, {piece})  BY <1>1, TraceWithin
<1>4. OldWords(x, y, {piece})  BY <1>1, <1>2, TraceOldWords
<1>5. ~ Secrets(x) => ~ Secrets(y)  BY <1>1, NoNewSecret
<1> QED  BY <1>3, <1>4, <1>5

(* What is nowhere in a text, and in nothing that is put, is nowhere after.*)
Free(x, p) == \A k \in 1 .. Len(x) : x[k] # p

(* It stays away.                                                          *)
LEMMA StaysFree ==
  ASSUME NEW x, NEW y, NEW N, Within(x, y, N), NEW p, p \notin N, Free(x, p)
  PROVE  Free(y, p)
BY DEF Within, Free

PiiPuts == {"[mail]"} \union {"[phone]"}

(* What mask_pii leaves: nothing new but what it puts, no address, no      *)
(* secret that was none before, and nothing that it would mask again.      *)
LEMMA PiiMasks ==
  ASSUME NEW x \in Seq(G!Pieces), NEW z, z = G!mask_pii(x)
  PROVE  /\ z \in Seq(G!Pieces) /\ Within(x, z, PiiPuts) /\ OldWords(x, z, PiiPuts)
         /\ Free(z, "mail") /\ G!mask_pii(z) = z
         /\ ~ Secrets(x) => ~ Secrets(z)
<1> DEFINE y == G!mask_emails(x)
<1>1. Rewrites(x, y, "[mail]") /\ Free(y, "mail")  BY EmailsMask DEF Free
<1>2. z = G!mask_phones(y)  BY DEF G!mask_pii
<1> HIDE DEF y
<1>3. /\ "[mail]" \notin G!Marks \union {"gap"} \union G!Keys
      /\ "[phone]" \notin G!Marks \union {"gap"} \union G!Keys
  BY DEF G!Marks, G!Keys
<1>4. /\ y \in Seq(G!Pieces) /\ Within(x, y, {"[mail]"}) /\ OldWords(x, y, {"[mail]"})
      /\ ~ Secrets(x) => ~ Secrets(y)
  BY <1>1, <1>3, RewritesKeeps
<1>5. Rewrites(y, z, "[phone]") /\ G!mask_phones(z) = z  BY <1>2, <1>4, PhonesMask
<1>6. /\ z \in Seq(G!Pieces) /\ Within(y, z, {"[phone]"}) /\ OldWords(y, z, {"[phone]"})
      /\ ~ Secrets(y) => ~ Secrets(z)
  BY <1>3, <1>4, <1>5, RewritesKeeps
<1>7. Within(x, z, PiiPuts)  BY <1>4, <1>6, WithinOn DEF PiiPuts
<1>8. OldWords(x, z, PiiPuts)  BY <1>4, <1>6, OldWordsOn DEF PiiPuts
<1>9. Free(z, "mail")
  <2>1. "mail" \notin {"[phone]"}  OBVIOUS
  <2> QED  BY <1>1, <1>6, <2>1, StaysFree
<1>10. G!mask_pii(z) = z
  <2>1. G!mask_emails(z) = z  BY <1>6, <1>9, EmailsMask DEF Free
  <2> QED  BY <1>5, <2>1 DEF G!mask_pii
<1> QED  BY <1>4, <1>6, <1>7, <1>8, <1>9, <1>10

(* Stars take no key away and add none.                                    *)
LEMMA StarredKeys ==
  ASSUME NEW x, NEW y, NEW W, Known(W), W \intersect G!Keys = {}, Starred(x, y, W)
  PROVE  /\ KeysApart(x) => KeysApart(y)
         /\ \A key \in G!Keys : AloneKey(x, key) => AloneKey(y, key)
<1>1. /\ x \in Seq(G!Pieces) /\ y \in Seq(G!Pieces) /\ Len(y) = Len(x)
      /\ \A i \in 1 .. Len(x) : y[i] = x[i] \/ (x[i] \in W /\ y[i] = "stars")
  BY DEF Starred
<1>2. ASSUME KeysApart(x), NEW a, NEW b, IsWord(y, a, b),
             NEW i \in a .. b, NEW j \in a .. b, y[i] \in G!Keys, y[j] \in G!Keys
      PROVE  i = j
  <2>1. IsWord(x, a, b)  BY <1>2, StarredWord
  <2>2. i \in 1 .. Len(x) /\ j \in 1 .. Len(x)  BY <1>1, <2>1 DEF IsWord
  <2>3. "stars" \notin G!Keys  BY DEF G!Keys
  <2>4. x[i] \in G!Keys /\ x[j] \in G!Keys  BY <1>1, <1>2, <2>2, <2>3
  <2> QED  BY <1>2, <2>1, <2>4 DEF KeysApart, AtMostOne
<1>3. ASSUME NEW key \in G!Keys, AloneKey(x, key) PROVE AloneKey(y, key)
  <2>1. PICK a, b, p : CoreAt(x, {key}, G!Edges, a, b, p)  BY <1>3 DEF AloneKey, HasCores
  <2>2. /\ IsWord(x, a, b) /\ p \in a .. b /\ x[p] \in {key}
        /\ \A k \in a .. b : k # p => x[k] \in G!Edges
    BY <2>1 DEF CoreAt
  <2>3. IsWord(y, a, b)  BY <2>2, StarredWord
  <2>4. \A k \in a .. b : k \in 1 .. Len(x)  BY <1>1, <2>2 DEF IsWord
  <2>5. y[p] \in {key}  BY <1>1, <2>2, <2>4
  <2>6. ASSUME NEW k \in a .. b, k # p PROVE y[k] \in G!Edges
    <3>1. "stars" \in G!Edges  BY DEF G!Edges
    <3> QED  BY <1>1, <2>2, <2>4, <2>6, <3>1
  <2>7. CoreAt(y, {key}, G!Edges, a, b, p)  BY <2>2, <2>3, <2>5, <2>6 DEF CoreAt
  <2> QED  BY <2>7 DEF AloneKey, HasCores
<1> QED  BY <1>2, <1>3 DEF KeysApart, AtMostOne

-----------------------------------------------------------------------------
(* What the words of a text are, by their places.                          *)

(* Words as Separate has them have one piece of W at most.                 *)
LEMMA SeparateWords ==
  ASSUME NEW x \in Seq(G!Pieces), NEW W,
         \A token \in G!Words(x) : \A i, j \in DOMAIN token :
            token[i] \in W /\ token[j] \in W => i = j
  PROVE  AtMostOne(x, W)
<1>1. SUFFICES ASSUME NEW a, NEW b, IsWord(x, a, b), NEW i \in a .. b, NEW j \in a .. b,
                      x[i] \in W, x[j] \in W
               PROVE  i = j
  BY DEF AtMostOne
<1>2. /\ a \in 1 .. Len(x) /\ b \in a .. Len(x) /\ x[a] # "gap" /\ (a > 1 => x[a - 1] = "gap")
  <2>1. a \in a .. b  BY <1>1 DEF IsWord
  <2> QED  BY <1>1, <2>1 DEF IsWord
<1>3. G!Begins(x, a)  BY <1>2 DEF G!Begins
<1>4. PICK c : IsWord(x, a, c) /\ G!Word(x, a) = SubSeq(x, a, c)  BY <1>2, <1>3, WordIs
<1>5. c = b  BY <1>1, <1>4, SameWord
<1> DEFINE token == SubSeq(x, a, b)
<1>6. token \in G!Words(x)
  <2>1. DOMAIN x = 1 .. Len(x)  OBVIOUS
  <2>2. a \in {k \in DOMAIN x : G!Begins(x, k)}  BY <1>2, <1>3, <2>1
  <2>3. token = G!Word(x, a)  BY <1>4, <1>5
  <2> HIDE DEF token
  <2> QED  BY <2>2, <2>3 DEF G!Words
<1>7. /\ token \in Seq(G!Pieces) /\ Len(token) = b - a + 1
      /\ \A k \in a .. b : token[k - a + 1] = x[k]
  BY <1>2, PartIs
<1> HIDE DEF token
<1>8. DOMAIN token = 1 .. b - a + 1  BY <1>7
<1>9. i - a + 1 \in DOMAIN token /\ j - a + 1 \in DOMAIN token  BY <1>2, <1>8
<1>10. i - a + 1 = j - a + 1  BY <1>1, <1>6, <1>7, <1>9
<1> QED  BY <1>2, <1>10

(* A word of one piece stands somewhere, alone.                            *)
LEMMA AloneWord ==
  ASSUME NEW x \in Seq(G!Pieces), NEW w, <<w>> \in G!Words(x)
  PROVE  \E a : IsWord(x, a, a) /\ x[a] = w
<1>1. PICK a \in DOMAIN x : G!Begins(x, a) /\ <<w>> = G!Word(x, a)  BY DEF G!Words
<1>2. a \in 1 .. Len(x)  OBVIOUS
<1>3. PICK b : IsWord(x, a, b) /\ <<w>> = SubSeq(x, a, b)  BY <1>1, <1>2, WordIs
<1>4. b \in a .. Len(x)  BY <1>3 DEF IsWord
<1>5. Len(SubSeq(x, a, b)) = b - a + 1 /\ SubSeq(x, a, b)[a - a + 1] = x[a]
  <2>1. a \in a .. b  BY <1>2, <1>4
  <2> QED  BY <1>2, <1>4, <2>1, PartIs
<1>6. b = a /\ x[a] = w
  <2> DEFINE one == <<w>>
  <2>1. Len(one) = 1 /\ one[1] = w /\ a \in Int /\ b \in Int /\ a - a + 1 = 1  BY <1>2, <1>4
  <2>2. one = SubSeq(x, a, b)  BY <1>3
  <2> HIDE DEF one
  <2>3. b - a + 1 = 1  BY <1>5, <2>1, <2>2
  <2>4. one[a - a + 1] = x[a]  BY <1>5, <2>2
  <2> QED  BY <2>1, <2>3, <2>4
<1> QED  BY <1>3, <1>6

(* A secret of one piece stands somewhere, with only what is cut off       *)
(* around it.                                                              *)
LEMMA AloneToken ==
  ASSUME NEW x \in Seq(G!Pieces), NEW key \in G!Keys, NEW token \in G!Words(x),
         G!Trimmed(token, G!Edges) = <<key>>
  PROVE  AloneKey(x, key)
<1> DEFINE W == {key}
<1>1. Known(W) /\ G!Edges \subseteq G!Marks
  BY DEF Known, G!Pieces, G!Marks, G!Edges, G!Keys
<1>2. PICK i \in DOMAIN x : G!Begins(x, i) /\ token = G!Word(x, i)  BY DEF G!Words
<1>3. i \in 1 .. Len(x)  OBVIOUS
<1>4. PICK c : IsWord(x, i, c) /\ G!Word(x, i) = SubSeq(x, i, c)  BY <1>2, <1>3, WordIs
<1>5. G!Word(x, i) # <<>>
  <2>1. c \in i .. Len(x)  BY <1>4 DEF IsWord
  <2> QED  BY <1>3, <1>4, <2>1, PartIs
<1>6. CoreHits(x, W, G!Edges)[i] = G!Word(x, i)
  <2>1. \E w \in W : G!Trimmed(G!Word(x, i), G!Edges) = <<w>>  BY <1>2
  <2> QED  BY <1>2, <2>1 DEF CoreHits
<1> HIDE DEF W
<1>7. \E b, p : CoreAt(x, W, G!Edges, i, b, p)  BY <1>1, <1>3, <1>5, <1>6, CoreHit
<1> QED  BY <1>7 DEF AloneKey, HasCores, W

-----------------------------------------------------------------------------
(* What the guardrails that a text x has passed have made of it, y.        *)

ProfanityMasked(x, y, W) ==
  /\ ~ HasCores(y, W, G!Marks)
  /\ \A w \in W : (\E a : IsWord(x, a, a) /\ x[a] = w) => Free(y, w)

SecretsMasked(x, y) ==
  ~ Secrets(y) /\ \A key \in G!Keys : AloneKey(x, key) => Free(y, key)

PiiMasked(y, blocklist) ==
  /\ Free(y, "mail") /\ G!mask_pii(y) = y
  /\ ~ G!find_blocklist_match(y, blocklist)

MaskedTo(passed, x, y, p) ==
  LET W == G!Profane(p.extra_blocklist)
  IN /\ y \in Seq(G!Pieces)
     /\ passed \intersect {"secrets", "pii"} = {} => Starred(x, y, W)
     /\ passed \intersect {"profanity", "secrets", "pii"} = {} => y = x
     /\ "profanity" \in passed => ProfanityMasked(x, y, W)
     /\ "secrets" \in passed => SecretsMasked(x, y)
     /\ "pii" \in passed => PiiMasked(y, p.blocklist)

(* What they are given: a text that the masks are made for.                *)
Maskable(x, p) ==
  /\ x \in Seq(G!Pieces) /\ KeysApart(x)
  /\ AtMostOne(x, G!Profane(p.extra_blocklist))
  /\ p.extra_blocklist \subseteq G!Listed /\ p.blocklist \subseteq G!Listed

(* The masks before g, in their order.                                     *)
ItsTurn(passed, g) ==
  /\ g = "profanity" => passed \intersect {"profanity", "secrets", "pii"} = {}
  /\ g = "secrets" => passed \intersect {"secrets", "pii"} = {}

(* guardrail-profanity, when its turn is first, does what it promises.     *)
LEMMA ProfanityStep ==
  ASSUME NEW passed, NEW x, NEW y, NEW p, Maskable(x, p), MaskedTo(passed, x, y, p),
         ItsTurn(passed, "profanity"), NEW z, z = G!mask_profanity(y, p.extra_blocklist)
  PROVE  MaskedTo(passed \union {"profanity"}, x, z, p)
<1> DEFINE W == G!Profane(p.extra_blocklist)
<1>1. passed \intersect {"profanity", "secrets", "pii"} = {}  BY DEF ItsTurn
<1>2. y = x  BY <1>1 DEF MaskedTo
<1>3. /\ x \in Seq(G!Pieces) /\ p.extra_blocklist \subseteq G!Listed /\ AtMostOne(x, W)
  BY DEF Maskable
<1>4. /\ Starred(x, z, W) /\ ~ HasCores(z, W, G!Marks)
      /\ \A a : IsWord(x, a, a) /\ x[a] \in W => \A k \in 1 .. Len(z) : z[k] # x[a]
  BY <1>2, <1>3, ProfanityMasks
<1> HIDE DEF W
<1>5. ProfanityMasked(x, z, W)  BY <1>4 DEF ProfanityMasked, Free
<1>6. z \in Seq(G!Pieces)  BY <1>4 DEF Starred
<1>7. /\ "secrets" \notin passed \union {"profanity"}
      /\ "pii" \notin passed \union {"profanity"}
  BY <1>1
<1> QED  BY <1>4, <1>5, <1>6, <1>7 DEF MaskedTo, W

(* What a later mask puts brings no word back.                             *)
LEMMA ProfanityStays ==
  ASSUME NEW x, NEW y, NEW z, NEW N, NEW W, ProfanityMasked(x, y, W),
         Within(y, z, N), OldWords(y, z, N), N \intersect (W \union G!Marks) = {}
  PROVE  ProfanityMasked(x, z, W)
<1>1. ~ HasCores(z, W, G!Marks)  BY NoNewCore DEF ProfanityMasked
<1>2. ASSUME NEW w \in W, \E a : IsWord(x, a, a) /\ x[a] = w PROVE Free(z, w)
  <2>1. Free(y, w) /\ w \notin N  BY <1>2 DEF ProfanityMasked
  <2> QED  BY <2>1, StaysFree
<1> QED  BY <1>1, <1>2 DEF ProfanityMasked

(* What the other masks put is no word of a list, and no mark.             *)
LEMMA NotListed ==
  ASSUME NEW p, p.extra_blocklist \subseteq G!Listed
  PROVE  /\ {"[key]"} \intersect (G!Profane(p.extra_blocklist) \union G!Marks) = {}
         /\ PiiPuts \intersect (G!Profane(p.extra_blocklist) \union G!Marks) = {}
         /\ G!Profane(p.extra_blocklist) \intersect G!Keys = {}
<1>1. G!Profane(p.extra_blocklist) \subseteq G!Listed  BY OnlyListed
<1>2. /\ {"[key]"} \intersect (G!Listed \union G!Marks) = {}
      /\ PiiPuts \intersect (G!Listed \union G!Marks) = {}
      /\ G!Listed \intersect G!Keys = {}
  BY DEF G!Listed, G!Marks, G!Keys, PiiPuts
<1> QED  BY <1>1, <1>2

(* guardrail-secrets keeps what profanity did, and does what it promises.  *)
LEMMA SecretsStep ==
  ASSUME NEW passed, NEW x, NEW y, NEW p, Maskable(x, p), MaskedTo(passed, x, y, p),
         ItsTurn(passed, "secrets"), NEW z, z = G!mask_secrets(y)
  PROVE  MaskedTo(passed \union {"secrets"}, x, z, p)
<1> DEFINE W == G!Profane(p.extra_blocklist)
<1>1. passed \intersect {"secrets", "pii"} = {}  BY DEF ItsTurn
<1>2. /\ y \in Seq(G!Pieces) /\ Starred(x, y, W)
      /\ "profanity" \in passed => ProfanityMasked(x, y, W)
  BY <1>1 DEF MaskedTo
<1>3. Known(W) /\ W \intersect G!Keys = {} /\ {"[key]"} \intersect (W \union G!Marks) = {}
  BY KnownProfane, NotListed DEF Maskable
<1> HIDE DEF W
<1>4. KeysApart(y) /\ \A key \in G!Keys : AloneKey(x, key) => AloneKey(y, key)
  BY <1>2, <1>3, StarredKeys DEF Maskable
<1>5. /\ KeyStep(y, z) /\ ~ Secrets(z)
      /\ \A key \in G!Keys : AloneKey(y, key) => Free(z, key)
  BY <1>2, <1>4, SecretsMasks DEF Free
<1>6. z \in Seq(G!Pieces) /\ Within(y, z, {"[key]"}) /\ OldWords(y, z, {"[key]"})
  BY <1>5 DEF KeyStep
<1>7. "profanity" \in passed => ProfanityMasked(x, z, W)
  BY <1>2, <1>3, <1>6, ProfanityStays
<1>8. SecretsMasked(x, z)  BY <1>4, <1>5 DEF SecretsMasked
<1>9. "pii" \notin passed \union {"secrets"}  BY <1>1
<1> QED  BY <1>6, <1>7, <1>8, <1>9 DEF MaskedTo, W

(* guardrail-pii keeps what the others did, and does what it promises.     *)
LEMMA PiiStep ==
  ASSUME NEW passed, NEW x, NEW y, NEW p, Maskable(x, p), MaskedTo(passed, x, y, p),
         ~ G!find_blocklist_match(y, p.blocklist), NEW z, z = G!mask_pii(y)
  PROVE  MaskedTo(passed \union {"pii"}, x, z, p)
<1> DEFINE W == G!Profane(p.extra_blocklist)
<1>1. /\ y \in Seq(G!Pieces)
      /\ "profanity" \in passed => ProfanityMasked(x, y, W)
      /\ "secrets" \in passed => SecretsMasked(x, y)
  BY DEF MaskedTo
<1>2. PiiPuts \intersect (W \union G!Marks) = {}  BY NotListed DEF Maskable
<1> HIDE DEF W
<1>3. /\ z \in Seq(G!Pieces) /\ Within(y, z, PiiPuts) /\ OldWords(y, z, PiiPuts)
      /\ Free(z, "mail") /\ G!mask_pii(z) = z
      /\ ~ Secrets(y) => ~ Secrets(z)
  BY <1>1, PiiMasks
<1>4. "profanity" \in passed => ProfanityMasked(x, z, W)
  BY <1>1, <1>2, <1>3, ProfanityStays
<1>5. "secrets" \in passed => SecretsMasked(x, z)
  <2>1. PiiPuts \intersect G!Keys = {}  BY DEF PiiPuts, G!Keys
  <2>2. \A key \in G!Keys : Free(y, key) => Free(z, key)  BY <1>3, <2>1, StaysFree
  <2> QED  BY <1>1, <1>3, <2>2 DEF SecretsMasked
<1>6. ~ G!find_blocklist_match(z, p.blocklist)
  <2>1. ASSUME NEW w \in p.blocklist PROVE ~ G!Occurs(w, z)
    <3>1. Free(y, w)  BY DEF G!find_blocklist_match, G!Occurs, G!Contains, Free
    <3>2. w \notin PiiPuts  BY DEF Maskable, G!Listed, PiiPuts
    <3>3. Free(z, w)  BY <1>3, <3>1, <3>2, StaysFree
    <3> QED  BY <3>3 DEF G!Occurs, G!Contains, Free
  <2> QED  BY <2>1 DEF G!find_blocklist_match
<1>7. PiiMasked(z, p.blocklist)  BY <1>3, <1>6 DEF PiiMasked
<1>8. (passed \union {"pii"}) \intersect {"secrets", "pii"} # {}  OBVIOUS
<1>9. (passed \union {"pii"}) \intersect {"profanity", "secrets", "pii"} # {}  OBVIOUS
<1> QED  BY <1>3, <1>4, <1>5, <1>7, <1>8, <1>9 DEF MaskedTo, W

(* What a guardrail lets through.                                          *)
LetThrough(g, direction, text, p) ==
  LET v == G!evaluate(g, direction, text, p)
  IN IF v.verdict = "update" THEN v.text ELSE text

(* The two that refuse change nothing.                                     *)
LEMMA OtherStep ==
  ASSUME NEW passed, NEW x, NEW y, NEW p, MaskedTo(passed, x, y, p),
         NEW g \in {"topic", "injection"}
  PROVE  MaskedTo(passed \union {g}, x, y, p)
BY DEF MaskedTo

(* What the guardrails answer, one by one.                                 *)
LEMMA Evaluates ==
  ASSUME NEW d, NEW y, NEW p
  PROVE  /\ G!evaluate("pii", d, y, p) =
              IF G!find_blocklist_match(y, p.blocklist) THEN G!Deny
              ELSE G!Masks(y, G!mask_pii(y))
         /\ G!evaluate("profanity", d, y, p) =
              G!Masks(y, G!mask_profanity(y, p.extra_blocklist))
         /\ G!evaluate("secrets", d, y, p) = G!Masks(y, G!mask_secrets(y))
         /\ \A g \in {"topic", "injection"} : G!evaluate(g, d, y, p) \in {G!Deny, G!Accept}
         /\ d # "inbound" =>
              \A g \in {"topic", "injection"} : G!evaluate(g, d, y, p) = G!Accept
BY DEF G!evaluate

(* Every guardrail that lets a text through, in its turn, has done its     *)
(* part.                                                                   *)
LEMMA GuardStep ==
  ASSUME NEW passed, NEW x, NEW y, NEW p, Maskable(x, p), MaskedTo(passed, x, y, p),
         NEW g \in Guards, ItsTurn(passed, g), NEW d,
         G!evaluate(g, d, y, p).verdict # "deny"
  PROVE  MaskedTo(passed \union {g}, x, LetThrough(g, d, y, p), p)
<1>1. \A masked : /\ G!Masks(y, masked).verdict = "update" => G!Masks(y, masked).text = masked
                  /\ G!Masks(y, masked).verdict # "update" => masked = y
  BY DEF G!Masks, G!Accept, G!Update
<1>2. CASE g = "pii"
  <2>1. ~ G!find_blocklist_match(y, p.blocklist)  BY <1>2, Evaluates DEF G!Deny
  <2>2. G!evaluate(g, d, y, p) = G!Masks(y, G!mask_pii(y))  BY <1>2, <2>1, Evaluates
  <2>3. LetThrough(g, d, y, p) = G!mask_pii(y)  BY <1>1, <2>2 DEF LetThrough
  <2> QED  BY <1>2, <2>1, <2>3, PiiStep
<1>3. CASE g = "profanity"
  <2>1. G!evaluate(g, d, y, p) = G!Masks(y, G!mask_profanity(y, p.extra_blocklist))
    BY <1>3, Evaluates
  <2>2. LetThrough(g, d, y, p) = G!mask_profanity(y, p.extra_blocklist)
    BY <1>1, <2>1 DEF LetThrough
  <2> QED  BY <1>3, <2>2, ProfanityStep
<1>4. CASE g = "secrets"
  <2>1. G!evaluate(g, d, y, p) = G!Masks(y, G!mask_secrets(y))  BY <1>4, Evaluates
  <2>2. LetThrough(g, d, y, p) = G!mask_secrets(y)  BY <1>1, <2>1 DEF LetThrough
  <2> QED  BY <1>4, <2>2, SecretsStep
<1>5. CASE g \in {"topic", "injection"}
  <2>1. G!evaluate(g, d, y, p).verdict # "update"
    BY <1>5, Evaluates DEF G!Deny, G!Accept
  <2>2. LetThrough(g, d, y, p) = y  BY <2>1 DEF LetThrough
  <2> QED  BY <1>5, <2>2, OtherStep
<1> QED  BY <1>2, <1>3, <1>4, <1>5 DEF Guards

(* A text that a guardrail has masked it lets through as it is.            *)
LEMMA CleanIsKept ==
  ASSUME NEW passed, NEW x, NEW y, NEW p, Maskable(x, p), MaskedTo(passed, x, y, p),
         NEW g \in Guards, g \in passed
  PROVE  G!evaluate(g, "outbound", y, p) = G!Accept
<1> DEFINE W == G!Profane(p.extra_blocklist)
<1>1. /\ y \in Seq(G!Pieces)
      /\ "profanity" \in passed => ~ HasCores(y, W, G!Marks)
      /\ "secrets" \in passed => ~ Secrets(y)
      /\ "pii" \in passed => PiiMasked(y, p.blocklist)
  BY DEF MaskedTo, ProfanityMasked, SecretsMasked
<1>2. G!Masks(y, y) = G!Accept  BY DEF G!Masks
<1>3. CASE g = "pii"  BY <1>1, <1>2, <1>3, Evaluates DEF PiiMasked
<1>4. CASE g = "profanity"
  <2>1. G!mask_profanity(y, p.extra_blocklist) = y
    BY <1>1, <1>4, NoCore DEF Maskable
  <2> QED  BY <1>2, <1>4, <2>1, Evaluates
<1>5. CASE g = "secrets"
  <2>1. G!mask_secrets(y) = y  BY <1>1, <1>5, NothingSecret
  <2> QED  BY <1>2, <1>5, <2>1, Evaluates
<1>6. CASE g \in {"topic", "injection"}  BY <1>6, Evaluates
<1> QED  BY <1>3, <1>4, <1>5, <1>6 DEF Guards

-----------------------------------------------------------------------------
(* The second inductive invariant: what the text has become of what was    *)
(* said, by the guardrails that it has passed; on the way back it has      *)
(* passed them all.                                                        *)

PassedBy ==
  IF pc = "inbound" THEN {chain[i] : i \in 1 .. next - 1}
                    ELSE {chain[i] : i \in DOMAIN chain}

MaskInv ==
  /\ said \in Seq(G!Pieces) /\ chain \in Seq(Guards) /\ next \in 1 .. Len(chain) + 1
  /\ pc \notin {"denied", "failed"} /\ WithinReach =>
       MaskedTo(PassedBy, said, body, policy)

(* What was said is what the masks are made for.                           *)
LEMMA SaidIsMaskable ==
  ASSUME MaskInv, WithinReach
  PROVE  Maskable(said, policy)
<1>1. /\ said \in Seq(G!Pieces)
      /\ policy.extra_blocklist \subseteq G!Listed /\ policy.blocklist \subseteq G!Listed
  BY DEF MaskInv, WithinReach, ListsWords
<1>2. ASSUME NEW which \in {Profane, G!Keys} PROVE AtMostOne(said, which)
  <2>1. \A token \in G!Words(said) : \A i, j \in DOMAIN token :
           token[i] \in which /\ token[j] \in which => i = j
    BY DEF WithinReach, Separate
  <2> QED  BY <1>1, <2>1, SeparateWords
<1> QED  BY <1>1, <1>2 DEF Maskable, KeysApart, Profane

(* Before the first guardrail nothing has happened.                        *)
LEMMA MaskedAtFirst ==
  ASSUME NEW x \in Seq(G!Pieces), NEW p
  PROVE  MaskedTo({}, x, x, p)
BY StarredSame DEF MaskedTo

(* In a chain in order, each mask has its turn.                            *)
LEMMA InOrderTurns ==
  ASSUME chain \in Seq(Guards), next \in DOMAIN chain, InOrder
  PROVE  ItsTurn({chain[i] : i \in 1 .. next - 1}, chain[next])
<1>1. Len(chain) \in Nat /\ DOMAIN chain = 1 .. Len(chain) /\ next \in 1 .. Len(chain)
  OBVIOUS
<1>2. /\ DOMAIN MaskRank = {"profanity", "secrets", "pii"}
      /\ MaskRank["profanity"] = 1 /\ MaskRank["secrets"] = 2 /\ MaskRank["pii"] = 3
  BY DEF MaskRank
<1>3. ASSUME NEW i \in 1 .. next - 1, chain[next] \in DOMAIN MaskRank,
             chain[i] \in DOMAIN MaskRank
      PROVE  MaskRank[chain[i]] < MaskRank[chain[next]]
  <2>1. i \in DOMAIN chain /\ i < next  BY <1>1
  <2> QED  BY <1>3, <2>1 DEF InOrder
<1>4. ASSUME chain[next] = "profanity", NEW i \in 1 .. next - 1
      PROVE  chain[i] \notin {"profanity", "secrets", "pii"}
  BY <1>2, <1>3, <1>4
<1>5. ASSUME chain[next] = "secrets", NEW i \in 1 .. next - 1
      PROVE  chain[i] \notin {"secrets", "pii"}
  BY <1>2, <1>3, <1>5
<1> QED  BY <1>4, <1>5 DEF ItsTurn

(* The invariant holds when a message arrives.                             *)
LEMMA MaskInvAtFirst ==
  ASSUME NEW start \in Starts, Arrives(start)
  PROVE  MaskInv
<1>1. /\ said \in Seq(G!Pieces) /\ body = said /\ chain \in Seq(Guards)
      /\ next = 1 /\ pc = "inbound"
  BY StartsAssumption DEF Arrives
<1>2. PassedBy = {}  BY <1>1 DEF PassedBy
<1>3. next \in 1 .. Len(chain) + 1  BY <1>1
<1> QED  BY <1>1, <1>2, <1>3, MaskedAtFirst DEF MaskInv

(* A guardrail keeps it: on the way in it does its part, on the way back   *)
(* it finds nothing.                                                       *)
LEMMA GuardMaskInv ==
  ASSUME MaskInv, Guard
  PROVE  MaskInv'
<1>1. /\ said \in Seq(G!Pieces) /\ chain \in Seq(Guards) /\ next \in 1 .. Len(chain) + 1
  BY DEF MaskInv
<1>2. /\ pc \in {"inbound", "outbound"} /\ next \in DOMAIN chain
      /\ chain' = chain /\ policy' = policy /\ said' = said
  BY DEF Guard, conversation
<1>3. next \in 1 .. Len(chain) /\ Len(chain) \in Nat /\ DOMAIN chain = 1 .. Len(chain)
      /\ chain[next] \in Guards
  BY <1>1, <1>2
<1>4. next' \in 1 .. Len(chain) + 1  BY <1>1, <1>3 DEF Guard
<1>5. SUFFICES ASSUME pc' # "denied", WithinReach
               PROVE  MaskedTo(PassedBy', said, body', policy)
  <2>1. WithinReach' <=> WithinReach
    BY <1>2 DEF WithinReach, Separate, InOrder, ListsWords, Profane
  <2> QED  BY <1>1, <1>2, <1>4, <2>1 DEF MaskInv
<1> DEFINE g == chain[next]
           d == Direction
<1>6. /\ Verdict = G!evaluate(g, d, body, policy)
      /\ Verdict.verdict # "deny" /\ body' = LetThrough(g, d, body, policy)
      /\ next' = next + 1 /\ pc' = pc
  BY <1>5 DEF Guard, Verdict, LetThrough
<1>7. Maskable(said, policy)  BY <1>5, SaidIsMaskable
<1>8. MaskedTo(PassedBy, said, body, policy)  BY <1>2, <1>5 DEF MaskInv
<1>9. CASE pc = "inbound"
  <2>1. PassedBy = {chain[i] : i \in 1 .. next - 1}  BY <1>9 DEF PassedBy
  <2>2. ItsTurn(PassedBy, g)  BY <1>1, <1>2, <1>5, <2>1, InOrderTurns DEF WithinReach
  <2>3. PassedBy' = PassedBy \union {g}
    <3>1. PassedBy' = {chain[i] : i \in 1 .. (next + 1) - 1}
      BY <1>2, <1>6, <1>9 DEF PassedBy
    <3>2. \A i : i \in 1 .. (next + 1) - 1 <=> i \in 1 .. next - 1 \/ i = next  BY <1>3
    <3> QED  BY <2>1, <3>1, <3>2
  <2> HIDE DEF g, d
  <2>4. g \in Guards  BY <1>3 DEF g
  <2>5. MaskedTo(PassedBy \union {g}, said, LetThrough(g, d, body, policy), policy)
    BY <1>6, <1>7, <1>8, <2>2, <2>4, GuardStep
  <2> QED  BY <1>6, <2>3, <2>5
<1>10. CASE pc = "outbound"
  <2>1. PassedBy = {chain[i] : i \in DOMAIN chain}  BY <1>10 DEF PassedBy
  <2>2. PassedBy' = PassedBy  BY <1>2, <1>6, <1>10, <2>1 DEF PassedBy
  <2>3. d = "outbound" /\ g \in PassedBy /\ g \in Guards
    BY <1>2, <1>3, <1>10, <2>1 DEF Direction
  <2> HIDE DEF g, d
  <2>4. G!evaluate(g, d, body, policy) = G!Accept  BY <1>7, <1>8, <2>3, CleanIsKept
  <2>5. body' = body  BY <1>6, <2>4 DEF LetThrough, G!Accept
  <2> QED  BY <1>8, <2>2, <2>5
<1> QED  BY <1>2, <1>9, <1>10

(* Once the guardrails have been passed they stay passed.                  *)
LEMMA OtherMaskInv ==
  ASSUME MaskInv, UNCHANGED <<said, chain, policy, body>>, next' \in 1 .. Len(chain) + 1,
         \/ pc' \in {"denied", "failed"}
         \/ UNCHANGED <<pc, next>>
         \/ pc = "inbound" /\ next \notin DOMAIN chain /\ pc' # "inbound"
         \/ pc \notin {"inbound", "denied", "failed"} /\ pc' # "inbound"
  PROVE  MaskInv'
<1>1. WithinReach' <=> WithinReach
  BY DEF WithinReach, Separate, InOrder, ListsWords, Profane
<1>2. /\ said \in Seq(G!Pieces) /\ chain \in Seq(Guards) /\ next \in 1 .. Len(chain) + 1
  BY DEF MaskInv
<1>3. ASSUME pc' \notin {"denied", "failed"}
      PROVE  PassedBy' = PassedBy /\ pc \notin {"denied", "failed"}
  <2>1. CASE UNCHANGED <<pc, next>>  BY <1>3, <2>1 DEF PassedBy
  <2>2. CASE pc = "inbound" /\ next \notin DOMAIN chain /\ pc' # "inbound"
    <3>1. DOMAIN chain = 1 .. Len(chain) /\ 1 .. next - 1 = 1 .. Len(chain)
      BY <1>2, <2>2
    <3> QED  BY <2>2, <3>1 DEF PassedBy
  <2>3. CASE pc \notin {"inbound", "denied", "failed"} /\ pc' # "inbound"
    BY <2>3 DEF PassedBy
  <2> QED  BY <1>3, <2>1, <2>2, <2>3
<1> QED  BY <1>1, <1>2, <1>3 DEF MaskInv

(* Every step keeps it.                                                    *)
LEMMA ConverseMaskInv ==
  ASSUME MaskInv, [Converse]_talking
  PROVE  MaskInv'
<1>0. chain \in Seq(Guards) /\ next \in 1 .. Len(chain) + 1  BY DEF MaskInv
<1>00. 1 \in 1 .. Len(chain) + 1  BY <1>0
<1>1. CASE Guard  BY <1>1, GuardMaskInv
<1>2. CASE RefuseMessage  BY <1>0, <1>2, OtherMaskInv DEF RefuseMessage, conversation
<1>3. CASE RouteMessage  BY <1>0, <1>3, OtherMaskInv DEF RouteMessage, conversation
<1>4. CASE Jump  BY <1>0, <1>4, OtherMaskInv DEF Jump, conversation
<1>5. CASE RouteEvent  BY <1>0, <1>00, <1>5, OtherMaskInv DEF RouteEvent, conversation
<1>6. CASE RefuseEvent  BY <1>0, <1>6, OtherMaskInv DEF RefuseEvent, conversation
<1>7. CASE Deliver  BY <1>0, <1>7, OtherMaskInv DEF Deliver, conversation
<1>8. CASE UNCHANGED talking  BY <1>0, <1>8, OtherMaskInv DEF talking, conversation
<1> QED  BY <1>1, <1>2, <1>3, <1>4, <1>5, <1>6, <1>7, <1>8 DEF Converse

(* It makes the text clean.                                                *)
LEMMA MaskInvIsClean ==
  ASSUME MaskInv
  PROVE  MaskedTextIsClean
<1>1. SUFFICES ASSUME Done, WithinReach
               PROVE  LET words == G!Words(said)
                      IN /\ \A i \in DOMAIN chain :
                              chain[i] \in DOMAIN MaskRank => Keeps(chain[i], body)
                         /\ Contains(chain, "secrets") =>
                              \A k \in G!Keys :
                                (\E token \in words : G!Trimmed(token, G!Edges) = <<k>>) =>
                                  ~ Contains(body, k)
                         /\ Contains(chain, "pii") => ~ Contains(body, "mail")
                         /\ Contains(chain, "profanity") =>
                              \A w \in Profane : <<w>> \in words => ~ Contains(body, w)
  BY DEF MaskedTextIsClean
<1> DEFINE passed == {chain[i] : i \in DOMAIN chain}
<1>2. said \in Seq(G!Pieces) /\ chain \in Seq(Guards)  BY DEF MaskInv
<1>3. MaskedTo(passed, said, body, policy)  BY <1>1 DEF MaskInv, Done, PassedBy
<1>4. Maskable(said, policy)  BY <1>1, SaidIsMaskable
<1>5. ASSUME NEW g, Contains(chain, g) PROVE g \in passed
  BY <1>2, <1>5 DEF Contains
<1>6. \A w : Free(body, w) => ~ Contains(body, w)  BY DEF Free, Contains
<1>7. ASSUME NEW i \in DOMAIN chain PROVE Keeps(chain[i], body)
  <2>1. chain[i] \in passed /\ chain[i] \in Guards  BY <1>2
  <2> HIDE DEF passed
  <2>2. G!evaluate(chain[i], "outbound", body, policy) = G!Accept
    BY <1>3, <1>4, <2>1, CleanIsKept
  <2> QED  BY <2>2 DEF Keeps, G!Accept
<1> HIDE DEF passed
<1>8. ASSUME Contains(chain, "secrets"), NEW k \in G!Keys, NEW token \in G!Words(said),
             G!Trimmed(token, G!Edges) = <<k>>
      PROVE  ~ Contains(body, k)
  <2>1. SecretsMasked(said, body)  BY <1>3, <1>5, <1>8 DEF MaskedTo
  <2>2. AloneKey(said, k)  BY <1>2, <1>8, AloneToken
  <2> QED  BY <1>6, <2>1, <2>2 DEF SecretsMasked
<1>9. ASSUME Contains(chain, "pii") PROVE ~ Contains(body, "mail")
  BY <1>3, <1>5, <1>6, <1>9 DEF MaskedTo, PiiMasked
<1>10. ASSUME Contains(chain, "profanity"), NEW w \in Profane, <<w>> \in G!Words(said)
       PROVE  ~ Contains(body, w)
  <2>1. ProfanityMasked(said, body, Profane)
    BY <1>3, <1>5, <1>10 DEF MaskedTo, Profane
  <2>2. \E a : IsWord(said, a, a) /\ said[a] = w  BY <1>2, <1>10, AloneWord
  <2> QED  BY <1>6, <2>1, <2>2 DEF ProfanityMasked
<1> QED  BY <1>7, <1>8, <1>9, <1>10

(* On its way through a chain in order a text is at every moment masked by *)
(* all the guardrails it has passed (evaluate, one after the other), and   *)
(* no later one undoes what an earlier one did.                            *)
THEOREM TextIsMasked == Conversations => []MaskInv
<1>1. (\E start \in Starts : Arrives(start)) => MaskInv  BY MaskInvAtFirst
<1>2. MaskInv /\ [Converse]_talking => MaskInv'  BY ConverseMaskInv
<1> QED  BY <1>1, <1>2, PTL DEF Conversations

(* What the chain of guardrails lets through is clean, for any policies    *)
(* and chains of any length with the masks in their order and for texts of *)
(* any length whose words hold one profane piece and one key at most:      *)
(* nothing is left that a mask of the chain would mask, and no address, no *)
(* secret and no profane word, in the case it had, that stood alone as its *)
(* guardrail sees it (mask_profanity, mask_secrets, mask_pii).             *)
THEOREM MaskedMeansClean == Conversations => []MaskedTextIsClean
<1>1. MaskInv => MaskedTextIsClean  BY MaskInvIsClean
<1> QED  BY <1>1, TextIsMasked, PTL
=============================================================================
