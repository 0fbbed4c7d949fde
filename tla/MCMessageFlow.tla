---------------------------- MODULE MCMessageFlow ---------------------------
(***************************************************************************)
(* Three kinds of start: every short text through every chain of           *)
(* guardrails, every form of message through the nodes and the jumps, and  *)
(* documents to convert.                                                   *)
(***************************************************************************)
EXTENDS MessageFlow, TLC

Absent == "absent"
Wrong  == "wrong"

(* Documents, and the order in which they are written as JSON.             *)
One  == <<"num", 1, "int">>
OneF == <<"num", 1, "float">>
Two  == <<"num", 2, "int">>
A    == <<"str", "a">>
E    == <<"str", "b">>
None == <<"null">>
Yes  == <<"bool", TRUE>>
No   == <<"bool", FALSE>>
Arr(items) == <<"arr", items>>
Obj(f)     == <<"obj", f>>
Empty      == Obj(<< >>)
K(k)       == <<k>>

O1  == Obj(K("a") :> One)
O1F == Obj(K("a") :> OneF)
O2  == Obj(K("a") :> Two @@ K("b") :> A)
ON  == Obj(K("b") :> None)
AsWritten == << <<A>>, <<E>>, <<Arr(<<One>>)>>, <<Arr(<< >>)>>,
                <<O1>>, <<O1F>>, <<O2>>, <<ON>>, <<Empty>> >>
MCWritten(doc) == CHOOSE i \in DOMAIN AsWritten : AsWritten[i] = <<doc>>

Items == {One, OneF, Two, A, None, Yes, Arr(<<One>>), O1, O2, ON}
Pairs == {One, OneF, A, None, O1, O2}
Lists == {<< >>} \union {<<x>> : x \in Items} \union [1..2 -> Pairs]
         \union {<<Two, One, OneF>>, <<One, Two, One>>, <<O2, O1, O1F>>, <<O1F, O2, O1>>,
                 <<ON, O1, None>>, <<E, A, No, Yes, E>>}
Trees == {Obj(K("a") :> Arr(<<One, O2>>) @@ K("b") :> O1), Obj(K("a") :> O2 @@ K("b") :> ON),
          Obj(K("") :> One), Obj(K("") :> O1), Obj(K("1") :> One), Obj(K("0") :> One),
          Obj(<<"a", "b">> :> One @@ K("a") :> Obj(K("b") :> Two)),
          Obj(<<"a", "0">> :> One @@ <<"a", "2">> :> A), Obj(<<"a", "01">> :> One),
          Obj(<<"a", "1">> :> One @@ <<"a", "01">> :> One), Obj(K("a") :> Obj(K("02") :> One)),
          Obj(<<"a", "02", "b">> :> A @@ <<"a", "00">> :> One @@ <<"a", "2", "a">> :> None),
          Obj(<<"a", "b">> :> A @@ <<"a", "99999999999999999999">> :> One), Obj(K("00") :> A),
          Obj(<<"a", "b">> :> One @@ K("a") :> Two), Obj(<<"a", "0">> :> One @@ <<"a", "b">> :> A),
          Obj(<<"a", "">> :> One @@ K("b") :> Empty), Obj(K("a") :> Arr(<<Arr(<<One>>)>>)),
          Obj(K("a") :> One @@ K("b") :> Two)}
Objects   == {Empty, O1, O1F, O2, ON} \union Trees
Documents == {Arr(l) : l \in Lists} \union Objects \union Items

Op(op, arg) == [op |-> op, arg |-> arg]
Keys == {<< >>, <<K("a")>>, <<K("b"), K("a")>>, <<K("1"), K("b")>>}
Patches == {A, None, Empty, O1, ON, Obj(K("a") :> None), Obj(K("a") :> O2),
            Obj(K("a") :> ON @@ K("b") :> Yes)}
Conversions ==
  {Op("json_flatten", None), Op("json_unflatten", None), Op("json_dedup", None)}
  \union {Op("json_merge_patch", p) : p \in Patches}
  \union {Op(op, k) : op \in {"json_pick", "json_omit"}, k \in Keys}
  \union {Op("json_sort", [by |-> by, descending |-> d]) :
            by \in {"itself", "a", "b"}, d \in BOOLEAN}
  \union {Op("json_patch", [from |-> f, to |-> t]) : f \in {O1, O2}, t \in Objects}
  \union {Op("json_diff", Arr(<< >>))} \union {Op("json_diff", o) : o \in {O1, O1F}}
  \union {Op("json_validate", s) : s \in {"any", "obj", "invalid"}}

(* Messages.                                                               *)
Fields == {"activity_type", "activity_text", "activity_from", "attachments", "entities",
           "reply_to", "card", "text", "message_text", "source_provider", "provider",
           "channel_id", "conversation_id", "user_id", "from_id", "event_type",
           "target_flow", "env", "tenant", "team"}
Bare  == [f \in Fields |-> Absent]
Plain == [Bare EXCEPT !.text = "said", !.source_provider = "slack",
                      !.channel_id = "general", !.conversation_id = "c1", !.tenant = "acme"]
Forms ==
  {[Plain EXCEPT !.text = t, !.message_text = m, !.activity_type = k, !.activity_text = a] :
     t \in {Absent, Wrong, "said", "command"}, m \in {Absent, "said"},
     k \in {Absent, "activity"}, a \in {Absent, "said"}}
  \union {[Plain EXCEPT !.attachments = a, !.card = c, !.reply_to = r, !.text = t] :
            a \in {Absent, "file"}, c \in {Absent, "card"}, r \in {Absent, "m0"},
            t \in {Absent, "said"}}
Senders ==
  {[Plain EXCEPT !.source_provider = s, !.provider = p, !.channel_id = c,
                 !.conversation_id = k, !.env = e[1], !.tenant = e[2]] :
     s \in {Absent, Wrong, "slack", "email"}, p \in {Absent, "telegram"},
     c \in {Absent, Wrong, "general"}, k \in {Absent, "c1"},
     e \in {<<Absent, Absent>>, <<"prod", "acme">>, <<Wrong, "acme">>}}
  \union {[Plain EXCEPT !.team = "red", !.user_id = u, !.from_id = i, !.event_type = t,
                        !.target_flow = f] :
            u \in {Absent, Wrong, "u1"}, i \in {Absent, "u2"}, t \in {Absent, "typed"},
            f \in {Absent, "main"}}

Target(flow, node) == [flow |-> flow, node |-> node]
Jumping(target, given, max) ==
  [target |-> target, params |-> given, hints |-> "route" :> "fast",
   routing_hints |-> << >>, current_hints |-> << "route" :> "slow" >>, max_redirects |-> max]
Jumps ==
  {Jumping(Target("next", Absent), << >>, -1),
   Jumping(Target("next", "node"), "provider" :> "webex" @@ "channel_id" :> "lobby", -1),
   Jumping(Target("other", Absent), "conversation_id" :> "c9" @@ "plan" :> "basic", 2),
   Jumping(Target("blank", Absent), << >>, -1), Jumping(Target("improper", Absent), << >>, -1),
   Jumping(Target("next", Wrong), << >>, -1), Jumping(Target("next", "blank"), << >>, -1),
   Jumping(Target("next", "improper"), << >>, -1)}

Config(m, e, jumps, replies, conversions) ==
  [msg2events |-> [default_flow |-> m[1], default_event_type |-> m[2]],
   events2msg |-> [default_provider |-> e[1], default_channel |-> e[2]],
   jumps |-> jumps, replies |-> replies, conversions |-> conversions]
Unset    == <<Absent, Absent>>
Echo     == {[template |-> Absent, event |-> TRUE]}
Replies  == [template : {Absent, "template"}, event : BOOLEAN]
Echoes   == Config(Unset, Unset, {}, Echo, {})
Flows    == {Config(Unset, Unset, Jumps, Replies, {}),
             Config(<<"start", "text">>, <<"webchat", "lobby">>, Jumps, Replies, {})}
Broken   == {Config(<<Wrong, Absent>>, Unset, {}, Echo, {}),
             Config(Unset, <<Absent, Wrong>>, {}, Echo, {})}
Converting == Config(Unset, Unset, {}, Echo, Conversions)

(* Texts.                                                                  *)
Pieces   == {"gap", "word", "damn", "punct", "mail", "number", "key"}
AllPieces == Pieces \union {"dot", "paren", "akia", "Damn", "heck", "short", "about", "banned", "attack"}
Texts == {t \in UNION ({[1..n -> AllPieces] : n \in 0..3} \union {[1..4 -> Pieces]}) :
            \A i, j \in DOMAIN t :
              i < j /\ t[i] = "mail" /\ t[j] = "mail" => \E k \in i..j : t[k] \notin G!Local}
\* Longer ones, where a mask uncovers what another one, or itself, passed over.
LongTexts == {<<"punct", "damn", "gap", "word", "damn">>,
              <<"punct", "damn", "gap", "damn", "punct", "damn">>,
              <<"key", "punct", "key", "gap", "key", "word", "key", "punct", "key">>,
              <<"damn", "gap", "key", "damn", "gap", "word", "key">>,
              <<"akia", "dot", "gap", "akia", "punct">>,
              <<"akia", "Damn", "gap", "Damn", "gap", "damn", "dot", "gap", "word", "akia">>,
              <<"key", "dot", "gap", "word", "key", "gap", "key", "dot", "word">>,
              <<"word", "dot", "number", "dot", "gap", "short", "dot", "short", "key">>,
              <<"paren", "short", "paren", "gap", "short", "dot", "word", "paren", "number">>,
              <<"paren", "key", "paren", "number", "gap", "akia", "paren", "gap", "short", "short">>,
              <<"short", "gap", "short", "damn", "gap", "damn", "gap", "number">>,
              <<"word", "gap", "number", "gap", "gap", "short", "punct", "short", "gap", "short">>}
Chains == {<<"injection", "topic", "profanity", "secrets", "pii">>,
           <<"profanity", "pii", "topic">>, <<"secrets", "injection", "pii">>,
           <<"pii", "profanity", "secrets">>}
Policies == {G!Policy({}, {}, {}), G!Policy({"heck"}, {"banned"}, {"about"})}

Start(m, b, guards, p, c, doc) ==
  [message |-> m, body |-> b, chain |-> guards, policy |-> p, config |-> c,
   document |-> doc]
NoPolicy == G!Policy({}, {}, {})
MCStarts ==
  {Start(Plain, t, c, p, Echoes, Empty) : 
     t \in Texts \union LongTexts, c \in Chains, p \in Policies}
  \union {Start(m, <<"word">>, << >>, NoPolicy, c, Empty) : m \in Forms \union Senders, c \in Flows}
  \union {Start(Plain, <<"word">>, << >>, NoPolicy, c, Empty) : c \in Broken}
  \union {Start(Bare, << >>, << >>, NoPolicy, Converting, d) : d \in Documents}
=============================================================================
