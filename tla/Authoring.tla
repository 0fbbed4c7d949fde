------------------------------ MODULE Authoring -----------------------------
(***************************************************************************)
(* One sitting at the designer or at the operator's setup wizard.          *)
(*                                                                         *)
(* In the designer an author builds one node: an HTTP call, or a trigger   *)
(* for a schedule, a webhook or a mailbox.  The extension's tools write    *)
(* into the draft, in any order; the author may change a field by hand;    *)
(* the validator says whether the draft may be published, and what is      *)
(* published runs: the call is made with whatever the secret store holds   *)
(* then, the mailbox is polled.  At the wizard an operator answers the     *)
(* setup questions of a component, more than once, and it is invoked.      *)
(*                                                                         *)
(* Which of these it is, `kind` says from the start.                       *)
(***************************************************************************)
EXTENDS HttpNode, TimedTriggers

CONSTANTS
  Kinds,            \* the sittings looked at
  Intents,          \* what an HTTP node is asked for: [intent, context]
  Curls,            \* curl commands an HTTP node is made from
  Apis,             \* the names suggest_auth is asked about
  HttpEdits,        \* what is written by hand: <<field, value>>
  HttpInputs,       \* inputs of component-http
  Responses,        \* what a service answers
  Phrases,          \* phrases a schedule is asked for with
  Crons,            \* expressions written by hand
  Providers,        \* senders of webhooks
  WebhookCurls,     \* curl commands a webhook is made from
  PathWords,        \* the words of intents a path is made from
  WebhookEdits,     \* what is written by hand: <<field, value>>
  MailTriggers,     \* configurations of an email trigger
  Answers(_, _),    \* Answers(node, turn): what the operator may answer
  MaxSteps,         \* bound: how often the draft is changed
  MaxEdits,         \* bound: how many of the changes are made by hand
  MaxSetups,        \* bound: how often the setup is gone through
  MaxBody, MaxTtl, MaxId

Hook  == INSTANCE WebhookTrigger
Setup == INSTANCE NodeSetup

ASSUME KindsAssumption == Kinds \subseteq {"http", "schedule", "webhook", "email", "setup"}
ASSUME BoundsAssumption == MaxSteps \in Nat /\ MaxEdits \in Nat /\ MaxSetups \in Nat
ASSUME IntentsAssumption == \A i \in Intents : i.context.secret_names \in Seq(Secrets)
ASSUME CurlsAssumption == \A c \in Curls : c.authorization \in Seq(STRING)
ASSUME ProvidersAssumption == Providers \subseteq {"meta", "github", "slack", "stripe", "other"}
ASSUME PhrasesAssumption ==
  \A p \in Phrases : p.days = "named" => p.named # {} /\ p.named \subseteq Week

\* A node that keeps the answers as they come is given a document of them.
ASSUME AnswersAssumption ==
  \A turn \in 0..MaxSetups - 1 :
    /\ \A n \in DOMAIN Setup!Nodes :
         Setup!Nodes[n].setup.takes = "first" => Setup!NoConfig \notin Answers(n, turn)
    /\ \A a \in Answers("http", turn) : a.timeout_ms \in Int

VARIABLES
  kind,             \* what is being made: a node of this kind, or a setup
  node,             \* the component that is set up
  draft,            \* the configuration, or node, as it stands
  wish,             \* the last phrase that was asked for, with what came of it
  steps, edits,     \* how often the draft was changed, and by hand
  reading,          \* how describe_schedule read the draft
  verdict,          \* what the validator said of the draft
  told,             \* the answers the setup accepted, in their order
  store,            \* the secret store: the value of every secret in it
  run,              \* how far an invocation has come
  request,          \* the request it made
  reply,            \* what the flow is told
  mail,             \* the message in the mailbox
  fired             \* how often the flow has dealt with it

vars == <<kind, node, draft, wish, steps, edits, reading, verdict, told, store,
          run, request, reply, mail, fired>>

Nothing    == [asked |-> FALSE]
NoSchedule == [expr |-> {}, timezone |-> "none", trigger_id |-> "absent",
               enabled |-> "absent", cron |-> FALSE]

Init ==
  /\ kind \in Kinds
  /\ node \in IF kind = "setup" THEN DOMAIN Setup!Nodes \union {"http"} ELSE {"none"}
  /\ draft \in CASE kind = "http"     -> {NoNode}
                 [] kind = "schedule" -> {NoSchedule}
                 [] kind = "webhook"  -> {Hook!NoTrigger}
                 [] kind = "email"    -> MailTriggers
                 [] kind = "setup"    -> {IF node = "http" THEN Default ELSE Setup!NoConfig}
  /\ wish = Nothing /\ reading = {} /\ told = <<>>
  /\ steps = 0 /\ edits = 0
  /\ verdict = "none"
  /\ store = <<>>
  /\ run = "idle" /\ request = NoRequest("none") /\ reply = Failed
  /\ mail = "unread" /\ fired = 0

----------------------------------------------------------------------------
(* Making the draft.  Every change takes the validator's word back.        *)

Draft(d) ==
  /\ steps < MaxSteps /\ run = "idle"
  /\ steps' = steps + 1
  /\ draft' = d
  /\ verdict' = "none" /\ reading' = {}
  /\ UNCHANGED <<kind, node, told, store, run, request, reply, mail, fired>>

ByTool(d) == Draft(d) /\ UNCHANGED <<wish, edits>>
ByHand(d) == Draft(d) /\ edits < MaxEdits /\ edits' = edits + 1 /\ UNCHANGED wish

GenerateHttp ==
  kind = "http" /\ \E i \in Intents : ByTool(generate_http_node(i.intent, i.context))

ImportCurl == kind = "http" /\ \E c \in Curls : ByTool(curl_to_node(c))

FromCard ==
  kind = "http" /\ \E i \in Intents : ByTool(generate_from_card_submit(i.intent))

SuggestAuth ==
  kind = "http" /\ draft # NoNode /\ \E a \in Apis : ByTool(WithAuth(draft, a))

EditHttp ==
  /\ kind = "http"
  /\ \E e \in HttpEdits : ByHand([draft EXCEPT !.config = [@ EXCEPT ![e[1]] = e[2]]])

(* A phrase that is not understood, or is refused, leaves the draft alone. *)
SuggestCron ==
  /\ kind = "schedule"
  /\ \E p \in Phrases :
       LET s == suggest_cron(p)
       IN /\ Draft(IF s.suggestions = {} THEN draft
                   ELSE [draft EXCEPT !.expr = {x.expr : x \in s.suggestions},
                                      !.timezone = s.zone])
          /\ wish' = IF s.suggestions = {} THEN wish
                     ELSE [asked |-> TRUE, phrase |-> p,
                           rationale |-> {x.rationale : x \in s.suggestions}]
  /\ UNCHANGED edits

EditSchedule ==
  kind = "schedule" /\ \E c \in Crons : ByHand([draft EXCEPT !.expr = c])

SuggestVerification ==
  kind = "webhook"
  /\ \E p \in Providers : \E d \in Hook!suggest_verification(p, draft) : ByTool(d)

InferAuth ==
  kind = "webhook"
  /\ \E c \in WebhookCurls : \E d \in Hook!infer_auth_from_curl(c, draft) : ByTool(d)

SuggestPath ==
  kind = "webhook"
  /\ \E w \in PathWords : \E d \in Hook!suggest_path(w, draft) : ByTool(d)

EditWebhook ==
  kind = "webhook" /\ \E e \in WebhookEdits : ByHand([draft EXCEPT ![e[1]] = e[2]])

----------------------------------------------------------------------------
(* Reading it back, and asking the validator.                              *)

Describe ==
  /\ kind = "schedule" /\ draft.expr # {} /\ reading = {}
  /\ reading' = UNION {describe_schedule(c, draft.timezone) : c \in draft.expr}
  /\ UNCHANGED <<kind, node, draft, wish, steps, edits, verdict, told, store, run,
                 request, reply, mail, fired>>

Valid ==
  CASE kind = "http"     -> validate_content("http-node", draft.config)
    [] kind = "schedule" -> validate_cron(draft)
    [] kind = "webhook"  -> Hook!validate_webhook_config(draft)
    [] kind = "email"    -> validate_email_trigger(draft)

Validate ==
  /\ kind # "setup" /\ verdict = "none"
  /\ verdict' = IF Valid THEN "accepted" ELSE "rejected"
  /\ UNCHANGED <<kind, node, draft, wish, steps, edits, reading, told, store, run,
                 request, reply, mail, fired>>

----------------------------------------------------------------------------
(* The wizard.  Answers may be undecodable, and come in any mode; what the *)
(* host is handed no configuration for, it keeps.                          *)

Modes == {"default", "setup", "update", "remove"}

SetUp(mode, answers, decodes) ==
  LET done == IF node = "http"
              THEN IF decodes THEN apply_answers(draft, answers) ELSE [ok |-> FALSE]
              ELSE Setup!apply_answers(Setup!Nodes[node].setup, mode, draft, answers, decodes)
  IN /\ steps' = steps + 1
     /\ draft' = IF done.ok THEN done.config ELSE draft
     /\ told' = IF done.ok THEN Append(told, [mode |-> mode, answers |-> answers])
                ELSE told
     /\ UNCHANGED <<kind, node, wish, edits, reading, verdict, store, run, request,
                    reply, mail, fired>>

Answering ==
  /\ kind = "setup" /\ run = "idle" /\ steps < MaxSetups
  /\ \E mode \in Modes, answers \in Answers(node, steps), decodes \in BOOLEAN :
        SetUp(mode, answers, decodes)

(* An invocation of a component other than component-http: its settings    *)
(* are what load_config makes of the configuration.                        *)
Ops == {"unknown"} \union
       IF node \in DOMAIN Setup!Nodes THEN Setup!Nodes[node].ops ELSE {}

InvokeNode(op, decodes) ==
  /\ kind = "setup" /\ node # "http" /\ run = "idle"
  /\ LET what == Setup!Invoked(Setup!Nodes[node].ops, op, decodes)
     IN /\ run' = IF what = "handled" /\ Setup!Loads(draft) THEN "running" ELSE "done"
        /\ reply' = [Failed EXCEPT !.ok = what = "handled" /\ Setup!Loads(draft)]
  /\ UNCHANGED <<kind, node, draft, wish, steps, edits, reading, verdict, told, store,
                 request, mail, fired>>

----------------------------------------------------------------------------
(* Running an HTTP node.                                                   *)

Provision ==
  /\ kind = "http" /\ verdict = "accepted" /\ run = "idle" /\ IsRef(draft.config.auth_token)
  /\ \E v \in {1, 2} : store' = [s \in {draft.config.auth_token} |-> v]
  /\ store' # store
  /\ UNCHANGED <<kind, node, draft, wish, steps, edits, reading, verdict, told, run,
                 request, reply, mail, fired>>

Withdraw ==
  /\ store # <<>> /\ run = "idle"
  /\ store' = <<>>
  /\ UNCHANGED <<kind, node, draft, wish, steps, edits, reading, verdict, told, run,
                 request, reply, mail, fired>>

Config == IF kind = "http" THEN draft.config ELSE draft

InvokeHttp(op, input) ==
  /\ run = "idle"
  /\ \/ kind = "http" /\ verdict = "accepted"
     \/ kind = "setup" /\ node = "http"
  /\ request' = Request(Config, input, store)
  /\ run' = IF request'.ok THEN op ELSE "done"
  /\ reply' = Failed
  /\ UNCHANGED <<kind, node, draft, wish, steps, edits, reading, verdict, told, store,
                 mail, fired>>

Respond ==
  /\ run \in {"request", "stream"} /\ kind # "email"
  /\ \E r \in Responses : reply' = Reply(run, r)
  /\ run' = "done"
  /\ UNCHANGED <<kind, node, draft, wish, steps, edits, reading, verdict, told, store,
                 request, mail, fired>>

(* No answer within the configured time.                                   *)
TimeOut ==
  /\ run \in {"request", "stream"}
  /\ reply' = Failed
  /\ run' = "done"
  /\ UNCHANGED <<kind, node, draft, wish, steps, edits, reading, verdict, told, store,
                 request, mail, fired>>

----------------------------------------------------------------------------
(* A mailbox.  A poll lists the message, and the flow deals with it or     *)
(* fails; a person may read it first.                                      *)

Poll ==
  /\ kind = "email" /\ verdict = "accepted" /\ fired < 2
  /\ Listed(draft, mail)
  /\ \/ mail' = After(draft, mail) /\ fired' = fired + 1
     \/ UNCHANGED <<mail, fired>>
  /\ UNCHANGED <<kind, node, draft, wish, steps, edits, reading, verdict, told, store,
                 run, request, reply>>

ReadByPerson ==
  /\ kind = "email" /\ mail = "unread" /\ mail' = "read"
  /\ UNCHANGED <<kind, node, draft, wish, steps, edits, reading, verdict, told, store,
                 run, request, reply, fired>>

Designing ==
  \/ GenerateHttp \/ ImportCurl \/ FromCard \/ SuggestAuth \/ EditHttp
  \/ SuggestCron \/ EditSchedule
  \/ SuggestVerification \/ InferAuth \/ SuggestPath \/ EditWebhook
  \/ Describe \/ Validate

Running ==
  \/ Provision \/ Withdraw
  \/ \E op \in {"request", "stream"}, input \in HttpInputs : InvokeHttp(op, input)
  \/ Respond \/ TimeOut
  \/ Poll \/ ReadByPerson
  \/ \E decodes \in BOOLEAN, op \in Ops : InvokeNode(op, decodes)

Next == Designing \/ Answering \/ Running

Spec == Init /\ [][Next]_vars

----------------------------------------------------------------------------
(* Nodes built with an extension's tools alone, in whatever order the      *)
(* tools were called, pass its validator: tools.rs of each extension calls *)
(* them suggestions for the same contract.  It takes an address for an     *)
(* HTTP node, and a curl command with a method the contract of a trigger   *)
(* knows.  A schedule that was suggested is read back as it was announced, *)
(* or, when there is no phrase for it, as the bare expression.             *)
Complete ==
  CASE kind = "http"     -> draft # NoNode /\ draft.config.base_url \in Schemed
    [] kind = "schedule" -> draft.expr # {}
    [] kind = "webhook"  -> /\ draft.verify # {}
                            /\ UNION draft.methods \subseteq Hook!AllowedMethods
    [] OTHER             -> FALSE

SuggestionsAddUp ==
  edits = 0 /\ Complete =>
    /\ verdict # "rejected"
    /\ reading # {} => reading = wish.rationale \/ reading = {Neutral}

(* A node that the validator accepted with a way to authenticate makes no  *)
(* call without it: the request carries the credential the store holds at  *)
(* that moment, in the form asked for, or there is no request.  validate.rs *)
(* and request.rs read the same fields, each with defaults of its own.     *)
Credential(config) ==
  [form |-> config.auth_type,
   value |-> IF IsRef(config.auth_token) THEN store[config.auth_token] ELSE Literal]

AcceptedNodeAuthenticates ==
  [][kind = "http" /\ request' # request /\ request'.ok
       /\ draft.config.auth_type \notin {Absent, "none"} =>
       \E c \in request'.credentials :
          [form |-> c.form, value |-> c.value] = Credential(draft.config)]_vars

(* What the operator answered is what the component runs with.  A builder  *)
(* goes by the last setup alone: what was not answered then is back to its *)
(* default.  component-http goes by the last answer to each question.      *)
(* pack2flow and sorx-business keep the first answers they are given, and  *)
(* the tool nodes whatever there was.  Only answers of the right type      *)
(* count, a blank text may count as none, and what the setup has written   *)
(* load_config reads.                                                      *)
SaysOf(answers, f) == answers[f] \notin {Setup!Unset, "wrong", "blank"}

InForce(f) ==
  LET setups == {i \in DOMAIN told : told[i].mode = "setup"}
      last   == told[Max(setups)].answers
  IN IF setups = {} THEN FALSE
     ELSE IF SaysOf(last, f) THEN draft[f] = last[f]
     ELSE draft[f] \in {Setup!Unset} \union {a \in {"blank"} : last[f] = "blank"}

InForceHttp(f) ==
  LET given == {i \in DOMAIN told : f \in Answered(told[i].answers)}
  IN IF given = {} THEN draft[f] = Default[f]
     ELSE draft[f] = told[Max(given)].answers[f]

AnswersAreInForce ==
  kind = "setup" =>
    IF node = "http" THEN Loads(draft) /\ \A f \in DOMAIN draft : InForceHttp(f)
    ELSE LET takes == Setup!Nodes[node].setup.takes
         IN /\ takes = "keeps" => draft = Setup!NoConfig
            /\ takes = "first" /\ told # <<>> => draft = told[1].answers
            /\ takes = "builds" => Setup!Loads(draft) /\ \A f \in DOMAIN draft : InForce(f)

(* A message is dealt with once: an accepted trigger that lists unread     *)
(* mail takes a message it has dealt with out of what it lists.            *)
MailIsDealtWithOnce == kind = "email" /\ Unseen(draft) => fired <= 1

(* A schedule suggested for certain days of the week fires on those days.  *)
(* suggest_cron.rs:127 announces "Monday to Friday", and names the day     *)
(* otherwise; describe_schedule.rs:153 numbers the days like a crontab.    *)
SuggestedDaysAreTheDaysNamed ==
  kind = "schedule" /\ edits = 0 /\ wish.asked /\ verdict = "accepted" =>
    \A c \in draft.expr : c.dow # Star => FiresOn(c) = DaysMeant(wish.phrase)
=============================================================================
