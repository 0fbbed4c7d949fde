------------------------------ MODULE HttpNode ------------------------------
(***************************************************************************)
(* component-http, its designer extension, and the configuration the two   *)
(* share (http-core): what a node may be configured with, what the setup   *)
(* wizard writes, the request that one invocation builds and sends, the    *)
(* four tools that write a node from a phrase, a curl command, a card or   *)
(* the name of an API, and the validator a node passes before it is        *)
(* published.                                                              *)
(*                                                                         *)
(* A configuration is a record with every field of ComponentConfig; a      *)
(* field that is not written is Absent, one of the wrong JSON type Wrong.  *)
(* A text is what the code can tell of it: an address by its scheme, a     *)
(* token by whether it names a secret.                                     *)
(***************************************************************************)
EXTENDS Integers, Sequences, FiniteSets, SequencesExt

CONSTANTS
  Secrets,          \* the names of the secrets a token may refer to
  MaxTimeout,       \* MAX_TIMEOUT_MS, scaled
  MaxU32            \* the largest u32, scaled

ASSUME TimeoutAssumption == MaxTimeout \in Nat /\ MaxU32 \in Nat /\ MaxTimeout < MaxU32

Absent == "absent"
Wrong  == "wrong"
NoTime == -1              \* a timeout that is not written
BadTime == -2             \* one that is not a whole number

AuthTypes == {"none", "bearer", "api_key", "basic"}
Schemed   == {"http", "https"}          \* addresses with a scheme the client takes

(* A token: the name of a secret (`secret:NAME`) or a text of its own.     *)
Literal == "literal"
IsRef(token) == token \in Secrets
ASSUME SecretsAssumption == Secrets \intersect {Absent, Wrong, Literal} = {}

Default == [base_url |-> Absent, auth_type |-> Absent, auth_token |-> Absent,
            api_key_header |-> Absent, timeout_ms |-> NoTime,
            default_headers |-> Absent]

----------------------------------------------------------------------------
(* The setup wizard (http_core::config::apply_answers): the answers are    *)
(* laid over the configuration there was; one that is refused refuses all. *)

validate_url(url) == url \in Schemed

Refused(answers) ==
  \/ answers.base_url \notin {Absent, Wrong} /\ ~ validate_url(answers.base_url)
  \/ answers.auth_type \notin {Absent, Wrong} /\ answers.auth_type \notin AuthTypes
  \/ answers.timeout_ms >= 0 /\ answers.timeout_ms \notin 1..MaxTimeout
  \/ answers.default_headers = Wrong

(* The fields an answer says something about: one of another type is       *)
(* passed over, as if it had not been given.                               *)
Answered(answers) ==
  {f \in DOMAIN Default : answers[f] \notin (IF f = "timeout_ms" THEN {NoTime, BadTime}
                                             ELSE {Absent, Wrong})}

\* Mutant: the answers are laid over the defaults.
AnswersAfresh(current, answers) ==
  IF Refused(answers) THEN [ok |-> FALSE, config |-> current]
  ELSE [ok |-> TRUE,
        config |-> [f \in DOMAIN Default |->
                      IF f \in Answered(answers) THEN answers[f] ELSE Default[f]]]

apply_answers(current, answers) ==
  IF Refused(answers) THEN [ok |-> FALSE, config |-> current]
  ELSE [ok |-> TRUE,
        config |-> [f \in DOMAIN Default |->
                      IF f \in Answered(answers) THEN answers[f] ELSE current[f]]]

(* The questions of the wizard; headers are asked for as a text, which     *)
(* apply_answers can only refuse.                                          *)
Questions == {"base_url", "auth_type", "auth_token", "timeout_ms", "default_headers"}

----------------------------------------------------------------------------
(* An invocation.  An input carries its configuration under `config`; the  *)
(* defaults of serde stand for what is not written.                        *)

Loads(config) ==
  /\ \A f \in {"base_url", "auth_type", "auth_token", "api_key_header"} :
        config[f] # Wrong
  /\ config.timeout_ms # BadTime /\ config.timeout_ms <= MaxU32

Loaded(config) ==
  [config EXCEPT
     !.auth_type      = IF @ = Absent THEN "none" ELSE @,
     !.api_key_header = IF @ = Absent THEN "X-API-Key" ELSE @,
     !.timeout_ms     = IF @ = NoTime THEN MaxTimeout \div 2 ELSE @]

(* resolve_secret: a literal is used as it is written, a reference must be *)
(* in the store.                                                           *)
resolve_secret(token, store) ==
  IF ~ IsRef(token) THEN [ok |-> TRUE, value |-> Literal]
  ELSE IF token \in DOMAIN store THEN [ok |-> TRUE, value |-> store[token]]
  ELSE [ok |-> FALSE, value |-> Absent]

(* The header that carries the credential; an auth_type that is none, or   *)
(* that is not known, carries nothing.                                     *)
build_auth_header(auth_type, value, api_key_header) ==
  CASE auth_type \in {"bearer", "basic"} ->
         {[name |-> "Authorization", form |-> auth_type, value |-> value]}
    [] auth_type = "api_key" ->
         {[name |-> api_key_header, form |-> "api_key", value |-> value]}
    [] OTHER -> {}

(* Where the request goes: an address of its own, or one below base_url.   *)
Target(config, input) ==
  LET written == IF input.url # Absent THEN input.url ELSE input.endpoint
  IN IF written \in Schemed \/ config.base_url = Absent THEN written
     ELSE config.base_url

NoRequest(why) == [ok |-> FALSE, why |-> why, credentials |-> {}, to |-> Absent,
                   method |-> Absent, typed |-> FALSE, timeout_ms |-> 0]

build_http_request(config, input, store) ==
  LET target   == Target(config, input)
      resolved == resolve_secret(config.auth_token, store)
  IN IF input.url = Absent /\ input.endpoint = Absent THEN NoRequest("missing url")
     ELSE IF ~ validate_url(target) THEN NoRequest("invalid url")
     ELSE IF config.auth_token # Absent /\ ~ resolved.ok THEN NoRequest("no secret")
     ELSE   [ok |-> TRUE, why |-> "", to |-> target,
             credentials |-> IF config.auth_token = Absent THEN {}
                             ELSE build_auth_header(config.auth_type, resolved.value,
                                                    config.api_key_header),
             method |-> IF input.method = Absent THEN "POST" ELSE input.method,
             typed |-> input.body,          \* Content-Type is there when a body is
             timeout_ms |-> config.timeout_ms]

(* handle_request and handle_stream up to the call.                        *)
Request(config, input, store) ==
  IF Loads(config) THEN build_http_request(Loaded(config), input, store)
  ELSE NoRequest("invalid config")

----------------------------------------------------------------------------
(* The answer.  A body of a stream is a sequence of lines: blank, the kinds *)
(* of an event stream's fields, a line of JSON (a text or another value),  *)
(* or anything else.                                                       *)

(* An event is the record of the lines it is made of; a blank line ends it *)
(* when it has begun, and the end of the body does too.                    *)
parse_sse_events(lines) ==
  LET Fields  == {"data", "event", "id"}
      add(acc, line) ==
        IF line = "blank"
        THEN IF acc.open = <<>> THEN acc
             ELSE [events |-> Append(acc.events, acc.open), open |-> <<>>]
        ELSE IF line \in Fields THEN [acc EXCEPT !.open = Append(@, line)]
        ELSE acc
      end == FoldLeft(add, [events |-> <<>>, open |-> <<>>], lines)
  IN IF end.open = <<>> THEN end.events ELSE Append(end.events, end.open)

parse_ndjson(lines) == SelectSeq(lines, LAMBDA line : line \in {"json text", "json value"})

(* The events a stream is answered with, and how many of them contribute   *)
(* to `content`: those whose data is a text.                               *)
Events(is_sse, lines) ==
  IF is_sse THEN LET events == parse_sse_events(lines)
                 IN [count |-> Len(events),
                     content |-> Len(SelectSeq(events, LAMBDA e : "data" \in {e[i] : i \in DOMAIN e}))]
  ELSE LET events == parse_ndjson(lines)
       IN [count |-> Len(events),
           content |-> Len(SelectSeq(events, LAMBDA e : e = "json text"))]

(* Any answer of the service is an ok reply, whatever its status.          *)
Reply(op, response) ==
  IF op = "stream"
  THEN [ok |-> TRUE, status |-> response.status,
        events |-> Events(response.sse, response.lines)]
  ELSE [ok |-> TRUE, status |-> response.status, events |-> [count |-> 0, content |-> 0]]

Failed == [ok |-> FALSE, status |-> 0, events |-> [count |-> 0, content |-> 0]]

----------------------------------------------------------------------------
(* The designer's extension.                                               *)

Node(config, method, path, body) ==
  [config |-> config, method |-> method, path |-> path, body |-> body]
NoNode == [config |-> Default, method |-> Absent, path |-> Absent, body |-> FALSE]

----------------------------------------------------------------------------
(* validate_http_config: the errors and the warnings of a node.            *)

Errors(config) ==
  {code \in {"url:missing", "url:invalid-scheme", "auth:unsupported-type",
             "auth:missing-token", "timeout:zero"} :
     LET type == IF config.auth_type \in {Absent, Wrong} THEN "none" ELSE config.auth_type
     IN CASE code = "url:missing"           -> config.base_url \in {Absent, Wrong}
          [] code = "url:invalid-scheme"    -> /\ config.base_url \notin {Absent, Wrong}
                                               /\ ~ validate_url(config.base_url)
          [] code = "auth:unsupported-type" -> type \notin AuthTypes
          [] code = "auth:missing-token"    -> /\ type \in AuthTypes \ {"none"}
                                               /\ config.auth_token \in {Absent, Wrong}
          [] code = "timeout:zero"          -> config.timeout_ms = 0}

Warnings(config) ==
  {code \in {"auth:bare-token", "timeout:too-long"} :
     CASE code = "auth:bare-token"  -> /\ config.auth_type \in AuthTypes \ {"none"}
                                       /\ config.auth_token = Literal
       [] code = "timeout:too-long" -> config.timeout_ms > MaxTimeout}

\* Mutant: a type of authentication without a token is let through.
NoTokenNeeded(config) == Errors(config) \ {"auth:missing-token"} = {}

validate_http_config(config) == Errors(config) = {}

(* What the designer calls: only for the content type of this extension,   *)
(* and only if the content is JSON at all.                                 *)
validate_content(content_type, config) ==
  content_type = "http-node" /\ validate_http_config(config)

----------------------------------------------------------------------------
(* generate_http_node.  An intent is what the code recognises in it: the   *)
(* words for a way to authenticate, the methods named, an address, a path. *)

Methods == <<"POST", "PUT", "PATCH", "DELETE", "GET">>

(* The first of the methods, in this order, whose name occurs anywhere.    *)
detect_method(intent) ==
  LET named == SelectSeq(Methods, LAMBDA m : m \in intent.methods)
  IN IF named = <<>> THEN "GET" ELSE Head(named)

detect_auth_type(intent) ==
  IF "bearer" \in intent.words THEN "bearer"
  ELSE IF "api key" \in intent.words THEN "api_key"
  ELSE IF "basic auth" \in intent.words THEN "basic"
  ELSE "none"

(* The first of the secrets the designer knows that has HTTP, TOKEN or API *)
(* in its name, else the first of them.                                    *)
Fitting == {"HTTP_TOKEN", "HTTP_BASIC", "API_TOKEN"}
pick_token(auth_type, known) ==
  LET fitting == SelectInSeq(known, LAMBDA s : s \in Fitting)
  IN IF auth_type = "none" THEN Absent
     ELSE IF fitting # 0 THEN known[fitting]
     ELSE IF known = <<>> THEN "HTTP_TOKEN"
     ELSE Head(known)

(* The hint before the address in the phrase.                              *)
BaseUrl(intent, context) ==
  IF context.base_url_hint # Absent THEN context.base_url_hint ELSE intent.url

generate_http_node(intent, context) ==
  LET auth_type == detect_auth_type(intent)
      method    == detect_method(intent)
  IN Node([Default EXCEPT !.base_url = BaseUrl(intent, context),
             !.auth_type = auth_type,
             !.auth_token = pick_token(auth_type, context.secret_names),
             !.default_headers = IF method \in {"POST", "PUT", "PATCH"} THEN "object"
                                 ELSE Absent],
          method, intent.path, FALSE)

----------------------------------------------------------------------------
(* curl_to_node.  A command is its method, its address, whether it has a   *)
(* body, and its headers: the forms of its Authorization headers in the    *)
(* order of a BTreeMap (the last one that is understood wins), and whether *)
(* there are others.                                                       *)

CurlMethod(curl) ==
  IF curl.method # Absent THEN curl.method
  ELSE IF curl.body THEN "POST" ELSE "GET"

Understood(curl) == SelectLastInSeq(curl.authorization, LAMBDA f : f \in {"bearer", "basic"})

curl_to_node(curl) ==
  LET form == IF Understood(curl) = 0 THEN "none" ELSE curl.authorization[Understood(curl)]
  IN Node([Default EXCEPT !.base_url = curl.url,
             !.auth_type = form,
             !.auth_token = CASE form = "bearer" -> "HTTP_TOKEN"
                              [] form = "basic"  -> "HTTP_BASIC"
                              [] OTHER           -> Absent,
             !.default_headers = IF curl.others THEN "object" ELSE Absent],
          CurlMethod(curl), curl.path, curl.body)

----------------------------------------------------------------------------
(* generate_from_card_submit: a card's inputs become the body, to an       *)
(* example address.  An input that is only for the flow is listed as not   *)
(* mapped, and is in the body all the same.                                *)

CardMethod(intent) ==
  LET named == SelectSeq(<<"POST", "PUT", "PATCH">>, LAMBDA m : m \in intent.methods)
  IN IF named = <<>> THEN "POST" ELSE Head(named)

generate_from_card_submit(intent) ==
  Node([Default EXCEPT !.base_url = "https", !.auth_type = "bearer",
          !.auth_token = "HTTP_TOKEN", !.default_headers = "object"],
       CardMethod(intent), IF intent.path = Absent THEN "/" ELSE intent.path, TRUE)

(* suggest_auth: what to authenticate a known API with; an unknown one is  *)
(* a question to the author, not a suggestion.                             *)
Known == {"github", "llm", "airtable", "chat"}
suggest_auth(api) ==
  IF api \in Known THEN [auth_type |-> "bearer", auth_token |-> "API_TOKEN",
                         default_headers |-> IF api = "github" THEN "object" ELSE Absent]
  ELSE [auth_type |-> "unknown", auth_token |-> Absent, default_headers |-> Absent]

(* The author puts what was suggested into the node.                       *)
WithAuth(node, api) ==
  LET s == suggest_auth(api)
  IN IF s.auth_type = "unknown" THEN node
     ELSE [node EXCEPT !.config.auth_type = s.auth_type,
             !.config.auth_token = s.auth_token,
             !.config.default_headers = IF s.default_headers = Absent THEN @
                                        ELSE s.default_headers]
=============================================================================
