-------------------------- MODULE AuthoringProofs --------------------------
(***************************************************************************)
(* Proofs about Authoring: for every intent, curl command, phrase, mail    *)
(* trigger and set of answers that keep its assumptions, and any number of *)
(* changes to a draft or of rounds through a setup.                        *)
(***************************************************************************)
EXTENDS Authoring, PositionLemmas, SequenceTheorems, TLAPS

-----------------------------------------------------------------------------
(* The inductive invariant, one part for each kind of sitting.             *)

(* A node the tools have written can authenticate in the way it names.     *)
Usable(config) ==
  /\ config.auth_type \in AuthTypes
  /\ config.auth_type # "none" => config.auth_token \notin {Absent, Wrong}
  /\ config.timeout_ms = NoTime

HttpInv(d, e) ==
  /\ DOMAIN d = DOMAIN NoNode /\ DOMAIN d.config = DOMAIN Default
  /\ e = 0 => d = NoNode \/ Usable(d.config)

(* What was suggested for a schedule, and what was announced with it.      *)
Announced(config, w) ==
  \E c \in config.expr, r \in w.rationale :
    /\ config.expr = {c} /\ w.rationale = {r}
    /\ Parses(c) /\ summarize(c) \in {r, Neutral}

ScheduleInv(d, e, w, said) ==
  /\ DOMAIN d = DOMAIN NoSchedule
  /\ d.timezone \in Zones \union {"none"} /\ d.cron = FALSE
  /\ d.trigger_id = "absent" /\ d.enabled = "absent"
  /\ e = 0 => d.expr = {} \/ Announced(d, w)
  /\ said # {} => said = UNION {describe_schedule(c, d.timezone) : c \in d.expr}

(* Each part of a webhook the tools have written passes its own check.     *)
Suggested(config) ==
  /\ config.old = FALSE /\ config.max_body_bytes = {}
  /\ \A id \in config.trigger_id : Hook!is_valid_trigger_id(id)
  /\ \A ms \in config.methods : "GET" \notin ms
  /\ \A v \in config.verify : Hook!VerifyErrors(v) = {}
  /\ \A c \in config.challenge : c.scheme = "meta_hub" /\ c.verify_token_ref = "reference"
  /\ \A i \in config.idempotency : i.key = "header" /\ i.ttl_s = {}

WebhookInv(d, e) ==
  /\ DOMAIN d = DOMAIN Hook!NoTrigger
  /\ e = 0 => Suggested(d)

(* A message that was dealt with is no longer among those listed.          *)
MailInv(d, v, m, n) ==
  /\ n \in Nat
  /\ n > 0 => v = "accepted"
  /\ Unseen(d) => n = 0 \/ (n = 1 /\ m # "unread")

(* The setups the host has kept the answers of.                            *)
Accepted(n) ==
  {[mode |-> m, answers |-> a] :
     m \in Modes, a \in UNION {Answers(n, i) : i \in 0..MaxSetups - 1}}

SetupInv(n, d, t) ==
  /\ t \in Seq(Accepted(n))
  /\ n = "http" => DOMAIN d = DOMAIN Default
  /\ n # "http" /\ Setup!Nodes[n].setup.takes = "first" =>
       /\ t = <<>> => d = Setup!NoConfig
       /\ t # <<>> => d # Setup!NoConfig

AInv ==
  /\ kind \in {"http", "schedule", "webhook", "email", "setup"}
  /\ steps \in Nat /\ edits \in Nat
  /\ kind = "setup" => node \in DOMAIN Setup!Nodes \union {"http"}
  /\ verdict \in {"none", "accepted", "rejected"}
  /\ verdict # "none" => kind # "setup" /\ (verdict = "accepted" <=> Valid)
  /\ kind = "http"     => HttpInv(draft, edits)
  /\ kind = "schedule" => ScheduleInv(draft, edits, wish, reading)
  /\ kind = "webhook"  => WebhookInv(draft, edits)
  /\ kind = "email"    => MailInv(draft, verdict, mail, fired)
  /\ kind = "setup"    => SetupInv(node, draft, told) /\ AnswersAreInForce
  /\ kind # "schedule" => reading = {}

-----------------------------------------------------------------------------
(* What the tools of the HTTP extension write.                             *)

LEMMA Shapes ==
  /\ DOMAIN Default = {"base_url", "auth_type", "auth_token", "api_key_header",
                       "timeout_ms", "default_headers"}
  /\ DOMAIN NoNode = {"config", "method", "path", "body"}
  /\ NoNode.config = Default
  /\ DOMAIN NoSchedule = {"expr", "timezone", "trigger_id", "enabled", "cron"}
  /\ DOMAIN Hook!NoTrigger = {"trigger_id", "methods", "verify", "challenge",
                              "idempotency", "max_body_bytes", "old"}
BY DEF Default, NoNode, NoSchedule, Hook!NoTrigger

(* A token is found whenever one is needed.                                *)
LEMMA TokenIsFound ==
  ASSUME NEW auth_type, auth_type # "none", NEW known \in Seq(Secrets)
  PROVE  pick_token(auth_type, known) \notin {Absent, Wrong}
<1> DEFINE I == {k \in 1 .. Len(known) : known[k] \in Fitting}
           fitting == IF I # {} THEN Min(I) ELSE 0
<1>1. pick_token(auth_type, known) = IF fitting # 0 THEN known[fitting]
                                     ELSE IF known = <<>> THEN "HTTP_TOKEN" ELSE Head(known)
  BY DEF pick_token, SelectInSeq
<1>2. \A s \in Secrets : s \notin {Absent, Wrong}  BY SecretsAssumption
<1>3. "HTTP_TOKEN" \notin {Absent, Wrong}  BY DEF Absent, Wrong
<1>4. fitting # 0 => known[fitting] \in Secrets
  <2>1. I \subseteq 1 .. Len(known) /\ I \subseteq Nat /\ Len(known) \in Nat  OBVIOUS
  <2> HIDE DEF I
  <2>2. I # {} => Min(I) \in 1 .. Len(known)  BY <2>1, MinIsLeast
  <2> QED  BY <2>2
<1>5. known # <<>> => Head(known) \in Secrets  OBVIOUS
<1> HIDE DEF fitting
<1> QED  BY <1>1, <1>2, <1>3, <1>4, <1>5

(* A node is a configuration with whatever is called with it.              *)
IsNode(n) == DOMAIN n = DOMAIN NoNode /\ DOMAIN n.config = DOMAIN Default

LEMMA GeneratedNode ==
  ASSUME NEW i \in Intents
  PROVE  LET n == generate_http_node(i.intent, i.context)
         IN  IsNode(n) /\ Usable(n.config)
<1> DEFINE a == detect_auth_type(i.intent)
           t == pick_token(a, i.context.secret_names)
           n == generate_http_node(i.intent, i.context)
<1>1. a \in AuthTypes  BY DEF detect_auth_type, AuthTypes
<1>2. a # "none" => t \notin {Absent, Wrong}  BY IntentsAssumption, TokenIsFound
<1>3. /\ n.config.auth_type = a /\ n.config.auth_token = t
      /\ n.config.timeout_ms = NoTime
      /\ DOMAIN n.config = DOMAIN Default /\ DOMAIN n = DOMAIN NoNode
  <2> HIDE DEF a, t
  <2> QED  BY Shapes DEF generate_http_node, Node, Default, a, t
<1> HIDE DEF n, a, t
<1> QED  BY <1>1, <1>2, <1>3 DEF IsNode, Usable, n

LEMMA ImportedNode ==
  ASSUME NEW curl \in Curls
  PROVE  IsNode(curl_to_node(curl)) /\ Usable(curl_to_node(curl).config)
<1> DEFINE form == IF Understood(curl) = 0 THEN "none"
                   ELSE curl.authorization[Understood(curl)]
           n == curl_to_node(curl)
<1>1. form \in {"none", "bearer", "basic"}
  <2> DEFINE I == {k \in 1 .. Len(curl.authorization) :
                     curl.authorization[k] \in {"bearer", "basic"}}
  <2>1. Understood(curl) = IF I # {} THEN Max(I) ELSE 0
    BY DEF Understood, SelectLastInSeq
  <2>2. I \subseteq 1 .. Len(curl.authorization) /\ Len(curl.authorization) \in Nat
    BY CurlsAssumption
  <2>3. I # {} => Max(I) \in I
    <3> HIDE DEF I
    <3> QED  BY <2>2, MaxIsGreatest
  <2> QED  BY <2>1, <2>3
<1>2. /\ n.config.auth_type = form /\ n.config.timeout_ms = NoTime
      /\ n.config.auth_token = (CASE form = "bearer" -> "HTTP_TOKEN"
                                  [] form = "basic"  -> "HTTP_BASIC"
                                  [] OTHER           -> Absent)
      /\ DOMAIN n.config = DOMAIN Default /\ DOMAIN n = DOMAIN NoNode
  <2> HIDE DEF form
  <2> QED  BY Shapes DEF curl_to_node, Node, Default, form
<1> HIDE DEF n, form
<1>3. form # "none" => n.config.auth_token \in {"HTTP_TOKEN", "HTTP_BASIC"}  BY <1>1, <1>2
<1> QED  BY <1>1, <1>2, <1>3 DEF IsNode, Usable, n, AuthTypes, Absent, Wrong

LEMMA CardNode ==
  ASSUME NEW intent
  PROVE  /\ IsNode(generate_from_card_submit(intent))
         /\ Usable(generate_from_card_submit(intent).config)
BY Shapes
   DEF IsNode, Usable, generate_from_card_submit, Node, Default, AuthTypes, Absent, Wrong

(* A suggestion for an API leaves a usable node usable.                    *)
LEMMA AuthNode ==
  ASSUME NEW n, IsNode(n), NEW api
  PROVE  /\ IsNode(WithAuth(n, api))
         /\ Usable(n.config) => Usable(WithAuth(n, api).config)
<1> DEFINE s == suggest_auth(api)
<1>1. s.auth_type = "unknown" \/ (s.auth_type = "bearer" /\ s.auth_token = "API_TOKEN")
  BY DEF suggest_auth
<1>2. CASE s.auth_type = "unknown"  BY <1>2 DEF WithAuth
<1>3. CASE s.auth_type = "bearer" /\ s.auth_token = "API_TOKEN"
  <2>1. s.auth_type # "unknown"  BY <1>3
  <2>2. /\ DOMAIN WithAuth(n, api) = DOMAIN n
        /\ DOMAIN WithAuth(n, api).config = DOMAIN n.config
        /\ WithAuth(n, api).config.auth_type = "bearer"
        /\ WithAuth(n, api).config.auth_token = "API_TOKEN"
        /\ WithAuth(n, api).config.timeout_ms = n.config.timeout_ms
    <3> HIDE DEF s
    <3> QED  BY <1>3, <2>1, Shapes DEF WithAuth, IsNode, s
  <2> QED  BY <2>2 DEF IsNode, Usable, AuthTypes, Absent, Wrong
<1> QED  BY <1>1, <1>2, <1>3

(* A usable node with an address passes the validator.                     *)
LEMMA UsableIsAccepted ==
  ASSUME NEW config, Usable(config), config.base_url \in Schemed
  PROVE  validate_content("http-node", config)
<1>1. config.base_url \notin {Absent, Wrong} /\ validate_url(config.base_url)
  BY DEF Schemed, Absent, Wrong, validate_url
<1>2. /\ config.auth_type \in AuthTypes /\ config.auth_type \notin {Absent, Wrong}
      /\ config.auth_type # "none" => config.auth_token \notin {Absent, Wrong}
      /\ config.timeout_ms # 0
  BY DEF Usable, AuthTypes, Absent, Wrong, NoTime
<1>3. ASSUME NEW code \in Errors(config) PROVE FALSE
  <2>1. CASE code = "url:missing"  BY <1>1, <1>3, <2>1 DEF Errors
  <2>2. CASE code = "url:invalid-scheme"  BY <1>1, <1>3, <2>2 DEF Errors
  <2>3. CASE code = "auth:unsupported-type"  BY <1>2, <1>3, <2>3 DEF Errors
  <2>4. CASE code = "auth:missing-token"  BY <1>2, <1>3, <2>4 DEF Errors
  <2>5. CASE code = "timeout:zero"  BY <1>2, <1>3, <2>5 DEF Errors
  <2> QED  BY <1>3, <2>1, <2>2, <2>3, <2>4, <2>5 DEF Errors
<1> QED  BY <1>3 DEF validate_content, validate_http_config

(* The credential an accepted node names goes with every request it makes. *)
LEMMA AcceptedAuthenticates ==
  ASSUME NEW config, DOMAIN config = DOMAIN Default,
         validate_content("http-node", config),
         config.auth_type \notin {Absent, "none"},
         NEW input, NEW held, Request(config, input, held).ok
  PROVE  \E c \in Request(config, input, held).credentials :
           /\ c.form = config.auth_type
           /\ c.value = IF IsRef(config.auth_token) THEN held[config.auth_token] ELSE Literal
<1> DEFINE loaded == Loaded(config)
           r == Request(config, input, held)
           resolved == resolve_secret(config.auth_token, held)
           header == IF config.api_key_header = Absent THEN "X-API-Key" ELSE config.api_key_header
<1>1. Loads(config) /\ r = build_http_request(loaded, input, held)
  <2>1. ~ NoRequest("invalid config").ok  BY DEF NoRequest
  <2> QED  BY <2>1 DEF Request
<1>2. config.auth_type \notin {Absent, Wrong, "none"}  BY <1>1 DEF Loads
<1>3. /\ config.auth_type \in AuthTypes \ {"none"}
      /\ config.auth_token \notin {Absent, Wrong}
  <2>1. Errors(config) = {}  BY DEF validate_content, validate_http_config
  <2>2. "auth:unsupported-type" \notin Errors(config)  BY <2>1
  <2>3. config.auth_type \in AuthTypes  BY <1>2, <2>2 DEF Errors
  <2>4. "auth:missing-token" \notin Errors(config)  BY <2>1
  <2> QED  BY <1>2, <2>3, <2>4 DEF Errors
<1>4. /\ loaded.auth_type = config.auth_type /\ loaded.auth_token = config.auth_token
      /\ loaded.api_key_header = header
  BY <1>2, Shapes DEF Loaded
<1>5. resolved.ok /\ r.credentials = build_auth_header(config.auth_type, resolved.value, header)
  <2>1. ~ NoRequest("missing url").ok /\ ~ NoRequest("invalid url").ok
        /\ ~ NoRequest("no secret").ok
    BY DEF NoRequest
  <2> DEFINE target == Target(loaded, input)
             found == resolve_secret(loaded.auth_token, held)
             A == input.url = Absent /\ input.endpoint = Absent
             B == validate_url(target)
             R == [ok |-> TRUE, why |-> "", to |-> target,
                   credentials |-> IF loaded.auth_token = Absent THEN {}
                                   ELSE build_auth_header(loaded.auth_type, found.value,
                                                          loaded.api_key_header),
                   method |-> IF input.method = Absent THEN "POST" ELSE input.method,
                   typed |-> input.body, timeout_ms |-> loaded.timeout_ms]
  <2>2. r = IF A THEN NoRequest("missing url") ELSE IF ~ B THEN NoRequest("invalid url")
            ELSE IF loaded.auth_token # Absent /\ ~ found.ok THEN NoRequest("no secret")
            ELSE R
    <3>1. build_http_request(loaded, input, held) =
            IF A THEN NoRequest("missing url") ELSE IF ~ B THEN NoRequest("invalid url")
            ELSE IF loaded.auth_token # Absent /\ ~ found.ok THEN NoRequest("no secret")
            ELSE R
      <4> HIDE DEF loaded
      <4> QED  BY DEF build_http_request
    <3> HIDE DEF R, A, B, found
    <3> QED  BY <1>1, <3>1, Zenon
  <2>3. r.ok  OBVIOUS
  <2>4. R.credentials = IF loaded.auth_token = Absent THEN {}
                        ELSE build_auth_header(loaded.auth_type, found.value,
                                               loaded.api_key_header)
    <3> HIDE DEF loaded, found
    <3> QED  OBVIOUS
  <2>5. found = resolved  BY <1>4
  <2> HIDE DEF R, A, B, found, loaded, resolved, header, r
  <2>6. r = R /\ found.ok  BY <1>3, <1>4, <2>1, <2>2, <2>3
  <2> QED  BY <1>3, <1>4, <2>4, <2>5, <2>6
<1>6. resolved.value = IF IsRef(config.auth_token) THEN held[config.auth_token] ELSE Literal
  BY <1>5 DEF resolve_secret
<1> HIDE DEF resolved, r, header
<1>7. CASE config.auth_type = "api_key"
  <2>1. r.credentials = {[name |-> header, form |-> "api_key", value |-> resolved.value]}
    BY <1>5, <1>7 DEF build_auth_header
  <2> DEFINE c == [name |-> header, form |-> "api_key", value |-> resolved.value]
  <2>2. c \in r.credentials /\ c.form = config.auth_type /\ c.value = resolved.value
    BY <1>7, <2>1
  <2> HIDE DEF c
  <2> QED  BY <1>6, <2>2 DEF r
<1>8. CASE config.auth_type \in {"bearer", "basic"}
  <2> DEFINE c == [name |-> "Authorization", form |-> config.auth_type,
                   value |-> resolved.value]
  <2>1. r.credentials = {c}  BY <1>5, <1>8 DEF build_auth_header
  <2>2. c \in r.credentials /\ c.form = config.auth_type /\ c.value = resolved.value
    BY <2>1
  <2> HIDE DEF c
  <2> QED  BY <1>6, <2>2 DEF r
<1> QED  BY <1>3, <1>7, <1>8 DEF AuthTypes

-----------------------------------------------------------------------------
(* What the tools of the webhook extension write.                          *)

(* A scheme the tools write comes with all that the validator asks of it.  *)
LEMMA VerifyPasses ==
  /\ Hook!VerifyErrors(Hook!Unverified) = {}
  /\ \A s \in {"hmac-sha1", "hmac-sha256"} :
       Hook!VerifyErrors(Hook!Verify(s, TRUE, "hex", "reference")) = {}
  /\ Hook!VerifyErrors(Hook!Verify("bearer", TRUE, "none", "reference")) = {}
<1> USE DEF Hook!VerifyErrors, Hook!Verify, Hook!Schemes, Hook!Hmac, Hook!is_valid_secret_ref
<1>1. Hook!VerifyErrors(Hook!Unverified) = {}  BY DEF Hook!Unverified
<1>2. ASSUME NEW s \in {"hmac-sha1", "hmac-sha256"}
      PROVE  Hook!VerifyErrors(Hook!Verify(s, TRUE, "hex", "reference")) = {}
  OBVIOUS
<1>3. Hook!VerifyErrors(Hook!Verify("bearer", TRUE, "none", "reference")) = {}
  OBVIOUS
<1> QED  BY <1>1, <1>2, <1>3

LEMMA InferredPasses ==
  ASSUME NEW headers
  PROVE  \A v \in Hook!Inferred(headers) : Hook!VerifyErrors(v) = {}
<1>1. \E s \in {"hmac-sha1", "hmac-sha256"} :
        \/ Hook!Inferred(headers) = {Hook!Verify(s, TRUE, "hex", "reference")}
        \/ Hook!Inferred(headers) = {Hook!Verify("bearer", TRUE, "none", "reference")}
        \/ Hook!Inferred(headers) = {Hook!Unverified}
  BY DEF Hook!Inferred
<1> QED  BY <1>1, VerifyPasses

LEMMA PresetPasses ==
  ASSUME NEW d, DOMAIN d = DOMAIN Hook!NoTrigger, NEW provider,
         NEW n \in Hook!suggest_verification(provider, d),
         provider \in {"meta", "github", "slack", "stripe", "other"}
  PROVE  DOMAIN n = DOMAIN Hook!NoTrigger /\ (Suggested(d) => Suggested(n))
<1>1. "GET" # "POST"  OBVIOUS
<1>2. CASE provider = "meta"
  <2> DEFINE v == Hook!Verify("hmac-sha256", TRUE, "hex", "reference")
             c == [scheme |-> "meta_hub", verify_token_ref |-> "reference"]
  <2>1. n = [d EXCEPT !.verify = {v}, !.challenge = {c}, !.methods = {{"POST"}}]
    BY <1>2 DEF Hook!suggest_verification
  <2>2. Hook!VerifyErrors(v) = {}  BY VerifyPasses
  <2>3. c.scheme = "meta_hub" /\ c.verify_token_ref = "reference"  OBVIOUS
  <2> HIDE DEF v, c
  <2>4. /\ DOMAIN n = DOMAIN d /\ n.verify = {v} /\ n.challenge = {c}
        /\ n.methods = {{"POST"}} /\ n.old = d.old /\ n.max_body_bytes = d.max_body_bytes
        /\ n.trigger_id = d.trigger_id /\ n.idempotency = d.idempotency
    BY <2>1, Shapes
  <2> QED  BY <1>1, <2>2, <2>3, <2>4 DEF Suggested
<1>3. CASE provider = "github"
  <2> DEFINE v == Hook!Verify("hmac-sha256", TRUE, "hex", "reference")
             i == [key |-> "header", ttl_s |-> {}]
  <2>1. n = [d EXCEPT !.verify = {v}, !.idempotency = {i}, !.methods = {{"POST"}}]
    BY <1>3 DEF Hook!suggest_verification
  <2>2. Hook!VerifyErrors(v) = {}  BY VerifyPasses
  <2>3. i.key = "header" /\ i.ttl_s = {}  OBVIOUS
  <2> HIDE DEF v, i
  <2>4. /\ DOMAIN n = DOMAIN d /\ n.verify = {v} /\ n.idempotency = {i}
        /\ n.methods = {{"POST"}} /\ n.old = d.old /\ n.max_body_bytes = d.max_body_bytes
        /\ n.trigger_id = d.trigger_id /\ n.challenge = d.challenge
    BY <2>1, Shapes
  <2> QED  BY <1>1, <2>2, <2>3, <2>4 DEF Suggested
<1>4. CASE provider \in {"slack", "stripe"}
  BY <1>4 DEF Hook!suggest_verification
<1>5. CASE provider = "other"
  <2> DEFINE v == Hook!Verify("bearer", TRUE, "none", "reference")
  <2>1. n = [d EXCEPT !.verify = {v}, !.methods = {{"POST"}}]
    BY <1>5 DEF Hook!suggest_verification
  <2>2. Hook!VerifyErrors(v) = {}  BY VerifyPasses
  <2> HIDE DEF v
  <2>4. /\ DOMAIN n = DOMAIN d /\ n.verify = {v} /\ n.idempotency = d.idempotency
        /\ n.methods = {{"POST"}} /\ n.old = d.old /\ n.max_body_bytes = d.max_body_bytes
        /\ n.trigger_id = d.trigger_id /\ n.challenge = d.challenge
    BY <2>1, Shapes
  <2> QED  BY <1>1, <2>2, <2>4 DEF Suggested
<1> QED  BY <1>2, <1>3, <1>4, <1>5

LEMMA CurlPasses ==
  ASSUME NEW d, DOMAIN d = DOMAIN Hook!NoTrigger, NEW curl,
         NEW n \in Hook!infer_auth_from_curl(curl, d)
  PROVE  DOMAIN n = DOMAIN Hook!NoTrigger /\ (Suggested(d) => Suggested(n))
<1> DEFINE vs == Hook!Inferred(curl.headers)
           m == IF curl.method = "GET" THEN "POST" ELSE curl.method
<1>1. n = [d EXCEPT !.verify = vs, !.methods = {{m}}]
  BY DEF Hook!infer_auth_from_curl
<1>2. m # "GET"  OBVIOUS
<1>3. \A v \in vs : Hook!VerifyErrors(v) = {}  BY InferredPasses
<1> HIDE DEF vs, m
<1>4. /\ DOMAIN n = DOMAIN d /\ n.verify = vs /\ n.idempotency = d.idempotency
      /\ n.methods = {{m}} /\ n.old = d.old /\ n.max_body_bytes = d.max_body_bytes
      /\ n.trigger_id = d.trigger_id /\ n.challenge = d.challenge
  BY <1>1, Shapes
<1> QED  BY <1>2, <1>3, <1>4 DEF Suggested

LEMMA PathPasses ==
  ASSUME NEW d, DOMAIN d = DOMAIN Hook!NoTrigger, NEW words,
         NEW n \in Hook!suggest_path(words, d)
  PROVE  DOMAIN n = DOMAIN Hook!NoTrigger /\ (Suggested(d) => Suggested(n))
<1> DEFINE id == Hook!slugify(words)
<1>1. n = [d EXCEPT !.trigger_id = {id}] /\ Hook!is_valid_trigger_id(id)
  BY DEF Hook!suggest_path
<1> HIDE DEF id
<1>2. /\ DOMAIN n = DOMAIN d /\ n.verify = d.verify /\ n.idempotency = d.idempotency
      /\ n.methods = d.methods /\ n.old = d.old /\ n.max_body_bytes = d.max_body_bytes
      /\ n.trigger_id = {id} /\ n.challenge = d.challenge
  BY <1>1, Shapes
<1> QED  BY <1>1, <1>2 DEF Suggested

(* Parts that pass their own checks make a trigger that passes them all:   *)
(* the challenge and the methods, which are checked against each other,    *)
(* agree.                                                                  *)
LEMMA SuggestedIsAccepted ==
  ASSUME NEW d, Suggested(d), d.verify # {},
         UNION d.methods \subseteq Hook!AllowedMethods
  PROVE  Hook!validate_webhook_config(d)
<1>1. ~ Hook!is_pre_contract(d)  BY DEF Suggested, Hook!is_pre_contract
<1>2. "GET" \notin Hook!Methods(d)  BY DEF Suggested, Hook!Methods
<1>3. \A ms \in d.methods : ms \subseteq Hook!AllowedMethods  OBVIOUS
<1>4. \A c \in d.challenge : Hook!ChallengeErrors(c, Hook!Methods(d)) = {}
  <2> TAKE c \in d.challenge
  <2>1. c.scheme = "meta_hub" /\ Hook!is_valid_secret_ref(c.verify_token_ref)
    BY DEF Suggested, Hook!is_valid_secret_ref
  <2> QED  BY <1>2, <2>1 DEF Hook!ChallengeErrors
<1>5. \A i \in d.idempotency : Hook!IdempotencyErrors(i) = {}
  <2> TAKE i \in d.idempotency
  <2>1. i.key = "header" /\ i.ttl_s = {}  BY DEF Suggested
  <2> QED  BY <2>1 DEF Hook!IdempotencyErrors
<1>6. /\ d.max_body_bytes = {} /\ \A v \in d.verify : Hook!VerifyErrors(v) = {}
      /\ \A id \in d.trigger_id : Hook!is_valid_trigger_id(id)
  BY DEF Suggested
<1>7. ASSUME NEW field \in Hook!WebhookErrors(d) PROVE FALSE
  <2>1. CASE field = "old"  BY <1>1, <1>7, <2>1 DEF Hook!WebhookErrors
  <2>2. CASE field = "trigger_id"  BY <1>6, <1>7, <2>2 DEF Hook!WebhookErrors
  <2>3. CASE field = "methods"  BY <1>3, <1>7, <2>3 DEF Hook!WebhookErrors
  <2>4. CASE field = "verify"  BY <1>6, <1>7, <2>4 DEF Hook!WebhookErrors
  <2>5. CASE field = "challenge"  BY <1>4, <1>7, <2>5 DEF Hook!WebhookErrors
  <2>6. CASE field = "idempotency"  BY <1>5, <1>7, <2>6 DEF Hook!WebhookErrors
  <2>7. CASE field = "max_body_bytes"  BY <1>6, <1>7, <2>7 DEF Hook!WebhookErrors
  <2> QED  BY <1>7, <2>1, <2>2, <2>3, <2>4, <2>5, <2>6, <2>7 DEF Hook!WebhookErrors
<1> QED  BY <1>7 DEF Hook!validate_webhook_config

-----------------------------------------------------------------------------
(* What suggest_cron writes, and how it is read back.                      *)

(* A suggestion: one expression, which is read back as announced or as     *)
(* itself.                                                                 *)
ReadBack(match) ==
  \E c, r : /\ match = {[expr |-> c, rationale |-> r]}
            /\ Parses(c) => summarize(c) \in {r, Neutral}

LEMMA MatchIs ==
  ASSUME NEW c, NEW r, Parses(c) => summarize(c) \in {r, Neutral}
  PROVE  ReadBack(Match(c, r))
BY DEF ReadBack, Match

LEMMA PacedReadBack ==
  ASSUME NEW p
  PROVE  Paced(p) = {} \/ ReadBack(Paced(p))
<1> DEFINE past == Or(minute_past(p.at), 0)
<1> HIDE DEF past
<1> USE DEF summarize, Cron, Star, At, Every
<1>1. CASE p.unit = "minute"
  <2>1. Paced(p) = Match(Cron(Every(p.step), Star, Star, Star), Says("minutes", p.step, 0, 0))
    BY <1>1 DEF Paced
  <2>2. summarize(Cron(Every(p.step), Star, Star, Star)) = Says("minutes", p.step, 0, 0)
    OBVIOUS
  <2> QED  BY <2>1, <2>2, MatchIs
<1>2. CASE p.unit = "hour"
  <2>1. Paced(p) = Match(Cron(At(past), Every(p.step), Star, Star),
                         Says("hours", p.step, 0, past))
    BY <1>2 DEF Paced, past
  <2>2. summarize(Cron(At(past), Every(p.step), Star, Star)) = Says("hours", p.step, 0, past)
    OBVIOUS
  <2> QED  BY <2>1, <2>2, MatchIs
<1>3. CASE p.unit = "none" /\ p.pace = "minute"
  <2>1. Paced(p) = Match(Cron(Star, Star, Star, Star), Says("every minute", 0, 0, 0))
    BY <1>3 DEF Paced
  <2>2. summarize(Cron(Star, Star, Star, Star)) = Neutral
    OBVIOUS
  <2> QED  BY <2>1, <2>2, MatchIs
<1>4. CASE p.unit = "none" /\ p.pace = "hour"
  <2>1. Paced(p) = Match(Cron(At(past), Star, Star, Star), Says("hourly", 0, 0, past))
    BY <1>4 DEF Paced, past
  <2>2. summarize(Cron(At(past), Star, Star, Star)) = Says("hourly", 0, 0, past)
    OBVIOUS
  <2> QED  BY <2>1, <2>2, MatchIs
<1>5. CASE ~ (p.unit \in {"minute", "hour"} \/ (p.unit = "none" /\ p.pace \in {"minute", "hour"}))
  BY <1>5 DEF Paced
<1> QED  BY <1>1, <1>2, <1>3, <1>4, <1>5

LEMMA DailyReadBack ==
  ASSUME NEW p \in Phrases
  PROVE  Daily(p) = {} \/ ReadBack(Daily(p))
<1> DEFINE On(t, dow) == Cron(At(t[2]), At(t[1]), Star, dow)
           day == Min(p.named)
           dom == IF p.dom = 0 THEN 1 ELSE p.dom
           F(t) == CASE p.days = "weekdays" ->
                          Match(On(t, Span(1, 5)), Says("days", <<1, 5>>, t[1], t[2]))
                     [] p.days = "named" ->
                          Match(On(t, At(day)), Says("days", <<day, day>>, t[1], t[2]))
                     [] p.days = "none" /\ p.month ->
                          Match(Cron(At(t[2]), At(t[1]), At(dom), Star),
                                Says("month", dom, t[1], t[2]))
                     [] p.days = "none" /\ ~ p.month /\ p.daily ->
                          Match(On(t, Star), Says("daily", 0, t[1], t[2]))
                     [] OTHER -> {}
<1>1. Daily(p) = UNION {F(t) : t \in time_of_day(p.at)}  BY DEF Daily
<1>2. time_of_day(p.at) = {} \/ \E t : time_of_day(p.at) = {t}  BY DEF time_of_day
<1>3. ASSUME NEW t PROVE F(t) = {} \/ ReadBack(F(t))
  <2> DEFINE h == t[1]
             m == t[2]
  <2> HIDE DEF h, m
  <2>1. CASE p.days = "weekdays"
    <3>1. F(t) = Match(Cron(At(m), At(h), Star, Span(1, 5)), Says("days", <<1, 5>>, h, m))
      BY <2>1 DEF h, m
    <3>2. weekdays(Span(1, 5)) = <<1, 5>>  BY DEF weekdays, Span
    <3>3. summarize(Cron(At(m), At(h), Star, Span(1, 5))) = Says("days", <<1, 5>>, h, m)
      <4>1. Span(1, 5) # Star /\ <<1, 5>> # <<>>  BY DEF Span, Star
      <4> HIDE DEF Span
      <4> QED  BY <3>2, <4>1 DEF summarize, Cron, Star, At
    <3> QED  BY <3>1, <3>3, MatchIs
  <2>2. CASE p.days = "named"
    <3>1. F(t) = Match(Cron(At(m), At(h), Star, At(day)), Says("days", <<day, day>>, h, m))
      BY <2>2 DEF h, m
    <3>2. day \in 0 .. 6
      <4>1. p.named # {} /\ p.named \subseteq 0 .. 6 /\ p.named \subseteq Nat
        BY <2>2, PhrasesAssumption DEF Week
      <4> QED  BY <4>1, MinIsLeast
    <3> HIDE DEF day
    <3>3. day % 7 = day  BY <3>2
    <3>4. weekdays(At(day)) = <<day, day>>
      <4>1. At(day)[1] = "at" /\ At(day)[2] = day  BY DEF At
      <4> HIDE DEF At
      <4> QED  BY <3>3, <4>1 DEF weekdays
    <3>5. summarize(Cron(At(m), At(h), Star, At(day))) = Says("days", <<day, day>>, h, m)
      <4>1. At(day) # Star /\ <<day, day>> # <<>>  BY DEF At, Star
      <4>2. \A n : At(n)[1] = "at" /\ At(n)[2] = n  BY DEF At
      <4> HIDE DEF At
      <4> QED  BY <3>4, <4>1, <4>2 DEF summarize, Cron
    <3> QED  BY <3>1, <3>5, MatchIs
  <2>3. CASE p.days = "none" /\ p.month
    <3>1. F(t) = Match(Cron(At(m), At(h), At(dom), Star), Says("month", dom, h, m))
      BY <2>3 DEF h, m
    <3> HIDE DEF dom
    <3>2. summarize(Cron(At(m), At(h), At(dom), Star)) = Says("month", dom, h, m)
      BY DEF summarize, Cron, Star, At
    <3> QED  BY <3>1, <3>2, MatchIs
  <2>4. CASE p.days = "none" /\ ~ p.month /\ p.daily
    <3>1. F(t) = Match(Cron(At(m), At(h), Star, Star), Says("daily", 0, h, m))
      BY <2>4 DEF h, m
    <3>2. summarize(Cron(At(m), At(h), Star, Star)) = Says("daily", 0, h, m)
      BY DEF summarize, Cron, Star, At
    <3> QED  BY <3>1, <3>2, MatchIs
  <2>5. CASE ~ (p.days \in {"weekdays", "named"} \/ (p.days = "none" /\ (p.month \/ p.daily)))
    BY <2>5
  <2> QED  BY <2>1, <2>2, <2>3, <2>4, <2>5
<1> HIDE DEF F
<1>4. CASE time_of_day(p.at) = {}
  BY <1>1, <1>4
<1>5. ASSUME NEW t, time_of_day(p.at) = {t} PROVE Daily(p) = {} \/ ReadBack(Daily(p))
  <2>1. Daily(p) = F(t)  BY <1>1, <1>5
  <2> QED  BY <1>3, <2>1, Zenon
<1> QED  BY <1>2, <1>4, <1>5

(* A phrase that is understood is read back as announced, and the runtime  *)
(* takes the expression in its zone.                                       *)
LEMMA SuggestionReadBack ==
  ASSUME NEW p \in Phrases, suggest_cron(p).suggestions # {}
  PROVE  LET s == suggest_cron(p)
         IN  /\ s.zone \in Zones \union {"none"}
             /\ \E c, r : /\ {x.expr : x \in s.suggestions} = {c}
                          /\ {x.rationale : x \in s.suggestions} = {r}
                          /\ Parses(c) /\ summarize(c) \in {r, Neutral}
<1> DEFINE s == suggest_cron(p)
           match == match_expression(p)
<1>1. match = {} \/ ReadBack(match)  BY PacedReadBack, DailyReadBack DEF match_expression
<1>2. Refusal.suggestions = {}  BY DEF Refusal
<1>3. /\ s = [ok |-> TRUE, suggestions |-> match, zone |-> Zone(p)]
      /\ Zone(p) \in Zones \union {"none"} /\ \A x \in match : Parses(x.expr)
  BY <1>2 DEF suggest_cron
<1>4. s.suggestions = match /\ s.zone = Zone(p)  BY <1>3
<1>5. PICK c, r : /\ match = {[expr |-> c, rationale |-> r]}
                  /\ Parses(c) => summarize(c) \in {r, Neutral}
  BY <1>1, <1>4 DEF ReadBack
<1> HIDE DEF s, match
<1>6. [expr |-> c, rationale |-> r].expr = c /\ [expr |-> c, rationale |-> r].rationale = r
  OBVIOUS
<1>7. {x.expr : x \in match} = {c} /\ {x.rationale : x \in match} = {r} /\ Parses(c)
  BY <1>3, <1>5, <1>6
<1> QED  BY <1>3, <1>4, <1>5, <1>7 DEF s

(* A draft that announces what it has is accepted and read back.           *)
LEMMA AnnouncedIsAccepted ==
  ASSUME NEW d, NEW e, NEW w, NEW said, ScheduleInv(d, e, w, said), Announced(d, w)
  PROVE  /\ validate_cron(d)
         /\ said # {} => said = w.rationale \/ said = {Neutral}
<1>1. PICK c \in d.expr, r \in w.rationale :
        /\ d.expr = {c} /\ w.rationale = {r}
        /\ Parses(c) /\ summarize(c) \in {r, Neutral}
  BY DEF Announced
<1>2. /\ d.timezone \in Zones \union {"none"} /\ d.cron = FALSE
      /\ d.trigger_id # "wrong" /\ d.enabled # "wrong"
  BY DEF ScheduleInv
<1>3. ASSUME NEW field \in ScheduleErrors(d) PROVE FALSE
  <2>1. CASE field = "expr"  BY <1>1, <1>3, <2>1 DEF ScheduleErrors
  <2>2. CASE field = "timezone"  BY <1>2, <1>3, <2>2 DEF ScheduleErrors
  <2>3. CASE field = "cron"  BY <1>2, <1>3, <2>3 DEF ScheduleErrors
  <2>4. CASE field = "trigger_id"  BY <1>2, <1>3, <2>4 DEF ScheduleErrors
  <2>5. CASE field = "enabled"  BY <1>2, <1>3, <2>5 DEF ScheduleErrors
  <2> QED  BY <1>3, <2>1, <2>2, <2>3, <2>4, <2>5 DEF ScheduleErrors
<1>4. describe_schedule(c, d.timezone) = {summarize(c)}  BY <1>1, <1>2 DEF describe_schedule
<1>5. said # {} => said = {summarize(c)}
  BY <1>1, <1>4 DEF ScheduleInv
<1> QED  BY <1>1, <1>3, <1>5 DEF validate_cron

-----------------------------------------------------------------------------
(* The steps of the designer preserve the invariant.                       *)

LEMMA AInvFrame ==
  ASSUME AInv,
         UNCHANGED <<kind, node, draft, wish, steps, edits, reading, verdict, told, mail, fired>>
  PROVE  AInv'
<1>1. Valid' = Valid  BY DEF Valid
<1>2. AnswersAreInForce' = AnswersAreInForce
  BY DEF AnswersAreInForce, InForce, InForceHttp, SaysOf, Loads, Setup!Loads
<1> QED  BY <1>1, <1>2 DEF AInv

(* A change of the draft takes the verdict and the reading back.           *)
LEMMA DraftInv ==
  ASSUME AInv, kind \in {"http", "schedule", "webhook"}, NEW d, Draft(d), edits' \in Nat,
         kind = "http"     => HttpInv(d, edits'),
         kind = "schedule" => ScheduleInv(d, edits', wish', {}),
         kind = "webhook"  => WebhookInv(d, edits')
  PROVE  AInv'
<1>1. /\ kind' = kind /\ draft' = d /\ verdict' = "none" /\ reading' = {}
      /\ steps' \in Nat
  BY DEF Draft, AInv
<1> QED  BY <1>1 DEF AInv

LEMMA HttpDesignInv ==
  ASSUME AInv, GenerateHttp \/ ImportCurl \/ FromCard \/ SuggestAuth \/ EditHttp
  PROVE  AInv'
<1>1. edits \in Nat  BY DEF AInv
<1>2. CASE GenerateHttp
  <2>1. PICK i \in Intents : kind = "http" /\ ByTool(generate_http_node(i.intent, i.context))
    BY <1>2 DEF GenerateHttp
  <2>2. HttpInv(generate_http_node(i.intent, i.context), edits)
    BY GeneratedNode DEF HttpInv, IsNode
  <2> QED  BY <1>1, <2>1, <2>2, DraftInv DEF ByTool
<1>3. CASE ImportCurl
  <2>1. PICK c \in Curls : kind = "http" /\ ByTool(curl_to_node(c))
    BY <1>3 DEF ImportCurl
  <2>2. HttpInv(curl_to_node(c), edits)  BY ImportedNode DEF HttpInv, IsNode
  <2> QED  BY <1>1, <2>1, <2>2, DraftInv DEF ByTool
<1>4. CASE FromCard
  <2>1. PICK i \in Intents : kind = "http" /\ ByTool(generate_from_card_submit(i.intent))
    BY <1>4 DEF FromCard
  <2>2. HttpInv(generate_from_card_submit(i.intent), edits)
    BY CardNode DEF HttpInv, IsNode
  <2> QED  BY <1>1, <2>1, <2>2, DraftInv DEF ByTool
<1>5. CASE SuggestAuth
  <2>1. PICK a \in Apis : kind = "http" /\ draft # NoNode /\ ByTool(WithAuth(draft, a))
    BY <1>5 DEF SuggestAuth
  <2>2. HttpInv(draft, edits)  BY <2>1 DEF AInv
  <2>3. HttpInv(WithAuth(draft, a), edits)
    <3>1. IsNode(draft) /\ (edits = 0 => Usable(draft.config))
      BY <2>1, <2>2 DEF HttpInv, IsNode
    <3> QED  BY <3>1, AuthNode DEF HttpInv, IsNode
  <2> QED  BY <1>1, <2>1, <2>3, DraftInv DEF ByTool
<1>6. CASE EditHttp
  <2> DEFINE Edited(e) == [draft EXCEPT !.config = [@ EXCEPT ![e[1]] = e[2]]]
  <2>1. PICK e \in HttpEdits : kind = "http" /\ ByHand(Edited(e))
    BY <1>6 DEF EditHttp
  <2>2. DOMAIN draft = DOMAIN NoNode /\ DOMAIN draft.config = DOMAIN Default
    BY <2>1 DEF AInv, HttpInv
  <2>3. DOMAIN Edited(e) = DOMAIN draft /\ DOMAIN Edited(e).config = DOMAIN draft.config
    BY <2>2, Shapes
  <2> HIDE DEF Edited
  <2>4. edits' = edits + 1 /\ Draft(Edited(e))  BY <2>1 DEF ByHand
  <2>5. edits' # 0 /\ edits' \in Nat  BY <1>1, <2>4
  <2>6. HttpInv(Edited(e), edits')  BY <2>2, <2>3, <2>5 DEF HttpInv
  <2> QED  BY <2>1, <2>4, <2>5, <2>6, DraftInv
<1> QED  BY <1>2, <1>3, <1>4, <1>5, <1>6

LEMMA ScheduleDesignInv ==
  ASSUME AInv, SuggestCron \/ EditSchedule
  PROVE  AInv'
<1>1. edits \in Nat  BY DEF AInv
<1>2. kind = "schedule"  BY DEF SuggestCron, EditSchedule
<1>3. ScheduleInv(draft, edits, wish, reading)  BY <1>2 DEF AInv
<1>4. CASE SuggestCron
  <2> DEFINE s(p) == suggest_cron(p)
             D(p) == [draft EXCEPT !.expr = {x.expr : x \in s(p).suggestions},
                                   !.timezone = s(p).zone]
             W(p) == [asked |-> TRUE, phrase |-> p,
                      rationale |-> {x.rationale : x \in s(p).suggestions}]
  <2>1. PICK p \in Phrases :
          /\ Draft(IF s(p).suggestions = {} THEN draft ELSE D(p))
          /\ wish' = IF s(p).suggestions = {} THEN wish ELSE W(p)
    BY <1>4 DEF SuggestCron
  <2>2. edits' = edits  BY <1>4 DEF SuggestCron
  <2>3. CASE s(p).suggestions = {}
    <3>1. Draft(draft) /\ wish' = wish  BY <2>1, <2>3
    <3>2. ScheduleInv(draft, edits', wish', {})  BY <1>3, <2>2, <3>1 DEF ScheduleInv
    <3> QED  BY <1>1, <1>2, <2>2, <3>1, <3>2, DraftInv
  <2>4. CASE s(p).suggestions # {}
    <3>1. Draft(D(p)) /\ wish' = W(p)  BY <2>1, <2>4
    <3> DEFINE exprs == {x.expr : x \in s(p).suggestions}
               announced == {x.rationale : x \in s(p).suggestions}
               zone == s(p).zone
    <3>2. /\ zone \in Zones \union {"none"}
          /\ \E c, r : /\ exprs = {c} /\ announced = {r}
                       /\ Parses(c) /\ summarize(c) \in {r, Neutral}
      BY <2>4, SuggestionReadBack
    <3>3. /\ DOMAIN D(p) = DOMAIN draft /\ D(p).expr = exprs /\ D(p).timezone = zone
          /\ D(p).cron = draft.cron /\ D(p).trigger_id = draft.trigger_id
          /\ D(p).enabled = draft.enabled
      <4>1. DOMAIN draft = DOMAIN NoSchedule  BY <1>3 DEF ScheduleInv
      <4>2. D(p) = [draft EXCEPT !.expr = exprs, !.timezone = zone]  OBVIOUS
      <4> HIDE DEF exprs, zone, D
      <4> QED  BY <4>1, <4>2, Shapes
    <3>4. wish'.rationale = announced
      <4>1. W(p).rationale = announced  OBVIOUS
      <4> HIDE DEF W, announced
      <4> QED  BY <3>1, <4>1
    <3> HIDE DEF D, W, exprs, announced, zone
    <3>5. Announced(D(p), wish')  BY <3>2, <3>3, <3>4 DEF Announced
    <3>6. ScheduleInv(D(p), edits', wish', {})
      BY <1>3, <3>2, <3>3, <3>5 DEF ScheduleInv
    <3> QED  BY <1>1, <1>2, <2>2, <3>1, <3>6, DraftInv
  <2> QED  BY <2>3, <2>4
<1>5. CASE EditSchedule
  <2>1. PICK c \in Crons : ByHand([draft EXCEPT !.expr = c])
    BY <1>5 DEF EditSchedule
  <2> DEFINE D == [draft EXCEPT !.expr = c]
  <2>2. edits' = edits + 1 /\ Draft(D)  BY <2>1 DEF ByHand
  <2>3. edits' # 0 /\ edits' \in Nat  BY <1>1, <2>2
  <2>4. ScheduleInv(D, edits', wish', {})  BY <1>3, <2>3, Shapes DEF ScheduleInv
  <2> HIDE DEF D
  <2> QED  BY <1>2, <2>2, <2>3, <2>4, DraftInv
<1> QED  BY <1>4, <1>5

LEMMA WebhookDesignInv ==
  ASSUME AInv, SuggestVerification \/ InferAuth \/ SuggestPath \/ EditWebhook
  PROVE  AInv'
<1>1. edits \in Nat  BY DEF AInv
<1>2. kind = "webhook"  BY DEF SuggestVerification, InferAuth, SuggestPath, EditWebhook
<1>3. DOMAIN draft = DOMAIN Hook!NoTrigger /\ (edits = 0 => Suggested(draft))
  BY <1>2 DEF AInv, WebhookInv
<1>4. ASSUME NEW d, ByTool(d), DOMAIN d = DOMAIN Hook!NoTrigger,
             Suggested(draft) => Suggested(d)
      PROVE  AInv'
  <2>1. WebhookInv(d, edits)  BY <1>3, <1>4 DEF WebhookInv
  <2> QED  BY <1>1, <1>2, <1>4, <2>1, DraftInv DEF ByTool
<1>5. CASE SuggestVerification
  <2>1. PICK p \in Providers : \E d \in Hook!suggest_verification(p, draft) : ByTool(d)
    BY <1>5 DEF SuggestVerification
  <2>2. PICK d \in Hook!suggest_verification(p, draft) : ByTool(d)  BY <2>1
  <2>3. p \in {"meta", "github", "slack", "stripe", "other"}  BY ProvidersAssumption
  <2> QED  BY <1>3, <1>4, <2>2, <2>3, PresetPasses
<1>6. CASE InferAuth
  <2>1. PICK c \in WebhookCurls : \E d \in Hook!infer_auth_from_curl(c, draft) : ByTool(d)
    BY <1>6 DEF InferAuth
  <2>2. PICK d \in Hook!infer_auth_from_curl(c, draft) : ByTool(d)  BY <2>1
  <2> QED  BY <1>3, <1>4, <2>2, CurlPasses
<1>7. CASE SuggestPath
  <2>1. PICK w \in PathWords : \E d \in Hook!suggest_path(w, draft) : ByTool(d)
    BY <1>7 DEF SuggestPath
  <2>2. PICK d \in Hook!suggest_path(w, draft) : ByTool(d)  BY <2>1
  <2> QED  BY <1>3, <1>4, <2>2, PathPasses
<1>8. CASE EditWebhook
  <2>1. PICK e \in WebhookEdits : ByHand([draft EXCEPT ![e[1]] = e[2]])
    BY <1>8 DEF EditWebhook
  <2> DEFINE D == [draft EXCEPT ![e[1]] = e[2]]
  <2>2. edits' = edits + 1 /\ Draft(D) /\ DOMAIN D = DOMAIN draft  BY <2>1 DEF ByHand
  <2>3. edits' # 0 /\ edits' \in Nat  BY <1>1, <2>2
  <2> HIDE DEF D
  <2>4. WebhookInv(D, edits')  BY <1>3, <2>2, <2>3 DEF WebhookInv
  <2> QED  BY <1>2, <2>2, <2>3, <2>4, DraftInv
<1> QED  BY <1>5, <1>6, <1>7, <1>8

LEMMA JudgingInv ==
  ASSUME AInv, Describe \/ Validate
  PROVE  AInv'
<1>1. CASE Describe
  <2>1. /\ kind = "schedule"
        /\ reading' = UNION {describe_schedule(c, draft.timezone) : c \in draft.expr}
        /\ UNCHANGED <<kind, node, draft, wish, steps, edits, verdict, told, mail, fired>>
    BY <1>1 DEF Describe
  <2>2. Valid' = Valid  BY <2>1 DEF Valid
  <2>3. ScheduleInv(draft, edits, wish, reading')
    BY <2>1 DEF AInv, ScheduleInv
  <2> QED  BY <2>1, <2>2, <2>3 DEF AInv
<1>2. CASE Validate
  <2>1. /\ kind # "setup" /\ verdict = "none"
        /\ verdict' = IF Valid THEN "accepted" ELSE "rejected"
        /\ UNCHANGED <<kind, node, draft, wish, steps, edits, reading, told, mail, fired>>
    BY <1>2 DEF Validate
  <2>2. Valid' = Valid  BY <2>1 DEF Valid
  <2>3. kind = "email" => MailInv(draft, verdict', mail, fired)
    BY <2>1 DEF AInv, MailInv
  <2> QED  BY <2>1, <2>2, <2>3 DEF AInv
<1> QED  BY <1>1, <1>2

-----------------------------------------------------------------------------
(* Answering preserves the invariant.                                      *)

SetupsIn(t) == {i \in DOMAIN t : t[i].mode = "setup"}
GivenIn(t, f) == {i \in DOMAIN t : f \in Answered(t[i].answers)}

BuiltFrom(d, t, f) ==
  /\ SetupsIn(t) # {}
  /\ LET last == t[Max(SetupsIn(t))].answers
     IN IF SaysOf(last, f) THEN d[f] = last[f]
        ELSE d[f] \in {Setup!Unset} \union {a \in {"blank"} : last[f] = "blank"}

LaidOver(d, t, f) ==
  IF GivenIn(t, f) = {} THEN d[f] = Default[f]
  ELSE d[f] = t[Max(GivenIn(t, f))].answers[f]

InForceOf(n, d, t) ==
  IF n = "http" THEN Loads(d) /\ \A f \in DOMAIN d : LaidOver(d, t, f)
  ELSE LET takes == Setup!Nodes[n].setup.takes
       IN /\ takes = "keeps" => d = Setup!NoConfig
          /\ takes = "first" /\ t # <<>> => d = t[1].answers
          /\ takes = "builds" => Setup!Loads(d) /\ \A f \in DOMAIN d : BuiltFrom(d, t, f)

LEMMA InForceIs ==
  /\ kind = "setup" => (AnswersAreInForce <=> InForceOf(node, draft, told))
  /\ kind' = "setup" => (AnswersAreInForce' <=> InForceOf(node', draft', told'))
<1>1. \A f : InForce(f) <=> BuiltFrom(draft, told, f)
  BY DEF InForce, BuiltFrom, SetupsIn
<1>2. \A f : InForceHttp(f) <=> LaidOver(draft, told, f)
  BY DEF InForceHttp, LaidOver, GivenIn
<1>3. (\A f : InForce(f) <=> BuiltFrom(draft, told, f))'
  BY DEF InForce, BuiltFrom, SetupsIn
<1>4. (\A f : InForceHttp(f) <=> LaidOver(draft, told, f))'
  BY DEF InForceHttp, LaidOver, GivenIn
<1>5. kind = "setup" => (AnswersAreInForce <=> InForceOf(node, draft, told))
  BY <1>1, <1>2 DEF AnswersAreInForce, InForceOf
<1>6. kind' = "setup" => (AnswersAreInForce' <=> InForceOf(node', draft', told'))
  BY <1>3, <1>4 DEF AnswersAreInForce, InForceOf, Loads, Setup!Loads
<1> QED  BY <1>5, <1>6

(* One more setup is the last one.                                         *)
LEMMA LastIsNew ==
  ASSUME NEW n \in Nat, NEW J, J \subseteq 1 .. n + 1, n + 1 \in J
  PROVE  Max(J) = n + 1
<1>1. n + 1 \in Nat /\ J # {}  OBVIOUS
<1>2. Max(J) \in J /\ \A y \in J : y =< Max(J)  BY <1>1, MaxIsGreatest
<1>3. Max(J) \in 1 .. n + 1 /\ n + 1 =< Max(J)
  <2> DEFINE m == Max(J)
  <2> HIDE DEF m
  <2> QED  BY <1>2 DEF m
<1> DEFINE m == Max(J)
<1> HIDE DEF m
<1>4. m \in 1 .. n + 1 /\ n + 1 =< m  BY <1>3 DEF m
<1> QED  BY <1>4 DEF m

LEMMA SetupAppended ==
  ASSUME NEW S, NEW t \in Seq(S), NEW s
  PROVE  /\ SetupsIn(t) \subseteq 1 .. Len(t) /\ Len(t) \in Nat
         /\ SetupsIn(t) # {} => Max(SetupsIn(t)) \in SetupsIn(t)
         /\ s.mode # "setup" => SetupsIn(Append(t, s)) = SetupsIn(t)
         /\ s.mode = "setup" => /\ SetupsIn(Append(t, s)) # {}
                                /\ Max(SetupsIn(Append(t, s))) = Len(t) + 1
         /\ \A i \in 1 .. Len(t) : Append(t, s)[i] = t[i]
         /\ Append(t, s)[Len(t) + 1] = s
<1> DEFINE more == Append(t, s)
<1>1. /\ Len(t) \in Nat /\ DOMAIN t = 1 .. Len(t) /\ DOMAIN more = 1 .. Len(t) + 1
      /\ \A i \in 1 .. Len(t) : more[i] = t[i]
      /\ more[Len(t) + 1] = s
  OBVIOUS
<1> HIDE DEF more
<1>2. SetupsIn(t) \subseteq 1 .. Len(t)  BY <1>1 DEF SetupsIn
<1>3. SetupsIn(t) # {} => Max(SetupsIn(t)) \in SetupsIn(t)
  BY <1>1, <1>2, MaxIsGreatest
<1>4. s.mode # "setup" => SetupsIn(more) = SetupsIn(t)  BY <1>1 DEF SetupsIn
<1>5. SetupsIn(more) \subseteq 1 .. Len(t) + 1  BY <1>1 DEF SetupsIn
<1>6. s.mode = "setup" => Len(t) + 1 \in SetupsIn(more)  BY <1>1 DEF SetupsIn
<1>7. s.mode = "setup" => SetupsIn(more) # {} /\ Max(SetupsIn(more)) = Len(t) + 1
  BY <1>1, <1>5, <1>6, LastIsNew
<1> QED  BY <1>1, <1>2, <1>3, <1>4, <1>7 DEF more

LEMMA GivenAppended ==
  ASSUME NEW S, NEW t \in Seq(S), NEW s, NEW f
  PROVE  /\ GivenIn(t, f) \subseteq 1 .. Len(t) /\ Len(t) \in Nat
         /\ GivenIn(t, f) # {} => Max(GivenIn(t, f)) \in GivenIn(t, f)
         /\ f \notin Answered(s.answers) => GivenIn(Append(t, s), f) = GivenIn(t, f)
         /\ f \in Answered(s.answers) => /\ GivenIn(Append(t, s), f) # {}
                                         /\ Max(GivenIn(Append(t, s), f)) = Len(t) + 1
         /\ \A i \in 1 .. Len(t) : Append(t, s)[i] = t[i]
         /\ Append(t, s)[Len(t) + 1] = s
<1> DEFINE more == Append(t, s)
<1>1. /\ Len(t) \in Nat /\ DOMAIN t = 1 .. Len(t) /\ DOMAIN more = 1 .. Len(t) + 1
      /\ \A i \in 1 .. Len(t) : more[i] = t[i]
      /\ more[Len(t) + 1] = s
  OBVIOUS
<1> HIDE DEF more
<1>2. GivenIn(t, f) \subseteq 1 .. Len(t)  BY <1>1 DEF GivenIn
<1>3. GivenIn(t, f) # {} => Max(GivenIn(t, f)) \in GivenIn(t, f)
  BY <1>1, <1>2, MaxIsGreatest
<1>4. f \notin Answered(s.answers) => GivenIn(more, f) = GivenIn(t, f)
  BY <1>1 DEF GivenIn
<1>5. GivenIn(more, f) \subseteq 1 .. Len(t) + 1  BY <1>1 DEF GivenIn
<1>6. f \in Answered(s.answers) => Len(t) + 1 \in GivenIn(more, f)
  BY <1>1 DEF GivenIn
<1>7. f \in Answered(s.answers) =>
        GivenIn(more, f) # {} /\ Max(GivenIn(more, f)) = Len(t) + 1
  BY <1>1, <1>5, <1>6, LastIsNew
<1> QED  BY <1>1, <1>2, <1>3, <1>4, <1>7 DEF more

(* component-http lays the answers over those it has.                      *)
LEMMA AnsweredHttp ==
  ASSUME NEW S, NEW t \in Seq(S), NEW d, DOMAIN d = DOMAIN Default,
         NEW a, a.timeout_ms \in Int, NEW mode,
         InForceOf("http", d, t), apply_answers(d, a).ok
  PROVE  LET more == Append(t, [mode |-> mode, answers |-> a])
             new  == apply_answers(d, a).config
         IN  DOMAIN new = DOMAIN Default /\ InForceOf("http", new, more)
<1> DEFINE s == [mode |-> mode, answers |-> a]
           more == Append(t, s)
           new == [f \in DOMAIN Default |-> IF f \in Answered(a) THEN a[f] ELSE d[f]]
<1>1. ~ Refused(a) /\ apply_answers(d, a).config = new  BY DEF apply_answers
<1>2. s.answers = a  OBVIOUS
<1>3. Loads(d) /\ \A f \in DOMAIN d : LaidOver(d, t, f)  BY DEF InForceOf
<1>4. DOMAIN new = DOMAIN Default
      /\ \A f \in DOMAIN Default : new[f] = IF f \in Answered(a) THEN a[f] ELSE d[f]
  OBVIOUS
<1> HIDE DEF new, s
<1>5. Loads(new)
  <2>1. ASSUME NEW f \in {"base_url", "auth_type", "auth_token", "api_key_header"}
        PROVE  new[f] # Wrong
    <3>1. f \in DOMAIN Default /\ f # "timeout_ms"  BY Shapes
    <3>2. f \in Answered(a) => a[f] # Wrong  BY <3>1 DEF Answered
    <3>3. d[f] # Wrong  BY <1>3 DEF Loads
    <3> QED  BY <1>4, <3>1, <3>2, <3>3
  <2>2. new.timeout_ms # BadTime /\ new.timeout_ms <= MaxU32
    <3>1. "timeout_ms" \in DOMAIN Default  BY Shapes
    <3>2. "timeout_ms" \in Answered(a) => a.timeout_ms # BadTime  BY <3>1 DEF Answered
    <3>3. a.timeout_ms <= MaxU32
      BY <1>1, TimeoutAssumption DEF Refused
    <3>4. d.timeout_ms # BadTime /\ d.timeout_ms <= MaxU32  BY <1>3 DEF Loads
    <3>5. new["timeout_ms"] = IF "timeout_ms" \in Answered(a) THEN a["timeout_ms"] ELSE d["timeout_ms"]
      BY <1>4, <3>1
    <3> QED  BY <3>2, <3>3, <3>4, <3>5
  <2> QED  BY <2>1, <2>2 DEF Loads
<1>6. ASSUME NEW f \in DOMAIN Default PROVE LaidOver(new, more, f)
  <2>1. LaidOver(d, t, f)  BY <1>3
  <2>2. /\ GivenIn(t, f) \subseteq 1 .. Len(t) /\ Len(t) \in Nat
        /\ GivenIn(t, f) # {} => Max(GivenIn(t, f)) \in GivenIn(t, f)
        /\ f \notin Answered(a) => GivenIn(more, f) = GivenIn(t, f)
        /\ f \in Answered(a) => GivenIn(more, f) # {} /\ Max(GivenIn(more, f)) = Len(t) + 1
        /\ \A i \in 1 .. Len(t) : more[i] = t[i]
        /\ more[Len(t) + 1] = s
    BY <1>2, GivenAppended
  <2> HIDE DEF more
  <2>3. CASE f \in Answered(a)
    BY <1>2, <1>4, <2>2, <2>3 DEF LaidOver
  <2>4. CASE f \notin Answered(a)
    BY <1>4, <2>1, <2>2, <2>4 DEF LaidOver
  <2> QED  BY <2>3, <2>4
<1> HIDE DEF more
<1>7. InForceOf("http", new, more)  BY <1>4, <1>5, <1>6 DEF InForceOf
<1> QED  BY <1>1, <1>4, <1>7 DEF more, s

(* The other components: what is built goes by the last setup alone.       *)
LEMMA AnsweredNode ==
  ASSUME NEW S, NEW t \in Seq(S), NEW d, NEW n, n # "http", NEW a, NEW mode, NEW decodes \in BOOLEAN,
         InForceOf(n, d, t),
         Setup!Nodes[n].setup.takes = "first" => (t = <<>> => d = Setup!NoConfig)
                                              /\ (t # <<>> => d # Setup!NoConfig),
         Setup!apply_answers(Setup!Nodes[n].setup, mode, d, a, decodes).ok
  PROVE  LET more == Append(t, [mode |-> mode, answers |-> a])
             new  == Setup!apply_answers(Setup!Nodes[n].setup, mode, d, a, decodes).config
         IN  /\ InForceOf(n, new, more)
             /\ Setup!Nodes[n].setup.takes = "first" =>
                  new = IF t = <<>> THEN a ELSE d
<1> DEFINE s == [mode |-> mode, answers |-> a]
           more == Append(t, s)
           setup == Setup!Nodes[n].setup
           done == Setup!apply_answers(setup, mode, d, a, decodes)
<1>1. s.mode = mode /\ s.answers = a  OBVIOUS
<1>2. /\ SetupsIn(t) \subseteq 1 .. Len(t) /\ Len(t) \in Nat
      /\ SetupsIn(t) # {} => Max(SetupsIn(t)) \in SetupsIn(t)
      /\ s.mode # "setup" => SetupsIn(more) = SetupsIn(t)
      /\ s.mode = "setup" => SetupsIn(more) # {} /\ Max(SetupsIn(more)) = Len(t) + 1
      /\ \A i \in 1 .. Len(t) : more[i] = t[i]
      /\ more[Len(t) + 1] = s
  BY SetupAppended
<1>3. t # <<>> => Len(t) >= 1  OBVIOUS
<1>4. t = <<>> => Len(t) = 0  OBVIOUS
<1>5. /\ setup.takes = "keeps" => d = Setup!NoConfig
      /\ setup.takes = "first" /\ t # <<>> => d = t[1].answers
      /\ setup.takes = "builds" => Setup!Loads(d) /\ \A f \in DOMAIN d : BuiltFrom(d, t, f)
  BY Zenon DEF InForceOf
<1> HIDE DEF s, more, setup
<1>6. CASE setup.takes = "keeps"
  <2>1. done.config = d  BY <1>6 DEF Setup!apply_answers
  <2> QED  BY <1>5, <1>6, <2>1 DEF InForceOf, setup, more, s
<1>7. CASE setup.takes = "first"
  <2>1. done.config = IF d # Setup!NoConfig THEN d ELSE a
    BY <1>7 DEF Setup!apply_answers
  <2>2. done.config = IF t = <<>> THEN a ELSE d  BY <1>7, <2>1 DEF setup
  <2>3. done.config = more[1].answers
    BY <1>1, <1>2, <1>3, <1>4, <1>5, <1>7, <2>2
  <2> QED  BY <1>7, <2>2, <2>3 DEF InForceOf, setup, more, s
<1>8. CASE setup.takes = "builds"
  <2>1. decodes /\ done.config = IF mode = "setup" THEN Setup!Built(setup, a) ELSE d
    BY <1>8 DEF Setup!apply_answers, setup
  <2>2. CASE mode # "setup"
    <3>1. done.config = d  BY <2>1, <2>2
    <3>2. ASSUME NEW f \in DOMAIN d PROVE BuiltFrom(d, more, f)
      <4>1. BuiltFrom(d, t, f)  BY <1>5, <1>8
      <4>2. SetupsIn(more) = SetupsIn(t)  BY <1>1, <1>2, <2>2
      <4>3. SetupsIn(t) # {} /\ more[Max(SetupsIn(t))] = t[Max(SetupsIn(t))]
        BY <1>2, <4>1 DEF BuiltFrom
      <4> QED  BY <4>1, <4>2, <4>3 DEF BuiltFrom
    <3> QED  BY <1>5, <1>8, <3>1, <3>2 DEF InForceOf, setup, more, s
  <2>3. CASE mode = "setup"
    <3> DEFINE new == Setup!Built(setup, a)
    <3>1. done.config = new  BY <2>1, <2>3
    <3>2. \A f \in DOMAIN new : new[f] = Setup!Taken(setup.fields[f], a[f])
      BY DEF Setup!Built
    <3> HIDE DEF new
    <3>3. ASSUME NEW f \in DOMAIN new PROVE new[f] # "wrong" /\ BuiltFrom(new, more, f)
      <4>1. new[f] = IF a[f] = "wrong" \/ (setup.fields[f] = "trimmed" /\ a[f] = "blank")
                     THEN Setup!Unset ELSE a[f]
        BY <3>2 DEF Setup!Taken
      <4>2. SetupsIn(more) # {} /\ more[Max(SetupsIn(more))].answers = a
        BY <1>1, <1>2, <2>3
      <4>3. new[f] # "wrong"  BY <4>1 DEF Setup!Unset
      <4>4. SaysOf(a, f) => new[f] = a[f]  BY <4>1 DEF SaysOf
      <4>5. ~ SaysOf(a, f) =>
              new[f] \in {Setup!Unset} \union {x \in {"blank"} : a[f] = "blank"}
        BY <4>1 DEF SaysOf
      <4> QED  BY <4>2, <4>3, <4>4, <4>5 DEF BuiltFrom
    <3>4. Setup!Loads(new)  BY <3>3 DEF Setup!Loads
    <3> QED  BY <1>8, <3>1, <3>3, <3>4 DEF InForceOf, setup, more, s
  <2> QED  BY <2>2, <2>3
<1>9. CASE setup.takes \notin {"keeps", "first", "builds"}
  BY <1>9 DEF InForceOf, setup
<1> QED  BY <1>6, <1>7, <1>8, <1>9

LEMMA AnsweringInv ==
  ASSUME AInv, Answering
  PROVE  AInv'
<1>1. PICK mode, answers, decodes :
        /\ mode \in Modes /\ answers \in Answers(node, steps) /\ decodes \in BOOLEAN
        /\ SetUp(mode, answers, decodes)
  BY DEF Answering
<1> DEFINE done == IF node = "http"
                   THEN IF decodes THEN apply_answers(draft, answers) ELSE [ok |-> FALSE]
                   ELSE Setup!apply_answers(Setup!Nodes[node].setup, mode, draft, answers,
                                            decodes)
           s == [mode |-> mode, answers |-> answers]
<1>2. /\ steps' = steps + 1
      /\ draft' = IF done.ok THEN done.config ELSE draft
      /\ told' = IF done.ok THEN Append(told, s) ELSE told
      /\ UNCHANGED <<kind, node, wish, edits, reading, verdict, mail, fired>>
  BY <1>1 DEF SetUp
<1>3. kind = "setup" /\ steps \in 0 .. MaxSetups - 1
  BY BoundsAssumption DEF Answering, AInv
<1>4. SetupInv(node, draft, told) /\ InForceOf(node, draft, told)
  BY <1>3, InForceIs DEF AInv
<1>5. s \in Accepted(node)
  <2>1. answers \in UNION {Answers(node, i) : i \in 0 .. MaxSetups - 1}  BY <1>1, <1>3
  <2> QED  BY <1>1, <2>1 DEF Accepted
<1>6. told \in Seq(Accepted(node))  BY <1>4 DEF SetupInv
<1> HIDE DEF s
<1>7. Append(told, s) \in Seq(Accepted(node)) /\ Append(told, s) # <<>>
  BY <1>5, <1>6, AppendProperties
<1>8. SetupInv(node, draft', told') /\ InForceOf(node, draft', told')
  <2>1. CASE ~ done.ok
    <3>1. draft' = draft /\ told' = told  BY <1>2, <2>1
    <3> QED  BY <1>4, <3>1
  <2>2. CASE done.ok /\ node = "http"
    <3>1. decodes
      <4>1. ~ [ok |-> FALSE].ok  OBVIOUS
      <4> QED  BY <2>2, <4>1
    <3>2. done = apply_answers(draft, answers)  BY <2>2, <3>1
    <3> HIDE DEF done
    <3>3. answers.timeout_ms \in Int  BY <1>1, <1>3, <2>2, AnswersAssumption
    <3>4. DOMAIN draft = DOMAIN Default  BY <1>4, <2>2 DEF SetupInv
    <3>5. DOMAIN done.config = DOMAIN Default /\ InForceOf("http", done.config, Append(told, s))
      BY <1>4, <1>6, <2>2, <3>2, <3>3, <3>4, AnsweredHttp DEF s
    <3>6. draft' = done.config /\ told' = Append(told, s)  BY <1>2, <2>2
    <3> QED  BY <1>7, <2>2, <3>5, <3>6 DEF SetupInv
  <2>3. CASE done.ok /\ node # "http"
    <3>1. done = Setup!apply_answers(Setup!Nodes[node].setup, mode, draft, answers, decodes)
      BY <2>3
    <3> HIDE DEF done
    <3> DEFINE first == Setup!Nodes[node].setup.takes = "first"
    <3>2. first => (told = <<>> => draft = Setup!NoConfig)
                /\ (told # <<>> => draft # Setup!NoConfig)
      BY <1>4, <2>3 DEF SetupInv
    <3>3. /\ InForceOf(node, done.config, Append(told, s))
          /\ first => done.config = IF told = <<>> THEN answers ELSE draft
      BY <1>1, <1>4, <1>6, <2>3, <3>1, <3>2, AnsweredNode DEF s
    <3>4. draft' = done.config /\ told' = Append(told, s)  BY <1>2, <2>3
    <3>5. first => answers # Setup!NoConfig
      <4>1. node \in DOMAIN Setup!Nodes  BY <1>3, <2>3 DEF AInv
      <4> QED  BY <1>1, <1>3, <4>1, AnswersAssumption
    <3>6. first => told' # <<>> /\ draft' # Setup!NoConfig
      BY <1>7, <3>2, <3>3, <3>4, <3>5
    <3>7. SetupInv(node, draft', told')
      BY <1>7, <2>3, <3>4, <3>6 DEF SetupInv
    <3> QED  BY <3>3, <3>4, <3>7
  <2> QED  BY <2>1, <2>2, <2>3
<1>9. AnswersAreInForce'  BY <1>2, <1>3, <1>8, InForceIs
<1>10. steps' \in Nat  BY <1>2, <1>3
<1>11. node' = node /\ kind' = kind /\ edits' = edits /\ verdict' = verdict /\ reading' = reading
  BY <1>2
<1>12. verdict = "none"  BY <1>3 DEF AInv
<1> HIDE DEF done
<1> QED  BY <1>3, <1>8, <1>9, <1>10, <1>11, <1>12 DEF AInv

-----------------------------------------------------------------------------
(* Running preserves the invariant.                                        *)

LEMMA MailboxInv ==
  ASSUME AInv, Poll \/ ReadByPerson
  PROVE  AInv'
<1>1. kind = "email"  BY DEF Poll, ReadByPerson
<1>2. /\ UNCHANGED <<kind, node, draft, wish, steps, edits, reading, verdict, told>>
  BY DEF Poll, ReadByPerson
<1>3. Valid' = Valid  BY <1>2 DEF Valid
<1>4. MailInv(draft, verdict, mail, fired)  BY <1>1 DEF AInv
<1>5. MailInv(draft, verdict, mail', fired')
  <2>1. CASE ReadByPerson
    <3>1. mail' = "read" /\ fired' = fired  BY <2>1 DEF ReadByPerson
    <3> QED  BY <1>4, <3>1 DEF MailInv
  <2>2. CASE Poll /\ fired' = fired /\ mail' = mail
    BY <1>4, <2>2
  <2>3. CASE Poll /\ mail' = After(draft, mail) /\ fired' = fired + 1
    <3>1. verdict = "accepted" /\ Listed(draft, mail)  BY <2>3 DEF Poll
    <3>2. OnSuccessFits(draft)
      BY <1>1, <3>1 DEF AInv, Valid, validate_email_trigger
    <3>3. ASSUME Unseen(draft) PROVE fired = 0 /\ mail' # "unread"
      <4>1. mail = "unread"  BY <3>1, <3>3 DEF Listed
      <4>2. fired = 0  BY <1>4, <3>3, <4>1 DEF MailInv
      <4>3. OnSuccess(draft) \in {"mark_seen", "move"}
        BY <3>2, <3>3 DEF OnSuccessFits
      <4>4. After(draft, mail) \in {"read", "moved"}  BY <4>3 DEF After
      <4> QED  BY <2>3, <4>2, <4>4
    <3>4. fired \in Nat  BY <1>4 DEF MailInv
    <3>5. fired' \in Nat  BY <2>3, <3>4
    <3> QED  BY <2>3, <3>1, <3>3, <3>5 DEF MailInv
  <2> QED  BY <2>1, <2>2, <2>3 DEF Poll
<1> QED  BY <1>1, <1>2, <1>3, <1>5 DEF AInv

LEMMA RunningInv ==
  ASSUME AInv, Running
  PROVE  AInv'
<1>1. CASE Provision  BY <1>1, AInvFrame DEF Provision
<1>2. CASE Withdraw  BY <1>2, AInvFrame DEF Withdraw
<1>3. CASE \E op \in {"request", "stream"}, input \in HttpInputs : InvokeHttp(op, input)
  <2>1. PICK op, input : InvokeHttp(op, input)  BY <1>3
  <2> QED  BY <2>1, AInvFrame DEF InvokeHttp
<1>4. CASE Respond  BY <1>4, AInvFrame DEF Respond
<1>5. CASE TimeOut  BY <1>5, AInvFrame DEF TimeOut
<1>6. CASE Poll \/ ReadByPerson  BY <1>6, MailboxInv
<1>7. CASE \E decodes \in BOOLEAN, op \in Ops : InvokeNode(op, decodes)
  <2>1. PICK op, decodes : InvokeNode(op, decodes)  BY <1>7
  <2> QED  BY <2>1, AInvFrame DEF InvokeNode
<1> QED  BY <1>1, <1>2, <1>3, <1>4, <1>5, <1>6, <1>7 DEF Running

-----------------------------------------------------------------------------
(* The invariant holds throughout.                                         *)

LEMMA InitAInv ==
  ASSUME Init
  PROVE  AInv
<1>1. /\ kind \in {"http", "schedule", "webhook", "email", "setup"}
      /\ steps = 0 /\ edits = 0 /\ verdict = "none" /\ reading = {} /\ told = <<>>
      /\ mail = "unread" /\ fired = 0
      /\ kind = "setup" => node \in DOMAIN Setup!Nodes \union {"http"}
  BY KindsAssumption DEF Init
<1>2. /\ kind = "http" => draft = NoNode
      /\ kind = "schedule" => draft = NoSchedule
      /\ kind = "webhook" => draft = Hook!NoTrigger
      /\ kind = "setup" => draft = IF node = "http" THEN Default ELSE Setup!NoConfig
  BY DEF Init
<1>3. kind = "http" => HttpInv(draft, edits)  BY <1>2, Shapes DEF HttpInv
<1>4. kind = "schedule" => ScheduleInv(draft, edits, wish, reading)
  <2>1. /\ NoSchedule.timezone = "none" /\ NoSchedule.cron = FALSE
        /\ NoSchedule.trigger_id = "absent" /\ NoSchedule.enabled = "absent"
        /\ NoSchedule.expr = {}
    BY DEF NoSchedule
  <2> QED  BY <1>1, <1>2, <2>1 DEF ScheduleInv
<1>5. kind = "webhook" => WebhookInv(draft, edits)
  <2>1. Suggested(Hook!NoTrigger)  BY DEF Suggested, Hook!NoTrigger
  <2> QED  BY <1>2, <2>1 DEF WebhookInv
<1>6. kind = "email" => MailInv(draft, verdict, mail, fired)  BY <1>1 DEF MailInv
<1>7. kind = "setup" => SetupInv(node, draft, told)
  BY <1>1, <1>2 DEF SetupInv
<1>8. kind = "setup" => InForceOf(node, draft, told)
  <2>1. Loads(Default)
    BY TimeoutAssumption DEF Loads, Default, Absent, Wrong, NoTime, BadTime
  <2>2. \A f : GivenIn(<<>>, f) = {}  BY DEF GivenIn
  <2>3. kind = "setup" /\ node = "http" => InForceOf(node, draft, told)
    BY <1>1, <1>2, <2>1, <2>2 DEF InForceOf, LaidOver
  <2>4. DOMAIN Setup!NoConfig = {}  BY DEF Setup!NoConfig
  <2>5. kind = "setup" /\ node # "http" => InForceOf(node, draft, told)
    BY <1>1, <1>2, <2>4 DEF InForceOf, Setup!Loads
  <2> QED  BY <2>3, <2>5
<1>9. kind = "setup" => AnswersAreInForce  BY <1>8, InForceIs
<1> QED  BY <1>1, <1>3, <1>4, <1>5, <1>6, <1>7, <1>9 DEF AInv

LEMMA NextAInv ==
  ASSUME AInv, [Next]_vars
  PROVE  AInv'
<1>1. CASE Designing
  BY <1>1, HttpDesignInv, ScheduleDesignInv, WebhookDesignInv, JudgingInv DEF Designing
<1>2. CASE Answering  BY <1>2, AnsweringInv
<1>3. CASE Running  BY <1>3, RunningInv
<1>4. CASE UNCHANGED vars  BY <1>4, AInvFrame DEF vars
<1> QED  BY <1>1, <1>2, <1>3, <1>4 DEF Next

LEMMA Invariance == Spec => []AInv
<1>1. Init => AInv  BY InitAInv
<1>2. AInv /\ [Next]_vars => AInv'  BY NextAInv
<1> QED  BY <1>1, <1>2, PTL DEF Spec

-----------------------------------------------------------------------------
(* An accepted email trigger deals with a message once, whichever order    *)
(* the poll, the flow and a person that reads the mail come in: what       *)
(* validate_email_trigger lets an `unseen` trigger do on success takes the *)
(* message out of what the next poll lists.                                *)
THEOREM MessageIsDealtWithOnce == Spec => []MailIsDealtWithOnce
<1>1. AInv => MailIsDealtWithOnce  BY DEF AInv, MailInv, MailIsDealtWithOnce
<1> QED  BY <1>1, Invariance, PTL

(* Whatever is answered, in whatever mode and however often, a component   *)
(* runs with the answers its apply_answers promises to keep: those of the  *)
(* last setup for a builder, the first for pack2flow and sorx-business,    *)
(* the last answer to each question for component-http, none for a tool.   *)
THEOREM SetupKeepsItsAnswers == Spec => []AnswersAreInForce
<1>1. AInv => AnswersAreInForce  BY DEF AInv, AnswersAreInForce
<1> QED  BY <1>1, Invariance, PTL

(* The tools of an extension and its validator agree: a draft no hand has  *)
(* touched is never rejected, in whatever order the tools were called and  *)
(* for every intent, command, preset and phrase; and a schedule is read    *)
(* back as suggest_cron announced it.                                      *)
THEOREM SuggestionsAreAccepted == Spec => []SuggestionsAddUp
<1>1. ASSUME AInv PROVE SuggestionsAddUp
  <2> SUFFICES ASSUME edits = 0, Complete
               PROVE  /\ verdict # "rejected"
                      /\ reading # {} => reading = wish.rationale \/ reading = {Neutral}
    BY DEF SuggestionsAddUp
  <2>1. verdict = "rejected" => ~ Valid  BY <1>1 DEF AInv
  <2>2. kind # "schedule" => reading = {}  BY <1>1 DEF AInv
  <2>3. CASE kind = "http"
    <3>1. draft # NoNode /\ draft.config.base_url \in Schemed  BY <2>3 DEF Complete
    <3>2. Usable(draft.config)  BY <1>1, <2>3, <3>1 DEF AInv, HttpInv
    <3>3. validate_content("http-node", draft.config)  BY <3>1, <3>2, UsableIsAccepted
    <3> QED  BY <2>1, <2>2, <2>3, <3>3 DEF Valid
  <2>4. CASE kind = "schedule"
    <3>1. ScheduleInv(draft, edits, wish, reading) /\ draft.expr # {}
      BY <1>1, <2>4 DEF AInv, Complete
    <3>2. Announced(draft, wish)  BY <3>1 DEF ScheduleInv
    <3>3. /\ validate_cron(draft)
          /\ reading # {} => reading = wish.rationale \/ reading = {Neutral}
      BY <3>1, <3>2, AnnouncedIsAccepted
    <3> QED  BY <2>1, <2>4, <3>3 DEF Valid
  <2>5. CASE kind = "webhook"
    <3>1. /\ draft.verify # {} /\ UNION draft.methods \subseteq Hook!AllowedMethods
          /\ Suggested(draft)
      BY <1>1, <2>5 DEF AInv, WebhookInv, Complete
    <3>2. Hook!validate_webhook_config(draft)  BY <3>1, SuggestedIsAccepted
    <3> QED  BY <2>1, <2>2, <2>5, <3>2 DEF Valid
  <2> QED  BY <2>3, <2>4, <2>5 DEF Complete
<1> QED  BY <1>1, Invariance, PTL

(* A node that was accepted with a way to authenticate makes no request    *)
(* without the credential, whatever the store holds by then and whatever   *)
(* was edited before it was accepted: what validate.rs asks for is what    *)
(* request.rs puts in, each with defaults of its own.                      *)
THEOREM RequestsAuthenticate == Spec => AcceptedNodeAuthenticates
<1> DEFINE Authentic ==
       kind = "http" /\ request' # request /\ request'.ok
         /\ draft.config.auth_type \notin {Absent, "none"} =>
           \E c \in request'.credentials :
              [form |-> c.form, value |-> c.value] = Credential(draft.config)
<1>1. ASSUME AInv, [Next]_vars PROVE [Authentic]_vars
  <2> SUFFICES ASSUME kind = "http", request' # request, request'.ok,
                      draft.config.auth_type \notin {Absent, "none"}
               PROVE  \E c \in request'.credentials :
                        [form |-> c.form, value |-> c.value] = Credential(draft.config)
    OBVIOUS
  <2>1. PICK op, input : InvokeHttp(op, input)
    BY <1>1
    DEF vars, Next, Designing, Answering, SetUp, Running,
        GenerateHttp, ImportCurl, FromCard, SuggestAuth, EditHttp, SuggestCron,
        EditSchedule, SuggestVerification, InferAuth, SuggestPath, EditWebhook,
        Describe, Validate, ByTool, ByHand, Draft, Provision, Withdraw, Respond,
        TimeOut, Poll, ReadByPerson, InvokeNode
  <2>2. /\ verdict = "accepted"
        /\ request' = Request(draft.config, input, store)
    BY <2>1 DEF InvokeHttp, Config
  <2>3. validate_content("http-node", draft.config)
    BY <1>1, <2>2 DEF AInv, Valid
  <2>4. DOMAIN draft.config = DOMAIN Default  BY <1>1 DEF AInv, HttpInv
  <2>5. PICK c \in request'.credentials :
          /\ c.form = draft.config.auth_type
          /\ c.value = IF IsRef(draft.config.auth_token)
                       THEN store[draft.config.auth_token] ELSE Literal
    BY <2>2, <2>3, <2>4, AcceptedAuthenticates
  <2> QED  BY <2>5 DEF Credential
<1> QED  BY <1>1, Invariance, PTL DEF Spec, AcceptedNodeAuthenticates
============================================================================
