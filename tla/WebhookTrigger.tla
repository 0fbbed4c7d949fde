--------------------------- MODULE WebhookTrigger ---------------------------
(***************************************************************************)
(* The designer's webhook extension: three tools that write parts of a     *)
(* trigger's configuration, for a known sender, from a curl command or     *)
(* from an intent, and the validator of the whole.                         *)
(*                                                                         *)
(* A configuration has every field of the contract; one that is not        *)
(* written is {}, else the set of its value.                               *)
(***************************************************************************)
EXTENDS Integers, Sequences, FiniteSets, SequencesExt

CONSTANTS
  MaxBody,          \* MAX_BODY_BYTES, scaled
  MaxTtl,           \* MAX_IDEMPOTENCY_TTL_S, scaled
  MaxId             \* the length a trigger id may have, scaled

AllowedMethods == {"POST", "PUT", "PATCH", "GET"}
Schemes        == {"hmac-sha256", "hmac-sha1", "bearer", "none"}
Hmac           == {"hmac-sha256", "hmac-sha1"}

Verify(scheme, header, encoding, ref) ==
  [scheme |-> scheme, header |-> header, encoding |-> encoding, secret_ref |-> ref]
Unverified == Verify("none", FALSE, "hex", "none")

NoTrigger == [trigger_id |-> {}, methods |-> {}, verify |-> {}, challenge |-> {},
              idempotency |-> {}, max_body_bytes |-> {}, old |-> FALSE]

----------------------------------------------------------------------------
(* validate_webhook_config.  A reference names a secret (provider/key); a  *)
(* pasted value does not, and an absent one is an error too.  An id is     *)
(* its length and whether it is made of the characters of a path segment.  *)

is_valid_secret_ref(ref) == ref = "reference"
is_valid_trigger_id(id)  == id.proper /\ id.length \in 1..MaxId

(* The methods in force, which the challenge is checked against.           *)
Methods(config) ==
  IF config.methods = {} THEN {"POST"}
  ELSE {m \in UNION config.methods : m \in AllowedMethods}

VerifyErrors(verify) ==
  IF verify.scheme \notin Schemes THEN {"unsupported-scheme"}
  ELSE IF verify.scheme = "none" THEN {}
  ELSE {e \in {"missing-header", "bad-encoding", "secret_ref"} :
          CASE e = "missing-header" -> verify.scheme \in Hmac /\ ~ verify.header
            [] e = "bad-encoding"   -> verify.encoding \notin {"hex", "base64", "none"}
            [] e = "secret_ref"     -> ~ is_valid_secret_ref(verify.secret_ref)}

ChallengeErrors(challenge, methods) ==
  {e \in {"unsupported-scheme", "verify_token_ref", "get-fires"} :
     CASE e = "unsupported-scheme" -> challenge.scheme # "meta_hub"
       [] e = "verify_token_ref"   -> ~ is_valid_secret_ref(challenge.verify_token_ref)
       [] e = "get-fires"          -> "GET" \in methods}

IdempotencyErrors(idempotency) ==
  {e \in {"bad-key", "bad-ttl"} :
     CASE e = "bad-key" -> idempotency.key \notin {"header", "query", "body"}
       [] e = "bad-ttl" -> idempotency.ttl_s # {} /\ idempotency.ttl_s \intersect (1..MaxTtl) = {}}

is_pre_contract(config) == config.verify = {} /\ config.old

WebhookErrors(config) ==
  {field \in {"old", "trigger_id", "methods", "verify", "challenge", "idempotency",
              "max_body_bytes"} :
     CASE field = "old"        -> is_pre_contract(config)
       [] field = "trigger_id" -> \E id \in config.trigger_id : ~ is_valid_trigger_id(id)
       [] field = "methods"    -> \E ms \in config.methods : ~ (ms \subseteq AllowedMethods)
       [] field = "verify"     -> \/ config.verify = {}
                                  \/ \E v \in config.verify : VerifyErrors(v) # {}
       [] field = "challenge"  ->
            \E c \in config.challenge : ChallengeErrors(c, Methods(config)) # {}
       [] field = "idempotency" ->
            \E i \in config.idempotency : IdempotencyErrors(i) # {}
       [] field = "max_body_bytes" ->
            \E n \in config.max_body_bytes : n \notin 1..MaxBody}

validate_webhook_config(config) == WebhookErrors(config) = {}

----------------------------------------------------------------------------
(* suggest_verification: what a known sender signs with; the others get a  *)
(* shared token.  The two that sign a timestamp are refused.  The name of  *)
(* the sender goes into the reference, made fit for it.                    *)

suggest_verification(provider, config) ==
  CASE provider = "meta" ->
         {[config EXCEPT !.verify = {Verify("hmac-sha256", TRUE, "hex", "reference")},
                         !.challenge = {[scheme |-> "meta_hub",
                                         verify_token_ref |-> "reference"]},
                         !.methods = {{"POST"}}]}
    [] provider = "github" ->
         {[config EXCEPT !.verify = {Verify("hmac-sha256", TRUE, "hex", "reference")},
                         !.idempotency = {[key |-> "header", ttl_s |-> {}]},
                         !.methods = {{"POST"}}]}
    [] provider \in {"slack", "stripe"} -> {}
    [] provider = "other" ->
         {[config EXCEPT !.verify = {Verify("bearer", TRUE, "none", "reference")},
                         !.methods = {{"POST"}}]}

(* infer_auth_from_curl, header by header: a bearer token counts until     *)
(* something else has been found, a signature replaces what was found, and *)
(* the signatures with a timestamp are passed over.                        *)
Inferred(headers) ==
  LET signed == SelectLastInSeq(headers, LAMBDA h : h \in {"sha1", "sha256"})
      scheme == IF headers[signed] = "sha1" THEN "hmac-sha1" ELSE "hmac-sha256"
  IN IF signed # 0 THEN {Verify(scheme, TRUE, "hex", "reference")}
     ELSE IF Contains(headers, "bearer") THEN {Verify("bearer", TRUE, "none", "reference")}
     ELSE {Unverified}

\* Mutant: the method is taken over, whatever it is.
MethodAsCalled(curl, config) ==
  {[config EXCEPT !.verify = Inferred(curl.headers), !.methods = {{curl.method}}]}

infer_auth_from_curl(curl, config) ==
  {[config EXCEPT !.verify = Inferred(curl.headers),
                  !.methods = {{IF curl.method = "GET" THEN "POST" ELSE curl.method}}]}

(* suggest_path: the words of the intent, the noise left out when there    *)
(* are more than two, cut to the length of an id.                          *)
slugify(words) ==
  LET kept == IF Len(words) <= 2 THEN words ELSE SelectSeq(words, LAMBDA w : ~ w.noise)
      size == FoldLeft(LAMBDA n, w : n + w.length, 0, kept)
              + (IF kept = <<>> THEN 0 ELSE Len(kept) - 1)
  IN [proper |-> TRUE, length |-> IF size > MaxId THEN MaxId ELSE size]

suggest_path(words, config) ==
  IF is_valid_trigger_id(slugify(words))
  THEN {[config EXCEPT !.trigger_id = {slugify(words)}]} ELSE {}
=============================================================================
