----------------------------- MODULE MCAuthoring ----------------------------
(* Sittings at the designer and at the setup wizard, each with the inputs  *)
(* that its code tells apart.                                              *)
EXTENDS Authoring

MCSecrets == {"HTTP_TOKEN", "HTTP_BASIC", "API_TOKEN", "OTHER"}

Intent(words, methods, url, path) ==
  [words |-> words, methods |-> methods, url |-> url, path |-> path]
Context(hint, secrets) == [base_url_hint |-> hint, secret_names |-> secrets]

MCIntents ==
  {[intent |-> Intent(w, m, "https", "/v1"), context |-> Context(Absent, <<"OTHER">>)] :
     w \in {{}, {"bearer"}, {"api key", "basic auth"}, {"basic auth"}},
     m \in {{"POST"}, {"GET", "PATCH"}}}
  \union
  {[intent |-> Intent({"bearer"}, {}, u, Absent), context |-> Context(h, s)] :
     u \in {Absent, "https"}, h \in {Absent, "http", "other"},
     s \in {<<>>, <<"OTHER", "API_TOKEN">>}}

MCCurls ==
  [method : {Absent}, body : BOOLEAN, url : {"http"}, path : {"/"}, others : BOOLEAN,
   authorization : {<<>>, <<"bearer">>, <<"bearer", "basic">>, <<"digest">>}]
  \union
  [method : {"DELETE"}, body : {TRUE}, url : {"https"}, path : {"/"}, others : {FALSE},
   authorization : {<<"digest", "bearer">>}]

MCApis == {"github", "llm", "unheard of"}

MCHttpEdits ==
  ({"base_url"} \X {Absent, "other"}) \union
  ({"auth_type"} \X {Absent, Wrong, "none", "api_key", "basic", "oauth"}) \union
  ({"auth_token"} \X {Absent, Wrong, Literal, "OTHER"}) \union
  ({"api_key_header"} \X {Wrong, "X-Key"}) \union
  ({"timeout_ms"} \X {BadTime, 0, MaxTimeout + 1, MaxU32 + 1})

MCHttpInputs ==
  [url : {Absent, "https", "relative"}, endpoint : {Absent, "http"},
   method : {Absent}, body : {FALSE}] \union
  [url : {"relative"}, endpoint : {Absent}, method : {"PUT"}, body : {TRUE}]

MCResponses ==
  [status : {200, 500}, sse : BOOLEAN,
   lines : {<<>>, <<"data", "blank", "event", "data", "other">>,
            <<"json text", "blank", "json value", "other">>}]

Phrase(unit, step, pace, at, days, named, month, dom, daily, zone, place) ==
  [unit |-> unit, step |-> step, pace |-> pace, at |-> at, days |-> days,
   named |-> named, month |-> month, dom |-> dom, daily |-> daily, zone |-> zone,
   place |-> place]

Ats == {<<"none">>, <<"number", 2>>, <<"pm", 1>>, <<"am", 3>>, <<"past", 1>>,
        <<"clock", 1, 2>>, <<"clock pm", 1, 2>>, <<"clock am", 2, 1>>, <<"number", 9>>}

MCPhrases ==
  {Phrase(u[1], u[2], "none", at, "none", {}, FALSE, 0, FALSE, "none", "local") :
     u \in {<<"minute", 2>>, <<"minute", 9>>, <<"hour", 2>>, <<"hour", 0>>}, at \in Ats}
  \union
  {Phrase("none", 0, pace, at, "none", {}, FALSE, 0, FALSE, "UTC", "none") :
     pace \in {"minute", "hour"}, at \in Ats}
  \union
  {Phrase("none", 0, "none", at, d[1], d[2], month, dom, daily, zone, "local") :
     at \in Ats, d \in {<<"none", {}>>, <<"weekdays", {}>>, <<"named", {0}>>,
                        <<"named", {1}>>, <<"named", {6}>>},
     month \in BOOLEAN, dom \in {0, 3}, daily \in BOOLEAN, zone \in {"none", "nowhere"}}

MCCrons == {{}, {Cron(At(1), Star, Star, Star)}, {Cron(At(9), Star, Star, Star)},
            {Cron(At(1), At(2), Star, Span(1, 7))}}

MCProviders == {"meta", "github", "slack", "other"}

MCWebhookCurls ==
  [method : {"GET", "POST", "PUT", "DELETE"},
   headers : {<<>>, <<"bearer">>, <<"bearer", "sha1">>, <<"sha256", "bearer">>,
              <<"timestamped", "basic">>}]

Word(length, noise) == [length |-> length, noise |-> noise]
MCPathWords == {<<>>, <<Word(3, TRUE)>>, <<Word(2, TRUE), Word(1, TRUE), Word(1, TRUE)>>,
                <<Word(5, FALSE), Word(4, FALSE)>>}

MCWebhookEdits ==
  ({"verify"} \X {{Hook!Verify("bearer", TRUE, "none", "value")},
                  {Hook!Verify("hmac-sha1", FALSE, "binary", "reference")}, {}}) \union
  ({"methods"} \X {{{"GET"}}, {}}) \union
  ({"idempotency"} \X {{[key |-> "cookie", ttl_s |-> {}]}, {[key |-> "body", ttl_s |-> {MaxTtl + 1}]}}) \union
  ({"max_body_bytes"} \X {{0}, {MaxBody}}) \union
  ({"old"} \X {TRUE})

MCMailTriggers ==
  LET plain == [host |-> "safe", tls |-> "default", numbers |-> "default",
                mailbox |-> "default", username |-> "safe", password_ref |-> "reference",
                unseen |-> "default", search |-> "default", on_success |-> "default",
                move_to |-> "default", switches |-> "right"]
      vary(f, values) == {[plain EXCEPT ![f] = v] : v \in values}
  IN {[plain EXCEPT !.unseen = u, !.on_success = o, !.move_to = m] :
        u \in {"default", "true", "false", "wrong"}, m \in Texts,
        o \in {"default", "mark_seen", "none", "move", "delete"}}
     \union vary("host", {"default", "unsafe"}) \union vary("tls", {"starttls", "ssl"})
     \union vary("numbers", {"right", "wrong"}) \union vary("mailbox", Texts)
     \union vary("username", Texts) \union vary("password_ref", {"default", "value"})
     \union vary("search", Texts) \union vary("switches", {"default", "wrong"})

(* What is asked is answered in every way; what is not asked may be in a   *)
(* document of answers all the same.  The second turn has other values.    *)
Given(turn) == IF turn = 0 THEN "one" ELSE "two"

HttpAnswers(turn) ==
  [base_url : {Absent, IF turn = 0 THEN "http" ELSE "https"},
   auth_type : {Absent, "bearer", "oauth"}, timeout_ms : {BadTime, turn, MaxTimeout + turn},
   auth_token : {Absent}, api_key_header : {Absent}, default_headers : {Absent}]
  \union
  [base_url : {"http"}, auth_type : {"api_key"}, timeout_ms : {NoTime},
   auth_token : {Absent, IF turn = 0 THEN "HTTP_TOKEN" ELSE Literal},
   api_key_header : {Absent, "X-Key"}, default_headers : {Absent, Wrong}]

MCAnswers(n, turn) ==
  IF n = "http" THEN HttpAnswers(turn)
  ELSE LET entry == Setup!Nodes[n]
           values(f) == {Setup!Unset, Given(turn)} \union
                        IF f \in DOMAIN entry.asks THEN {"blank"} ELSE {"wrong"}
           fields == IF entry.setup.takes = "first" THEN {"any"}
                     ELSE DOMAIN entry.setup.fields
       IN {a \in [fields -> {Setup!Unset, Given(turn), "blank", "wrong"}] :
             \A f \in fields : a[f] \in values(f)}
=============================================================================
