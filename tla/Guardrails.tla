----------------------------- MODULE Guardrails -----------------------------
(***************************************************************************)
(* The five guardrails a conversation may pass on its way in and on its    *)
(* way out: three mask, two refuse, and the one for personal data does     *)
(* both.  Each sees the text the one before it left.                       *)
(*                                                                         *)
(* A text is a sequence of pieces that the code tells apart:               *)
(*   gap       white space                                                 *)
(*   word      letters of no interest        damn, heck  words of a list   *)
(*   punct     an exclamation mark, a comma  Damn        damn, capitalised *)
(*   dot       a full stop or a hyphen       mail        a whole address   *)
(*   short     four digits                   number      seven digits      *)
(*   key       a secret known by its prefix  akia        AKIA and 16 more  *)
(*   about     a keyword of the topic        banned      a blocked entry   *)
(*   attack    an injected phrase            paren       a parenthesis     *)
(* and what the masks put in their place: stars, [mail], [phone], [key].   *)
(* Two addresses never run together (mask_emails would garble them), and   *)
(* a plus, an underscore and a PEM block are left out.                     *)
(***************************************************************************)
EXTENDS Integers, Sequences, FiniteSets, SequencesExt

Pieces ==
  {"gap", "word", "damn", "Damn", "heck", "punct", "paren", "dot", "mail", "short",
   "number", "key", "akia", "about", "banned", "attack", "stars", "[mail]", "[phone]", "[key]"}

(* What an operator configures; PROFANITY is built in.                     *)
Policy(extra, blocklist, keywords) ==
  [extra_blocklist |-> extra, blocklist |-> blocklist, allowed_keywords |-> keywords]

(* The words an operator may list.                                         *)
Listed == {"word", "damn", "Damn", "heck", "about", "banned", "attack"}

Accept       == [verdict |-> "accept"]
Update(text) == [verdict |-> "update", text |-> text]
Deny         == [verdict |-> "deny"]

Occurs(piece, text) == Contains(text, piece)

\* str::to_lowercase
Lower(piece) == IF piece = "Damn" THEN "damn" ELSE piece

(* Leading and trailing members of `which` are cut off.                    *)
Trimmed(token, which) ==
  LET inner == {i \in DOMAIN token : token[i] \notin which}
  IN IF inner = {} THEN <<>> ELSE SubSeq(token, Min(inner), Max(inner))

(* str::split_whitespace: where a word begins, the word that begins there, *)
(* and all of them.                                                        *)
Begins(text, i) == text[i] # "gap" /\ (i = 1 \/ text[i - 1] = "gap")
Word(text, i) ==
  SubSeq(text, i, Max({j \in i..Len(text) : \A k \in i..j : text[k] # "gap"}))
Words(text) == {Word(text, i) : i \in {i \in DOMAIN text : Begins(text, i)}}

(* What begins at i and ends at ends[i] gives way to `new`, from the left; *)
(* where ends[i] is 0 nothing does.                                        *)
Rewritten(text, ends, new) ==
  LET from[i \in 1..Len(text) + 1] ==
        IF i > Len(text) THEN <<>>
        ELSE IF ends[i] # 0 THEN new \o from[ends[i] + 1]
        ELSE <<text[i]>> \o from[i + 1]
  IN from[1]

(* str::replace: every occurrence, also inside a word.                     *)
Replaced(text, token, new) ==
  Rewritten(text,
            [i \in DOMAIN text |-> IF IsPrefix(token, SubSeq(text, i, Len(text)))
                                   THEN i + Len(token) - 1 ELSE 0],
            new)

(* One after another old[1], old[2], ... give way to new[1], new[2], ...   *)
(* wherever they occur then; those that are empty are left out.            *)
InTurn(text, old, new) ==
  LET upto[i \in 0..Len(old)] ==
        IF i = 0 THEN text
        ELSE IF old[i] = <<>> THEN upto[i - 1]
        ELSE Replaced(upto[i - 1], old[i], new[i])
  IN upto[Len(old)]

----------------------------------------------------------------------------
(* guardrail-profanity: a word counts by its core, without the marks       *)
(* around it and in any case; its letters and digits become stars, there   *)
(* and where it occurs in the same case.                                   *)

PROFANITY == {"damn"}
Profane(extra) == {p \in Pieces : Lower(p) \in PROFANITY \union {Lower(w) : w \in extra}}
Marks     == {"punct", "paren", "dot", "stars"}

mask_token(token) ==
  [i \in DOMAIN token |-> IF token[i] \in Marks THEN token[i] ELSE "stars"]

mask_profanity(text, extra) ==
  LET profane(token) == \E w \in Profane(extra) : Trimmed(token, Marks) = <<w>>
      hits == [i \in DOMAIN text |->
                 IF Begins(text, i) /\ profane(Word(text, i)) THEN Word(text, i) ELSE <<>>]
  IN InTurn(text, hits, [i \in DOMAIN text |-> mask_token(hits[i])])

----------------------------------------------------------------------------
(* guardrail-secrets: a token that begins like a provider's key, or is a   *)
(* key of a fixed length, wherever it occurs.  A full stop or a hyphen     *)
(* stays with the token.                                                   *)

Keys  == {"key", "akia"}
Edges == {"punct", "paren", "stars"}

is_secret_token(token) == (token # <<>> /\ token[1] = "key") \/ token = <<"akia">>

\* Mutant: a secret is replaced where it was found first.
MasksTheFirst(text) ==
  IF \E token \in Words(text) : is_secret_token(Trimmed(token, Edges))
  THEN [text EXCEPT ![SelectInSeq(text, LAMBDA p : p \in Keys)] = "[key]"]
  ELSE text

mask_secrets(text) ==
  LET core(i) == Trimmed(Word(text, i), Edges)
      hits == [i \in DOMAIN text |->
                 IF Begins(text, i) /\ is_secret_token(core(i)) THEN core(i) ELSE <<>>]
  IN InTurn(text, hits, [i \in DOMAIN text |-> <<"[key]">>])

----------------------------------------------------------------------------
(* guardrail-pii.  An address takes in the letters, digits and dots around *)
(* it.  Digits, spaces, dots and parentheses make a phone number when      *)
(* there are seven digits, no digit, dot or parenthesis precedes them, and *)
(* no letter follows the last digit; what is in front of it goes with it.  *)

Digits        == {"number", "short"}
Attaching     == {"dot", "paren"}        \* is_phone_attaching_sep
Dial          == Digits \union Attaching \union {"gap"}
Alphabetic    == {"word", "damn", "Damn", "heck", "about", "banned", "attack", "mail"}
                   \union Keys
Local         == Alphabetic \union Digits \union {"dot"}

digit_count(text) ==
  7 * Cardinality({i \in DOMAIN text : text[i] = "number"})
    + 4 * Cardinality({i \in DOMAIN text : text[i] = "short"})

mask_emails(text) ==
  LET run(i) == {j \in i..Len(text) : \A k \in i..j : text[k] \in Local}
  IN Rewritten(text,
               [i \in DOMAIN text |-> IF \E j \in run(i) : text[j] = "mail"
                                      THEN Max(run(i)) ELSE 0],
               <<"[mail]">>)

(* Where a number that starts at i ends: 0 when there is none.             *)
try_match_phone(text, i) ==
  LET run    == {j \in i..Len(text) : \A k \in i..j : text[k] \in Dial}
      digits == {j \in run : text[j] \in Digits}
  IN IF \/ i > 1 /\ text[i - 1] \in Digits \union Attaching
        \/ digits = {}
        \/ digit_count(SubSeq(text, i, Max(digits))) < 7
        \/ Max(digits) < Len(text) /\ text[Max(digits) + 1] \in Alphabetic
     THEN 0 ELSE Max(digits)

mask_phones(text) ==
  Rewritten(text, [i \in DOMAIN text |-> try_match_phone(text, i)], <<"[phone]">>)

mask_pii(text) == mask_phones(mask_emails(text))

find_blocklist_match(text, blocklist) == \E w \in blocklist : Occurs(w, text)

----------------------------------------------------------------------------
(* The two that refuse look at what comes in; a short message, or none     *)
(* configured, is on topic.                                                *)

MinCheckLen == 3          \* MIN_CHECK_LEN, in pieces

off_topic(text, allowed) ==
  /\ allowed # {}
  /\ Len(Trimmed(text, {"gap"})) >= MinCheckLen
  /\ ~ \E w \in allowed, piece \in ToSet(text) : Lower(w) = Lower(piece)

injection_match(text) == Occurs("attack", text)

----------------------------------------------------------------------------
Masks(text, masked) == IF masked = text THEN Accept ELSE Update(masked)

evaluate(guardrail, direction, text, policy) ==
  CASE guardrail = "pii" ->
         IF find_blocklist_match(text, policy.blocklist) THEN Deny
         ELSE Masks(text, mask_pii(text))
    [] guardrail = "profanity" ->
         Masks(text, mask_profanity(text, policy.extra_blocklist))
    [] guardrail = "secrets"   -> Masks(text, mask_secrets(text))
    [] guardrail = "topic"     ->
         IF direction = "inbound" /\ off_topic(text, policy.allowed_keywords)
         THEN Deny ELSE Accept
    [] guardrail = "injection" ->
         IF direction = "inbound" /\ injection_match(text) THEN Deny ELSE Accept
=============================================================================
