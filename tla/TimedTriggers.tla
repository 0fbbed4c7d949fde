---------------------------- MODULE TimedTriggers ---------------------------
(***************************************************************************)
(* The designer's triggers that go by the clock: the schedule extension    *)
(* and the email trigger extension.                                        *)
(*                                                                         *)
(* Schedule: suggest_cron turns a phrase into a cron expression,           *)
(* describe_schedule reads an expression back in words, and validate_cron  *)
(* says whether the runtime takes a trigger.  What an expression means is  *)
(* the cron crate's business (0.16, Cargo.lock).  An expression is its     *)
(* five fields; a field is any value, one value, every n-th value or a     *)
(* range of values.  Hours and minutes are scaled.                         *)
(*                                                                         *)
(* Email: a validator, and the mailbox that an accepted trigger polls (the *)
(* host is external: it reads the fields the validator's messages name).   *)
(* A configuration is what is written for each field; "default" stands for *)
(* one that is absent, null, or blank where the code takes a text.         *)
(***************************************************************************)
EXTENDS Integers, Sequences, FiniteSets, SequencesExt, FiniteSetsExt

CONSTANTS
  Minutes,          \* how many minutes an hour has, scaled
  Hours,            \* how many hours a day has, scaled; half of them before noon
  MonthDays,        \* how many days the longest month has, scaled
  FirstDay          \* the number the cron crate gives to Sunday

ASSUME ClockAssumption == Minutes \in Nat \ {0} /\ Hours \in {2 * n : n \in 1..12}
ASSUME MonthAssumption == MonthDays \in Nat \ {0}
ASSUME FirstDayAssumption == FirstDay \in {0, 1}

Star       == <<"any">>
At(n)      == <<"at", n>>
Every(n)   == <<"every", n>>
Span(a, b) == <<"span", a, b>>

Cron(m, h, dom, dow) == [minute |-> m, hour |-> h, dom |-> dom, dow |-> dow]

(* The days of the week, by the numbers this extension has for them.       *)
Sunday == 0
Week   == 0..6

----------------------------------------------------------------------------
(* The cron crate.                                                         *)

Fits(field, first, last) ==
  CASE field[1] = "any"   -> TRUE
    [] field[1] = "at"    -> field[2] \in first..last
    [] field[1] = "every" -> field[2] > 0
    [] field[1] = "span"  -> first <= field[2] /\ field[2] <= field[3] /\ field[3] <= last

(* parse: five fields get a seconds field in front, and the crate reads    *)
(* them.                                                                   *)
Parses(cron) ==
  /\ Fits(cron.minute, 0, Minutes - 1)
  /\ Fits(cron.hour, 0, Hours - 1)
  /\ Fits(cron.dom, 1, MonthDays)
  /\ Fits(cron.dow, FirstDay, FirstDay + 6)

Takes(field, n, first) ==
  CASE field[1] = "any"   -> TRUE
    [] field[1] = "at"    -> n = field[2]
    [] field[1] = "every" -> (n - first) % field[2] = 0
    [] field[1] = "span"  -> n \in field[2]..field[3]

(* next_fire_times, a week of them: the days, and the times of a day.      *)
FiresOn(cron) == {d \in Week : Takes(cron.dow, d + FirstDay, FirstDay)}
FiresAt(cron) == {t \in (0..Hours - 1) \X (0..Minutes - 1) :
                    Takes(cron.hour, t[1], 0) /\ Takes(cron.minute, t[2], 0)}

----------------------------------------------------------------------------
(* suggest_cron.  A phrase is what the code recognises in it:              *)
(*   step, unit   "every 15 minutes": the number and the unit after it     *)
(*   pace         "every minute"; "hourly", "every hour"                   *)
(*   at           the word after " at ": a number, or hours and minutes,   *)
(*                each with am or pm or neither; minutes past              *)
(*   days         the days named, or "weekday", "working day"              *)
(*   month, dom   "month", and a day of it                                 *)
(*   daily        "daily", "every day", "each day"                         *)
(*   zone         the zone the caller gave, or else a place it names       *)

minute_past(at) ==
  CASE at[1] \in {"number", "past"} /\ at[2] < Minutes -> {at[2]}
    [] OTHER -> {}

Noon == Hours \div 2

Clock == {"clock", "clock am", "clock pm"}

(* An hour after noon is moved into the afternoon; twelve at night is 0.   *)
OnTheClock(h, form) ==
  CASE form \in {"pm", "clock pm"} /\ h < Noon -> h + Noon
    [] form \in {"am", "clock am"} /\ h = Noon -> 0
    [] OTHER                                   -> h

time_of_day(at) ==
  LET hour   == IF at[1] \in {"number", "am", "pm"} \union Clock
                THEN OnTheClock(at[2], at[1]) ELSE Hours
      minute == IF at[1] \in Clock THEN at[3] ELSE 0
  IN IF hour < Hours /\ minute < Minutes THEN {<<hour, minute>>} ELSE {}

Or(found, n) == IF found = {} THEN n ELSE CHOOSE m \in found : TRUE

(* What is written, with its rationale: [says, of, hour, minute].          *)
Says(what, of, h, m) == [says |-> what, of |-> of, hour |-> h, minute |-> m]
Match(cron, rationale) == {[expr |-> cron, rationale |-> rationale]}

Paced(phrase) ==
  LET past == Or(minute_past(phrase.at), 0)
  IN CASE phrase.unit = "minute" ->
            Match(Cron(Every(phrase.step), Star, Star, Star),
                  Says("minutes", phrase.step, 0, 0))
       [] phrase.unit = "hour" ->
            Match(Cron(At(past), Every(phrase.step), Star, Star),
                  Says("hours", phrase.step, 0, past))
       [] phrase.unit = "none" /\ phrase.pace = "minute" ->
            Match(Cron(Star, Star, Star, Star), Says("every minute", 0, 0, 0))
       [] phrase.unit = "none" /\ phrase.pace = "hour" ->
            Match(Cron(At(past), Star, Star, Star), Says("hourly", 0, 0, past))
       [] OTHER -> {}

(* Everything else needs a time of day.                                    *)
Daily(phrase) ==
  UNION {LET h == t[1]
             m == t[2]
             On(dow) == Cron(At(m), At(h), Star, dow)
         IN CASE phrase.days = "weekdays" ->
                   Match(On(Span(1, 5)), Says("days", <<1, 5>>, h, m))
              [] phrase.days = "named" ->
                   LET day == Min(phrase.named)
                   IN Match(On(At(day)), Says("days", <<day, day>>, h, m))
              [] phrase.days = "none" /\ phrase.month ->
                   LET dom == IF phrase.dom = 0 THEN 1 ELSE phrase.dom
                   IN Match(Cron(At(m), At(h), At(dom), Star), Says("month", dom, h, m))
              [] phrase.days = "none" /\ ~ phrase.month /\ phrase.daily ->
                   Match(On(Star), Says("daily", 0, h, m))
              [] OTHER -> {}
         : t \in time_of_day(phrase.at)}

match_expression(phrase) ==
  IF Paced(phrase) # {} THEN Paced(phrase) ELSE Daily(phrase)

(* A zone that is given is taken before one that is guessed, and must be   *)
(* one that chrono_tz knows; the places in ZONE_HINTS all are.             *)
Zone(phrase) == IF phrase.zone # "none" THEN phrase.zone ELSE phrase.place
Zones == {"local", "UTC"}

Refusal   == [ok |-> FALSE, suggestions |-> {}, zone |-> "none"]
suggest_cron(phrase) ==
  IF \/ Zone(phrase) \notin Zones \union {"none"}
     \/ \E s \in match_expression(phrase) : ~ Parses(s.expr)
  THEN Refusal
  ELSE [ok |-> TRUE, suggestions |-> match_expression(phrase), zone |-> Zone(phrase)]

(* The days the author named.                                              *)
DaysMeant(phrase) ==
  CASE phrase.days = "weekdays" -> 1..5
    [] phrase.days = "named"    -> phrase.named
    [] OTHER                    -> Week

----------------------------------------------------------------------------
(* describe_schedule: prose for the common shapes, for the others the      *)
(* expression itself; nothing is said of an expression that is refused.    *)

weekdays(dow) ==
  CASE dow[1] = "at"   -> <<dow[2] % 7, dow[2] % 7>>
    [] dow[1] = "span" -> <<dow[2] % 7, dow[3] % 7>>
    [] OTHER           -> <<>>

Neutral == Says("the expression", 0, 0, 0)

summarize(cron) ==
  LET every_day == cron.dom = Star /\ cron.dow = Star
      fixed     == cron.minute[1] = "at" /\ cron.hour[1] = "at"
  IN CASE every_day /\ fixed -> Says("daily", 0, cron.hour[2], cron.minute[2])
       [] ~ every_day /\ fixed /\ cron.dom = Star /\ weekdays(cron.dow) # <<>> ->
            Says("days", weekdays(cron.dow), cron.hour[2], cron.minute[2])
       [] fixed /\ cron.dow = Star /\ cron.dom[1] = "at" ->
            Says("month", cron.dom[2], cron.hour[2], cron.minute[2])
       [] every_day /\ cron.hour = Star /\ cron.minute[1] = "at" ->
            Says("hourly", 0, 0, cron.minute[2])
       [] every_day /\ cron.hour = Star /\ cron.minute[1] = "every" ->
            Says("minutes", cron.minute[2], 0, 0)
       [] every_day /\ cron.hour[1] = "every" /\ cron.minute[1] = "at" ->
            Says("hours", cron.hour[2], 0, cron.minute[2])
       [] OTHER -> Neutral

describe_schedule(cron, zone) ==
  IF Parses(cron) /\ zone \in Zones \union {"none"} THEN {summarize(cron)} ELSE {}

----------------------------------------------------------------------------
(* validate_cron.  A configuration: the expression, in a set that is empty *)
(* when there is none or it is not a text; the zone; whether the fields    *)
(* are nested in a `cron` block; and the id and the switch, each of which  *)
(* may be absent, right or wrong.                                          *)

ScheduleErrors(config) ==
  {field \in {"expr", "timezone", "trigger_id", "enabled", "cron"} :
     CASE field = "expr"     -> ~ \E cron \in config.expr : Parses(cron)
       [] field = "timezone" -> config.timezone \notin Zones \union {"none"}
       [] field = "cron"     -> config.cron /\ config.expr = {}
       [] OTHER              -> config[field] = "wrong"}

validate_cron(config) == ScheduleErrors(config) = {}

----------------------------------------------------------------------------
(* The email trigger.                                                      *)

(* Texts that IMAP can quote, that it cannot, and none.                    *)
Texts == {"default", "safe", "unsafe"}

check_safe_text(text, required) ==
  text # "unsafe" /\ (required => text # "default")

(* A number is right, wrong (out of its range or not a whole number) or    *)
(* left to the host.                                                       *)
check_range(number) == number # "wrong"

Unseen(config) == config.unseen # "false"     \* also when it is not a Boolean
OnSuccess(config) == IF config.on_success = "default" THEN "mark_seen" ELSE config.on_success

\* Mutant: nothing is done with unread mail, and it is listed for ever.
NoneAlwaysFits(config) == OnSuccess(config) \in {"mark_seen", "none"}

OnSuccessFits(config) ==
  CASE OnSuccess(config) = "mark_seen" -> TRUE
    [] OnSuccess(config) = "none"      -> ~ Unseen(config)
    [] OnSuccess(config) = "move"      -> check_safe_text(config.move_to, TRUE)
    [] OTHER                           -> FALSE

validate_email_trigger(config) ==
  /\ config.host = "safe"
  /\ config.tls \in {"default", "tls", "starttls"}
  /\ check_range(config.numbers)      \* port, interval, messages, bytes
  /\ check_safe_text(config.mailbox, FALSE)
  /\ check_safe_text(config.username, TRUE)
  /\ config.password_ref = "reference"
  /\ config.unseen # "wrong"
  /\ check_safe_text(config.search, FALSE)       \* from, subject
  /\ OnSuccessFits(config)
  /\ config.switches # "wrong"        \* include_html, attachments, trigger_id, enabled

----------------------------------------------------------------------------
(* The mailbox.  A message is "unread", "read", or "moved" elsewhere.      *)

Listed(config, message) ==
  IF Unseen(config) THEN message = "unread" ELSE message # "moved"

(* What becomes of a message that the flow was started for.                *)
After(config, message) ==
  CASE OnSuccess(config) = "mark_seen" -> "read"
    [] OnSuccess(config) = "move"      -> "moved"
    [] OTHER                           -> message
=============================================================================
