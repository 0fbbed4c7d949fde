---------------------------- MODULE Translator -----------------------------
(***************************************************************************)
(* component-chat2data-translator: from a validated intent to a query.     *)
(*                                                                         *)
(* A filter (the intent's "where" or "having"), when it is an object, is   *)
(* the sequence of its conditions, in the order serde_json iterates.  A    *)
(* condition is a scalar, null, an object of operators, or an array.  The  *)
(* SQL is kept as its clauses; a clause is a keyword followed by the       *)
(* conditions written after it and the ANDs written between them, and a    *)
(* condition names the placeholders it uses by number.                     *)
(***************************************************************************)
EXTENDS Integers, Sequences, SequencesExt, Validator

CONSTANT UsizeSize   \* how many values a usize has: 2^32 in wasm32

ASSUME UsizeAssumption == UsizeSize \in Nat \ {0}

Null     == 0        \* SQL's NULL, as a value of a column or of a parameter
JsonText == 99       \* a parameter that is the text of an array or an object
NoNumber == -1       \* a number the intent does not give
Star     == <<"*">>

Keywords == {"WHERE", "HAVING", "AND"}
Word(w)  == [column |-> "", test |-> w, at |-> <<>>]
And      == Word("AND")

Symbol == [eq |-> "=", ne |-> "!=", gt |-> ">", gte |-> ">=", lt |-> "<",
           lte |-> "<=", like |-> "LIKE"]

\* What a filter is made of, as JSON has it: the argument of an operator or of
\* a scalar is a value or, where the code looks for one, an array of values.
Arguments ==
  {a \in [list : BOOLEAN, true : BOOLEAN, items : Seq(Int)] : a.list \/ Len(a.items) = 1}

Conditions ==
  {c \in [column : STRING, is : {"scalar", "null", "object", "array"}, arg : Arguments,
          ops : Seq([op : STRING, arg : Arguments])] : c.is = "scalar" => ~c.arg.list}

\* A statement under construction.
Blank == [text |-> <<>>, params |-> <<>>, names |-> <<>>, error |-> "none"]

ValueToParam(arg) == IF arg.list THEN JsonText ELSE arg.items[1]

\* The placeholders of a test are numbered from the parameters pushed so far.
PushTest(acc, column, test, values) ==
  [acc EXCEPT
     !.text   = Append(@, [column |-> column, test |-> test,
                           at |-> [i \in DOMAIN values |-> Len(acc.params) + i]]),
     !.params = @ \o values,
     !.names  = @ \o [i \in DOMAIN values |-> column]]

PushOperator(acc, column, o) ==
  CASE o.op \in DOMAIN Symbol ->
         PushTest(acc, column, Symbol[o.op], <<ValueToParam(o.arg)>>)
    [] o.op = "null" ->
         PushTest(acc, column, IF o.arg.true THEN "IS NULL" ELSE "IS NOT NULL", <<>>)
    [] o.op = "in" ->
         IF o.arg.list THEN PushTest(acc, column, "IN", o.arg.items) ELSE acc
    [] o.op = "between" ->
         IF o.arg.list /\ Len(o.arg.items) = 2
         THEN PushTest(acc, column, "BETWEEN", o.arg.items) ELSE acc
    [] OTHER -> [acc EXCEPT !.error = "UNSUPPORTED_OPERATOR"]

\* An AND before each item but the first.
Separated(acc, i) == IF i = 1 THEN acc ELSE [acc EXCEPT !.text = Append(@, And)]

\* The items of an object are written one after the other; an error ends the
\* statement.
build_condition(acc, c) ==
  CASE c.is = "scalar" -> PushTest(acc, c.column, "=", c.arg.items)
    [] c.is = "null"   -> PushTest(acc, c.column, "IS NULL", <<>>)
    [] c.is = "object" ->
         LET written[n \in 0..Len(c.ops)] ==
               IF n = 0 THEN acc
               ELSE LET a == written[n - 1]
                    IN  IF a.error # "none" THEN a
                        ELSE PushOperator(Separated(a, n), c.column, c.ops[n])
         IN  written[Len(c.ops)]
    [] OTHER           -> [acc EXCEPT !.error = "INVALID_CONDITION"]

\* A clause with its keyword, left out when the object is empty or absent, or
\* when there is no object but another value.
Clause(acc, keyword, filter) ==
  LET written[n \in 0..Len(filter)] ==
        IF n = 0 THEN [acc EXCEPT !.text = <<Word(keyword)>>]
        ELSE LET a == written[n - 1]
             IN  IF a.error # "none" THEN a
                 ELSE build_condition(Separated(a, n), filter[n])
  IN  IF filter \in {<<>>, Other} THEN acc ELSE written[Len(filter)]

NoQuery == [type |-> "none", columns |-> <<>>, where |-> <<>>, group |-> <<>>,
            having |-> <<>>, order |-> <<>>, limit |-> NoNumber, offset |-> 0,
            params |-> <<>>, names |-> <<>>, per_page |-> NoNumber, error |-> "none"]

Refuse(code) == [NoQuery EXCEPT !.error = code]

Statement(acc, where, having, columns) ==
  [NoQuery EXCEPT !.type = "sql", !.columns = columns, !.where = where,
                  !.having = having, !.params = acc.params, !.names = acc.names]

\* The items of an array that are strings.
Strings(array) ==
  LET kept[n \in 0..Len(array)] ==
        IF n = 0 THEN <<>>
        ELSE IF array[n] = Other THEN kept[n - 1] ELSE Append(kept[n - 1], array[n])
  IN  kept[Len(array)]

\* ORDER BY and GROUP BY are written when the array has elements, even when none
\* of them names a column.
ColumnList(keyword, array) ==
  IF array \in {<<>>, Other} THEN <<>> ELSE <<keyword>> \o Strings(array)

\* What the validator left, or else what was asked for; nothing stands for all.
SelectList(intent, v) ==
  IF v.sanitized_columns = <<>>         THEN Star
  ELSE IF v.sanitized_columns # Other THEN v.sanitized_columns
  ELSE IF intent.columns # Other      THEN Strings(intent.columns)
  ELSE Star

MinOf(a, b) == IF a < b THEN a ELSE b

\* A defect: the limit of the intent replaces the table's.
LimitAsAsked(limit, max_rows) == IF limit = NoNumber THEN max_rows ELSE limit % UsizeSize

\* "as usize" keeps the low bits of the u64.
RowLimit(limit, max_rows) ==
  MinOf(IF limit = NoNumber THEN max_rows ELSE limit % UsizeSize, max_rows)

build_select_query(intent, v) ==
  LET acc == Clause(Blank, "WHERE", intent.where)
  IN  IF intent.table = ""       THEN Refuse("MISSING_TABLE")
      ELSE IF acc.error # "none" THEN Refuse(acc.error)
      ELSE [Statement(acc, acc.text, <<>>, SelectList(intent, v))
              EXCEPT !.order = ColumnList("ORDER BY", intent.order_by),
                     !.limit = RowLimit(intent.limit, v.max_rows),
                     !.offset = intent.offset]

build_count_query(intent) ==
  LET acc == Clause(Blank, "WHERE", intent.where)
  IN  IF intent.table = ""       THEN Refuse("MISSING_TABLE")
      ELSE IF acc.error # "none" THEN Refuse(acc.error)
      ELSE Statement(acc, acc.text, <<>>, <<"count">>)

Aggregates == {"COUNT", "SUM", "AVG", "MIN", "MAX"}

\* The aggregates and the columns they are grouped by.
Aggregated(intent) ==
  intent.aggregates \o (IF intent.group_by = Other THEN <<>> ELSE Strings(intent.group_by))

\* A defect: HAVING numbers its placeholders from one again.
HavingRenumbered(intent, v) ==
  LET filtered == Clause(Blank, "WHERE", intent.where)
      grouped  == Clause(Blank, "HAVING", intent.having)
  IN  IF intent.table = "" \/ intent.aggregates = Other THEN Refuse("MISSING_TABLE")
      ELSE IF filtered.error # "none" \/ grouped.error # "none" THEN Refuse(filtered.error)
      ELSE [Statement(grouped, filtered.text, grouped.text, Aggregated(intent))
              EXCEPT !.params = filtered.params \o grouped.params,
                     !.names = filtered.names \o grouped.names]

\* HAVING goes on with the numbering of WHERE.
build_aggregate_query(intent, v) ==
  LET filtered == Clause(Blank, "WHERE", intent.where)
      grouped  == Clause([filtered EXCEPT !.text = <<>>], "HAVING", intent.having)
  IN  IF intent.table = ""            THEN Refuse("MISSING_TABLE")
      ELSE IF intent.aggregates = Other THEN Refuse("MISSING_AGGREGATES")
      ELSE IF ~(ToSet(intent.aggregates) \subseteq Aggregates) THEN Refuse("INVALID_AGGREGATE")
      ELSE IF filtered.error # "none" THEN Refuse(filtered.error)
      ELSE IF grouped.error # "none"  THEN Refuse(grouped.error)
      ELSE [Statement(grouped, filtered.text, grouped.text, Aggregated(intent))
              EXCEPT !.group = ColumnList("GROUP BY", intent.group_by),
                     !.limit = v.max_rows]

translate_sqlite(intent, v) ==
  CASE intent.action = "select"    -> build_select_query(intent, v)
    [] intent.action = "count"     -> build_count_query(intent)
    [] intent.action = "aggregate" -> build_aggregate_query(intent, v)
    [] OTHER                       -> Refuse("UNSUPPORTED_ACTION")

\* What each GitHub action cannot do without, in the order it is looked for.
GithubNeeds ==
  [list_issues |-> <<"repo">>, get_issue |-> <<"repo", "number">>,
   list_prs    |-> <<"repo">>, get_pr    |-> <<"repo", "number">>,
   search_code |-> <<"query">>, list_commits |-> <<"repo">>]

GithubLists == {"list_issues", "list_prs", "search_code", "list_commits"}

Missing == [repo |-> "MISSING_REPO", number |-> "MISSING_NUMBER", query |-> "MISSING_QUERY"]

\* A list asks for one page of a hundred.
translate_github(intent) ==
  IF intent.action \notin DOMAIN GithubNeeds THEN Refuse("UNSUPPORTED_ACTION")
  ELSE LET needs  == GithubNeeds[intent.action]
           absent == SelectInSeq(needs, LAMBDA p : p \notin intent.given)
       IN  IF absent # 0 THEN Refuse(Missing[needs[absent]])
           ELSE [NoQuery EXCEPT !.type = "http",
                                !.per_page = IF intent.action \in GithubLists
                                             THEN 100 ELSE NoNumber]

translate_intent(intent, v) ==
  CASE intent.target = "sqlite" -> translate_sqlite(intent, v)
    [] intent.target = "github" -> translate_github(intent)
    [] intent.target = "mcp"    -> [NoQuery EXCEPT !.type = "mcp"]
    [] OTHER                    -> Refuse("UNSUPPORTED_TARGET")
============================================================================
