----------------------------- MODULE AskProofs -----------------------------
(***************************************************************************)
(* Proofs about Ask for every whitelist, every set of intents and every    *)
(* set of texts that satisfy the modules' assumptions: type correctness,   *)
(* the limits the chain of chat2data nodes keeps and the omissions it      *)
(* admits to, the projection of strict mode, that a statement which runs   *)
(* means the intent it was translated from, and that the sql node answers  *)
(* to the statement the model wrote.                                       *)
(***************************************************************************)
EXTENDS Ask, PositionLemmas, SequenceTheorems, TLAPS

-----------------------------------------------------------------------------
(* What the validator makes of an intent.                                  *)

(* The loop that drops columns drops no string when each may be kept: it is *)
(* the loop that keeps the strings.                                        *)
LEMMA SanitizedKeepsAll ==
  ASSUME NEW i, i.columns \in Seq(STRING \union {Other}),
         NEW table, Allowed(table) \subseteq STRING,
         \A k \in 1 .. Len(i.columns) :
           \/ i.columns[k] = "*" \/ i.columns[k] = Other
           \/ i.columns[k] \in Allowed(table)
  PROVE  Sanitized(i, table) = Strings(i.columns)
<1> DEFINE columns == i.columns
           Pushed(f) == [n \in 0 .. Len(columns) |->
                           IF n = 0 THEN <<>>
                           ELSE IF columns[n] = "*" \/ columns[n] \in Allowed(table)
                           THEN Append(f[n - 1], columns[n]) ELSE f[n - 1]]
           Kept(f) == [n \in 0 .. Len(columns) |->
                         IF n = 0 THEN <<>>
                         ELSE IF columns[n] = Other THEN f[n - 1]
                         ELSE Append(f[n - 1], columns[n])]
<1>1. columns # Other  BY OtherAssumption
<1>2. Other # "*" /\ Other \notin Allowed(table)
  <2>1. Other # "*"  BY OtherIsNoString, Zenon
  <2>2. Other \notin Allowed(table)  BY OtherIsNoString
  <2> QED  BY <2>1, <2>2, Zenon
<1>3. \A f : Pushed(f) = Kept(f)
  <2> HIDE DEF Allowed
  <2> QED  BY <1>2
<1>4. (CHOOSE f : f = Pushed(f)) = (CHOOSE f : f = Kept(f))
  <2> HIDE DEF Pushed, Kept
  <2> QED  BY <1>3, Zenon
<1>5. Sanitized(i, table) = (CHOOSE f : f = Pushed(f))[Len(columns)]
  BY <1>1 DEF Sanitized
<1>6. Strings(i.columns) = (CHOOSE f : f = Kept(f))[Len(columns)]  BY DEF Strings
<1> HIDE DEF Pushed, Kept
<1> QED  BY <1>4, <1>5, <1>6

(* A verdict is a record with a number of rows that waves nothing through. *)
VerdictFields == {"valid", "pass_through", "some", "max_rows", "sanitized_columns",
                  "errors", "warnings"}

IsVerdict(v) ==
  v = [f \in VerdictFields |-> v[f]] /\ v.max_rows \in Nat /\ ~ v.pass_through

LEMMA NoVerdictFacts == IsVerdict(NoVerdict) /\ ~ NoVerdict.some /\ NoVerdict.max_rows = 0
BY DEF NoVerdict, IsVerdict, VerdictFields

LEMMA RejectFacts ==
  ASSUME NEW code
  PROVE  IsVerdict(Reject(code)) /\ ~ Reject(code).some
BY NoVerdictFacts DEF Reject, IsVerdict, VerdictFields

LEMMA AcceptFacts ==
  ASSUME NEW n \in Nat, NEW c, NEW w
  PROVE  /\ IsVerdict(Accept(n, c, w))
         /\ Accept(n, c, w).max_rows = n
         /\ Accept(n, c, w).sanitized_columns = c
         /\ Accept(n, c, w).warnings = w
BY NoVerdictFacts DEF Accept, IsVerdict, VerdictFields

(* The columns that draw a warning.                                        *)
Warned(i, table) ==
  {c \in Columns(i) : is_valid_identifier(c) /\
     c \notin Allowed(table) \union table.forbidden_columns}

LEMMA ColumnsVerdict ==
  ASSUME NEW i, NEW table, table.max_rows \in Nat
  PROVE  LET v == validate_columns(i, table)
         IN  /\ IsVerdict(v)
             /\ v.some => /\ ColumnErrors(i, table) = {} /\ i.where # Other
                          /\ v.max_rows = table.max_rows
                          /\ v.sanitized_columns = Sanitized(i, table)
                          /\ v.warnings = Warned(i, table)
<1> DEFINE last == IF check_forbidden_patterns(i) THEN "FORBIDDEN_PATTERN"
                   ELSE WhereError(i, table)
           passes == ColumnErrors(i, table) = {} /\ last = "none"
           refusal == [NoVerdict EXCEPT !.errors = ColumnErrors(i, table) \union ({last} \ {"none"}),
                                        !.warnings = Warned(i, table)]
<1>1. validate_columns(i, table) =
        IF passes THEN Accept(table.max_rows, Sanitized(i, table), Warned(i, table))
        ELSE refusal
  BY DEF validate_columns, Warned
<1>2. IsVerdict(refusal) /\ ~ refusal.some
  <2> HIDE DEF last
  <2> QED  BY NoVerdictFacts DEF IsVerdict, VerdictFields
<1>3. passes => ColumnErrors(i, table) = {} /\ i.where # Other
  <2>1. i.where = Other => WhereError(i, table) = "INVALID_WHERE"  BY DEF WhereError
  <2> QED  BY <2>1
<1> HIDE DEF passes, refusal
<1> QED  BY <1>1, <1>2, <1>3, AcceptFacts

(* The rules of the target an intent names.                                *)
Ruled(i) ==
  CASE i.target = "sqlite" -> validate_sqlite_intent(i)
    [] i.target = "github" -> validate_github_intent(i)
    [] i.target = "mcp"    -> validate_mcp_intent(i)
    [] OTHER               -> Reject("TARGET_NOT_ALLOWED")

TableOf(i) == Whitelist.sqlite.tables[i.table]

LEMMA RuledFacts ==
  ASSUME NEW i
  PROVE  /\ IsVerdict(Ruled(i))
         /\ i.target = "sqlite" /\ Ruled(i).some =>
              /\ i.where # Other
              /\ TableOf(i).max_rows \in Nat /\ Allowed(TableOf(i)) \subseteq STRING
              /\ Ruled(i) = validate_columns(i, TableOf(i))
         /\ i.target = "github" /\ Ruled(i).some => Ruled(i).max_rows = 100
<1>1. i.table \in DOMAIN Whitelist.sqlite.tables =>
        /\ TableOf(i).max_rows \in Nat /\ Allowed(TableOf(i)) \subseteq STRING
        /\ IsVerdict(validate_columns(i, TableOf(i)))
        /\ validate_columns(i, TableOf(i)).some => i.where # Other
  BY ColumnsVerdict, WhitelistAssumption, IdentifiersAssumption DEF TableOf, Allowed
<1>2. /\ IsVerdict(validate_sqlite_intent(i))
      /\ validate_sqlite_intent(i).some =>
           /\ i.where # Other
           /\ TableOf(i).max_rows \in Nat /\ Allowed(TableOf(i)) \subseteq STRING
           /\ validate_sqlite_intent(i) = validate_columns(i, TableOf(i))
  BY <1>1, RejectFacts DEF validate_sqlite_intent, TableOf
<1>3. /\ IsVerdict(validate_github_intent(i))
      /\ validate_github_intent(i).some => validate_github_intent(i).max_rows = 100
  <2> DEFINE allowed == i.action \in Whitelist.github.operations
             unlisted == /\ "repo" \in i.given /\ Whitelist.github.repos # {}
                         /\ ~ \E p \in Whitelist.github.repos : matches_glob(i.repo, p)
             forbidden == /\ "repo" \in i.given
                          /\ \E p \in Whitelist.github.forbidden : matches_glob(i.repo, p)
  <2>1. validate_github_intent(i) =
          IF ~ allowed       THEN Reject("ACTION_NOT_ALLOWED")
          ELSE IF unlisted  THEN Reject("REPO_NOT_ALLOWED")
          ELSE IF forbidden THEN Reject("REPO_FORBIDDEN")
          ELSE Accept(100, Other, {})
    BY Zenon DEF validate_github_intent
  <2> HIDE DEF allowed, unlisted, forbidden
  <2> QED  BY <2>1, RejectFacts, AcceptFacts
<1>4. IsVerdict(validate_mcp_intent(i))
  <2> DEFINE allowed == i.action \in Whitelist.mcp.tools
             forbidden == /\ "path" \in i.given
                          /\ \E p \in Whitelist.mcp.forbidden_paths : matches_glob(i.path, p)
             warnings == IF \/ "path" \notin i.given \/ Whitelist.mcp.extensions = {}
                            \/ \E e \in Whitelist.mcp.extensions : IsSuffix(<<e>>, i.path)
                         THEN {} ELSE {"File extension not in allowed list"}
  <2>1. validate_mcp_intent(i) =
          IF ~ allowed       THEN Reject("TOOL_NOT_ALLOWED")
          ELSE IF forbidden THEN Reject("PATH_FORBIDDEN")
          ELSE Accept(1000, Other, warnings)
    BY Zenon DEF validate_mcp_intent
  <2> HIDE DEF allowed, forbidden, warnings
  <2> QED  BY <2>1, RejectFacts, AcceptFacts
<1> QED  BY <1>2, <1>3, <1>4, RejectFacts DEF Ruled

(* What validate_intent hands out is what the rules made of the intent;    *)
(* it is valid when they accepted it, in strict mode without a warning.    *)
LEMMA ValidateIntentFacts ==
  ASSUME NEW i, NEW strict
  PROVE  LET v == validate_intent(i, strict)
         IN  /\ IsVerdict(v)
             /\ v.max_rows = Ruled(i).max_rows
             /\ v.sanitized_columns = Ruled(i).sanitized_columns
             /\ v.valid => Ruled(i).some /\ (strict => Ruled(i).warnings = {})
<1> DEFINE errors == Ruled(i).errors \union (IF strict /\ Ruled(i).warnings # {}
                                            THEN {"STRICT_MODE_WARNING"} ELSE {})
           valid == Ruled(i).some /\ errors = {}
<1>1. validate_intent(i, strict) = [Ruled(i) EXCEPT !.errors = errors, !.valid = valid]
  BY DEF validate_intent, Ruled
<1>2. valid => Ruled(i).some /\ (strict => Ruled(i).warnings = {})  OBVIOUS
<1>3. IsVerdict(Ruled(i))  BY RuledFacts
<1> HIDE DEF errors, valid
<1> QED  BY <1>1, <1>2, <1>3 DEF IsVerdict, VerdictFields

(* In strict mode the columns that pass are the strings asked for, all of  *)
(* them and in their order; None when the columns are no array.            *)
Named(columns) == IF columns = Other THEN Other ELSE Strings(columns)

LEMMA StrictKeepsColumns ==
  ASSUME NEW i \in Intents, i.target = "sqlite", validate_intent(i, TRUE).valid
  PROVE  validate_intent(i, TRUE).sanitized_columns = Named(i.columns)
<1> DEFINE table == TableOf(i)
<1>1. /\ Ruled(i).some /\ Ruled(i).warnings = {}
      /\ validate_intent(i, TRUE).sanitized_columns = Ruled(i).sanitized_columns
  BY ValidateIntentFacts
<1>2. /\ Ruled(i) = validate_columns(i, table) /\ table.max_rows \in Nat
      /\ Allowed(table) \subseteq STRING
  BY <1>1, RuledFacts
<1> HIDE DEF table
<1>3. /\ ColumnErrors(i, table) = {} /\ Warned(i, table) = {}
      /\ Ruled(i).sanitized_columns = Sanitized(i, table)
  BY <1>1, <1>2, ColumnsVerdict
<1>4. CASE i.columns = Other  BY <1>1, <1>3, <1>4 DEF Sanitized, Named
<1>5. CASE i.columns # Other
  <2>1. i.columns \in Seq(STRING \union {Other})  BY <1>5, IntentsAssumption
  <2>2. ASSUME NEW k \in 1 .. Len(i.columns), i.columns[k] # "*", i.columns[k] # Other
        PROVE  i.columns[k] \in Allowed(table)
    <3>1. i.columns[k] \in Columns(i)  BY <1>5, <2>1, <2>2 DEF Columns, ToSet
    <3>2. is_valid_identifier(i.columns[k]) /\ i.columns[k] \notin table.forbidden_columns
      BY <1>3, <3>1 DEF ColumnErrors
    <3> QED  BY <1>3, <3>1, <3>2 DEF Warned
  <2>3. Sanitized(i, table) = Strings(i.columns)  BY <1>2, <2>1, <2>2, SanitizedKeepsAll
  <2> QED  BY <1>1, <1>3, <1>5, <2>3 DEF Named
<1> QED  BY <1>4, <1>5

-----------------------------------------------------------------------------
(* What the translator makes of an intent.                                 *)

QueryFields == {"type", "columns", "where", "group", "having", "order", "limit",
                "offset", "params", "names", "per_page", "error"}

IsQuery(q) == q = [f \in QueryFields |-> q[f]]

LEMMA NoQueryFacts ==
  /\ IsQuery(NoQuery) /\ NoQuery.error = "none"
  /\ NoQuery.limit = NoNumber /\ NoQuery.per_page = NoNumber /\ NoQuery.offset = 0
BY DEF NoQuery, IsQuery, QueryFields

LEMMA RefuseFacts ==
  ASSUME NEW code
  PROVE  /\ Refuse(code).error = code
         /\ Refuse(code).limit = NoNumber /\ Refuse(code).offset = 0
BY NoQueryFacts DEF Refuse, IsQuery, QueryFields

LEMMA StatementFacts ==
  ASSUME NEW acc, NEW where, NEW having, NEW columns
  PROVE  LET q == Statement(acc, where, having, columns)
         IN  /\ IsQuery(q)
             /\ q.type = "sql" /\ q.columns = columns /\ q.error = "none"
             /\ q.where = where /\ q.having = having
             /\ q.params = acc.params /\ q.names = acc.names
             /\ q.limit = NoNumber /\ q.per_page = NoNumber /\ q.offset = 0
BY NoQueryFacts DEF Statement, IsQuery, QueryFields

(* The limit of a statement is never above the table's.                    *)
LEMMA RowLimitFacts ==
  ASSUME NEW n \in Nat \union {NoNumber}, NEW m \in Nat
  PROVE  /\ RowLimit(n, m) \in Nat /\ RowLimit(n, m) =< m
         /\ RowLimit(n, m) = 0 => m = 0 \/ n % UsizeSize = 0
<1>1. CASE n = NoNumber  BY <1>1 DEF RowLimit, MinOf, NoNumber
<1>2. CASE n \in Nat
  <2>1. n # NoNumber  BY <1>2 DEF NoNumber
  <2>2. n % UsizeSize \in Nat  BY <1>2, UsizeAssumption
  <2> QED  BY <2>1, <2>2 DEF RowLimit, MinOf
<1> QED  BY <1>1, <1>2

LEMMA SelectFacts ==
  ASSUME NEW i, i.limit \in Nat \union {NoNumber}, i.offset \in Nat,
         NEW v, v.max_rows \in Nat
  PROVE  LET q == build_select_query(i, v)
         IN  /\ q.limit \in Nat \union {NoNumber} /\ q.offset \in Nat
             /\ q.error = "none" =>
                  /\ q.type = "sql" /\ q.per_page = NoNumber
                  /\ q.columns = SelectList(i, v)
                  /\ q.limit = RowLimit(i.limit, v.max_rows)
<1> DEFINE acc == Clause(Blank, "WHERE", i.where)
           columns == SelectList(i, v)
           base == Statement(acc, acc.text, <<>>, columns)
           order == ColumnList("ORDER BY", i.order_by)
           limit == RowLimit(i.limit, v.max_rows)
<1>1. build_select_query(i, v) =
        IF i.table = ""            THEN Refuse("MISSING_TABLE")
        ELSE IF acc.error # "none" THEN Refuse(acc.error)
        ELSE [base EXCEPT !.order = order, !.limit = limit, !.offset = i.offset]
  BY DEF build_select_query
<1>2. IsQuery(base) /\ base.type = "sql" /\ base.columns = columns
      /\ base.per_page = NoNumber
  BY StatementFacts
<1>3. limit \in Nat  BY RowLimitFacts
<1> HIDE DEF acc, columns, base, order, limit
<1>4. LET q == [base EXCEPT !.order = order, !.limit = limit, !.offset = i.offset]
      IN  /\ q.type = "sql" /\ q.columns = columns /\ q.limit = limit
          /\ q.offset = i.offset /\ q.per_page = NoNumber
  BY <1>2 DEF IsQuery, QueryFields
<1>5. CASE i.table = "" \/ acc.error # "none"
  <2>1. \/ build_select_query(i, v) = Refuse("MISSING_TABLE")
        \/ build_select_query(i, v) = Refuse(acc.error) /\ acc.error # "none"
    BY <1>1, <1>5, Zenon
  <2>2. "MISSING_TABLE" # "none"  OBVIOUS
  <2> HIDE DEF acc, columns, limit
  <2>3. PICK code : build_select_query(i, v) = Refuse(code) /\ code # "none"
    BY <2>1, <2>2
  <2> QED  BY <2>3, RefuseFacts
<1>6. CASE ~ (i.table = "" \/ acc.error # "none")
  BY <1>1, <1>3, <1>4, <1>6 DEF columns, limit
<1> QED  BY <1>5, <1>6

LEMMA CountFacts ==
  ASSUME NEW i
  PROVE  LET q == build_count_query(i)
         IN  /\ q.limit = NoNumber /\ q.offset = 0
             /\ q.error = "none" => q.type = "sql"
<1> DEFINE acc == Clause(Blank, "WHERE", i.where)
           base == Statement(acc, acc.text, <<>>, <<"count">>)
<1>1. build_count_query(i) =
        IF i.table = ""            THEN Refuse("MISSING_TABLE")
        ELSE IF acc.error # "none" THEN Refuse(acc.error)
        ELSE base
  BY DEF build_count_query
<1>2. base.type = "sql" /\ base.limit = NoNumber /\ base.offset = 0
  BY StatementFacts
<1> HIDE DEF acc, base
<1>3. CASE i.table = "" \/ acc.error # "none"
  BY <1>1, <1>3, RefuseFacts
<1>4. CASE ~ (i.table = "" \/ acc.error # "none")
  BY <1>1, <1>2, <1>4
<1> QED  BY <1>3, <1>4

LEMMA AggregateFacts ==
  ASSUME NEW i, NEW v, v.max_rows \in Nat
  PROVE  LET q == build_aggregate_query(i, v)
         IN  /\ q.limit \in Nat \union {NoNumber} /\ q.offset = 0
             /\ q.error = "none" => q.type = "sql" /\ q.limit = v.max_rows
<1> DEFINE filtered == Clause(Blank, "WHERE", i.where)
           grouped == Clause([filtered EXCEPT !.text = <<>>], "HAVING", i.having)
           base == Statement(grouped, filtered.text, grouped.text, Aggregated(i))
           odd == ~ (ToSet(i.aggregates) \subseteq Aggregates)
           group == ColumnList("GROUP BY", i.group_by)
<1>1. build_aggregate_query(i, v) =
        IF i.table = ""                 THEN Refuse("MISSING_TABLE")
        ELSE IF i.aggregates = Other     THEN Refuse("MISSING_AGGREGATES")
        ELSE IF odd                     THEN Refuse("INVALID_AGGREGATE")
        ELSE IF filtered.error # "none" THEN Refuse(filtered.error)
        ELSE IF grouped.error # "none"  THEN Refuse(grouped.error)
        ELSE [base EXCEPT !.group = group, !.limit = v.max_rows]
  BY DEF build_aggregate_query
<1>2. IsQuery(base) /\ base.type = "sql" /\ base.offset = 0  BY StatementFacts
<1> HIDE DEF filtered, grouped, base, odd, group
<1>3. LET q == [base EXCEPT !.group = group, !.limit = v.max_rows]
      IN  q.type = "sql" /\ q.limit = v.max_rows /\ q.offset = 0
  BY <1>2 DEF IsQuery, QueryFields
<1> DEFINE refused == \/ i.table = "" \/ i.aggregates = Other \/ odd
                      \/ filtered.error # "none" \/ grouped.error # "none"
<1>4. CASE refused
  <2> DEFINE q == build_aggregate_query(i, v)
  <2>1. \/ q = Refuse("MISSING_TABLE")
        \/ q = Refuse("MISSING_AGGREGATES")
        \/ q = Refuse("INVALID_AGGREGATE")
        \/ q = Refuse(filtered.error) /\ filtered.error # "none"
        \/ q = Refuse(grouped.error) /\ grouped.error # "none"
    BY <1>1, <1>4
  <2> HIDE DEF q
  <2>2. q.limit = NoNumber /\ q.offset = 0 /\ q.error # "none"  BY <2>1, RefuseFacts
  <2> QED  BY <2>2 DEF q
<1>5. CASE ~ refused
  <2>1. build_aggregate_query(i, v) = [base EXCEPT !.group = group, !.limit = v.max_rows]
    BY <1>1, <1>5
  <2> QED  BY <1>3, <2>1
<1> QED  BY <1>4, <1>5

(* What is missing of what an action needs is named in the refusal.        *)
LEMMA GithubFacts ==
  ASSUME NEW i
  PROVE  LET q == translate_github(i)
         IN  /\ q.limit = NoNumber /\ q.offset = 0
             /\ q.error = "none" => q.type = "http" /\ q.per_page \in {100, NoNumber}
<1> DEFINE needs == GithubNeeds[i.action]
           Absent == {k \in 1 .. Len(needs) : needs[k] \notin i.given}
           absent == SelectInSeq(needs, LAMBDA p : p \notin i.given)
           page == IF i.action \in GithubLists THEN 100 ELSE NoNumber
           q == [NoQuery EXCEPT !.type = "http", !.per_page = page]
<1>1. translate_github(i) =
        IF i.action \notin DOMAIN GithubNeeds THEN Refuse("UNSUPPORTED_ACTION")
        ELSE IF absent # 0 THEN Refuse(Missing[needs[absent]]) ELSE q
  BY DEF translate_github
<1>2. page \in {100, NoNumber}  OBVIOUS
<1>3. ASSUME i.action \in DOMAIN GithubNeeds, absent # 0
      PROVE  Missing[needs[absent]] # "none"
  <2>1. needs \in {<<"repo">>, <<"repo", "number">>, <<"query">>}
    BY <1>3 DEF GithubNeeds
  <2>2. absent = IF Absent # {} THEN Min(Absent) ELSE 0  BY DEF SelectInSeq
  <2>3. Absent \subseteq Nat  OBVIOUS
  <2> HIDE DEF Absent, absent
  <2>4. absent \in Absent  BY <1>3, <2>2, <2>3, MinIsLeast
  <2>5. absent \in 1 .. Len(needs)  BY <2>4 DEF Absent
  <2> HIDE DEF needs
  <2>6. needs[absent] \in {"repo", "number", "query"}  BY <2>1, <2>5
  <2> QED  BY <2>6 DEF Missing
<1> HIDE DEF absent, page, needs
<1>4. /\ q.limit = NoNumber /\ q.offset = 0 /\ q.type = "http"
      /\ q.per_page = page /\ q.error = "none"
  BY NoQueryFacts DEF IsQuery, QueryFields
<1> HIDE DEF q
<1>5. CASE i.action \notin DOMAIN GithubNeeds  BY <1>1, <1>5, RefuseFacts
<1>6. CASE i.action \in DOMAIN GithubNeeds /\ absent # 0
  BY <1>1, <1>3, <1>6, RefuseFacts
<1>7. CASE i.action \in DOMAIN GithubNeeds /\ absent = 0
  BY <1>1, <1>2, <1>4, <1>7
<1> QED  BY <1>5, <1>6, <1>7

LEMMA McpFacts ==
  LET q == [NoQuery EXCEPT !.type = "mcp"]
  IN  q.limit = NoNumber /\ q.offset = 0 /\ q.type = "mcp"
BY NoQueryFacts DEF IsQuery, QueryFields

(* What the translator makes of an accepted intent: which kind of query,   *)
(* and the numbers that bound its answer.                                  *)
QueryOf(q, i, v) ==
  /\ q.limit \in Nat \union {NoNumber} /\ q.offset \in Nat
  /\ q.error = "none" =>
       /\ i.target \in {"sqlite", "github", "mcp"}
       /\ (i.target = "sqlite") <=> (q.type = "sql")
       /\ (i.target = "github") <=> (q.type = "http")
       /\ i.target = "github" => q.per_page \in {100, NoNumber}
       /\ i.target = "sqlite" => i.action \in {"select", "count", "aggregate"}
       /\ i.target = "sqlite" /\ i.action = "select" =>
            /\ q.limit = RowLimit(i.limit, v.max_rows)
            /\ q.columns = SelectList(i, v)
       /\ i.target = "sqlite" /\ i.action = "count" => q.limit = NoNumber
       /\ i.target = "sqlite" /\ i.action = "aggregate" => q.limit = v.max_rows

LEMMA QueryFacts ==
  ASSUME NEW i, i.limit \in Nat \union {NoNumber}, i.offset \in Nat,
         NEW v, v.max_rows \in Nat
  PROVE  QueryOf(translate_intent(i, v), i, v)
<1>1. CASE i.target = "sqlite"
  <2>1. translate_intent(i, v) = translate_sqlite(i, v)  BY <1>1 DEF translate_intent
  <2>2. CASE i.action = "select"
    BY <1>1, <2>1, <2>2, SelectFacts DEF translate_sqlite, QueryOf
  <2>3. CASE i.action = "count"
    BY <1>1, <2>1, <2>3, CountFacts DEF translate_sqlite, QueryOf
  <2>4. CASE i.action = "aggregate"
    BY <1>1, <2>1, <2>4, AggregateFacts DEF translate_sqlite, QueryOf
  <2>5. CASE i.action \notin {"select", "count", "aggregate"}
    BY <2>1, <2>5, RefuseFacts DEF translate_sqlite, QueryOf
  <2> QED  BY <2>2, <2>3, <2>4, <2>5
<1>2. CASE i.target = "github"
  BY <1>2, GithubFacts DEF translate_intent, QueryOf
<1>3. CASE i.target = "mcp"
  <2>1. translate_intent(i, v) = [NoQuery EXCEPT !.type = "mcp"]
    BY <1>3 DEF translate_intent
  <2>2. 0 \in Nat  OBVIOUS
  <2> QED  BY <1>3, <2>1, <2>2, McpFacts DEF QueryOf
<1>4. CASE i.target \notin {"sqlite", "github", "mcp"}
  BY <1>4, RefuseFacts DEF translate_intent, QueryOf
<1> QED  BY <1>1, <1>2, <1>3, <1>4

-----------------------------------------------------------------------------
(* What a translated filter means.                                         *)

(* The conditions a clause is written with, and a statement on its way:    *)
(* every placeholder has its parameter, with the name of its column.       *)
Tests == Keywords \union {"=", "!=", ">", ">=", "<", "<=", "LIKE", "IS NULL",
                          "IS NOT NULL", "IN", "BETWEEN"}

Names == STRING \union {""}

Tokens == [column : Names, test : Tests, at : Seq(Nat)]

DraftFields == {"text", "params", "names", "error"}

IsDraft(a) ==
  /\ a = [f \in DraftFields |-> a[f]]
  /\ a.text \in Seq(Tokens) /\ a.params \in Seq(Int) /\ a.names \in Seq(Names)
  /\ Len(a.names) = Len(a.params)
  /\ Bound(a.text, a)

(* What was written stays as it was: the parameters, and the clause too.   *)
Keeps(a, b) ==
  /\ Len(a.params) =< Len(b.params) /\ \A k \in 1 .. Len(a.params) : b.params[k] = a.params[k]
  /\ Len(a.names) =< Len(b.names) /\ \A k \in 1 .. Len(a.names) : b.names[k] = a.names[k]

Grows(a, b) ==
  /\ Len(a.text) =< Len(b.text) /\ \A k \in 1 .. Len(a.text) : b.text[k] = a.text[k]
  /\ Keeps(a, b)

Odd(n)  == n % 2 = 1
Even(n) == n % 2 = 0

LEMMA Parity ==
  \A n \in Nat : /\ Odd(n) <=> ~ Even(n)
                 /\ Odd(n + 1) <=> Even(n)
BY DEF Odd, Even

LEMMA DraftFacts ==
  ASSUME NEW a, IsDraft(a)
  PROVE  /\ Len(a.text) \in Nat /\ DOMAIN a.text = 1 .. Len(a.text)
         /\ Len(a.params) \in Nat /\ DOMAIN a.params = 1 .. Len(a.params)
         /\ Len(a.names) = Len(a.params) /\ DOMAIN a.names = 1 .. Len(a.params)
<1>1. a.text \in Seq(Tokens) /\ a.params \in Seq(Int) /\ a.names \in Seq(Names)
      /\ Len(a.names) = Len(a.params)
  BY DEF IsDraft
<1> QED  BY <1>1

LEMMA GrowsOn ==
  ASSUME NEW a, NEW b, NEW c, IsDraft(a), IsDraft(b), IsDraft(c), Grows(a, b), Grows(b, c)
  PROVE  Grows(a, c)
BY DraftFacts DEF Grows, Keeps

LEMMA GrowsSame == ASSUME NEW a, IsDraft(a) PROVE Grows(a, a)
BY DraftFacts DEF Grows, Keeps

LEMMA Joined ==
  ASSUME NEW S, NEW s \in Seq(S), NEW t \in Seq(S)
  PROVE  /\ s \o t \in Seq(S) /\ DOMAIN (s \o t) = 1 .. Len(s) + Len(t)
         /\ Len(s \o t) = Len(s) + Len(t)
         /\ \A k \in 1 .. Len(s) : (s \o t)[k] = s[k]
         /\ \A k \in 1 .. Len(t) : (s \o t)[Len(s) + k] = t[k]
OBVIOUS

Pushed(a, b, column, test, values) ==
  LET last == b.text[Len(b.text)]
  IN  /\ IsDraft(b) /\ Grows(a, b) /\ b.error = a.error
      /\ Len(b.text) = Len(a.text) + 1
      /\ last.column = column /\ last.test = test
      /\ [j \in DOMAIN last.at |-> b.params[last.at[j]]] = values

(* A test appended to a statement, with its parameters.                    *)
LEMMA PushFacts ==
  ASSUME NEW a, IsDraft(a), NEW column \in Names, NEW test \in Tests,
         NEW values \in Seq(Int)
  PROVE  Pushed(a, PushTest(a, column, test, values), column, test, values)
<1> DEFINE at == [i \in DOMAIN values |-> Len(a.params) + i]
           token == [column |-> column, test |-> test, at |-> at]
           labels == [i \in DOMAIN values |-> column]
           b == PushTest(a, column, test, values)
<1>1. /\ a.text \in Seq(Tokens) /\ a.params \in Seq(Int) /\ a.names \in Seq(Names)
      /\ Len(a.names) = Len(a.params)
  BY DEF IsDraft
<1>2. /\ Len(a.params) \in Nat /\ Len(values) \in Nat /\ Len(a.text) \in Nat
      /\ DOMAIN values = 1 .. Len(values)
      /\ DOMAIN a.params = 1 .. Len(a.params) /\ DOMAIN a.names = 1 .. Len(a.params)
      /\ DOMAIN a.text = 1 .. Len(a.text)
  BY <1>1
<1>3. at \in Seq(Nat) /\ labels \in Seq(Names)
      /\ Len(labels) = Len(values) /\ DOMAIN at = 1 .. Len(values)
  BY <1>2
<1>4. token \in Tokens  BY <1>3 DEF Tokens
<1>5. /\ b = [f \in DraftFields |-> b[f]] /\ b.error = a.error
      /\ b.text = Append(a.text, token) /\ b.params = a.params \o values
      /\ b.names = a.names \o labels
  <2>1. b = [a EXCEPT !.text = Append(a.text, token), !.params = a.params \o values,
                      !.names = a.names \o labels]
    BY DEF PushTest
  <2>2. a = [f \in DraftFields |-> a[f]]  BY DEF IsDraft
  <2> HIDE DEF b, token, labels
  <2> QED  BY <2>1, <2>2 DEF DraftFields
<1>6. b.text = Append(a.text, token) /\ b.params = a.params \o values
      /\ b.names = a.names \o labels
  BY <1>5
<1>7. \A j \in 1 .. Len(values) : at[j] = Len(a.params) + j /\ labels[j] = column
  BY <1>2
<1>8. token.column = column /\ token.test = test /\ token.at = at  OBVIOUS
<1> HIDE DEF b, token, labels, at
<1>9. /\ b.text \in Seq(Tokens) /\ Len(b.text) = Len(a.text) + 1
      /\ b.text[Len(a.text) + 1] = token
      /\ \A k \in 1 .. Len(a.text) : b.text[k] = a.text[k]
  BY <1>1, <1>2, <1>4, <1>6, AppendProperties
<1>10. /\ b.params \in Seq(Int) /\ Len(b.params) = Len(a.params) + Len(values)
       /\ \A k \in 1 .. Len(a.params) : b.params[k] = a.params[k]
       /\ \A j \in 1 .. Len(values) : b.params[Len(a.params) + j] = values[j]
  BY <1>1, <1>6, Joined
<1>11. /\ b.names \in Seq(Names) /\ Len(b.names) = Len(a.params) + Len(values)
       /\ \A k \in 1 .. Len(a.params) : b.names[k] = a.names[k]
       /\ \A j \in 1 .. Len(values) : b.names[Len(a.params) + j] = column
  <2>0. a.names \in Seq(Names) /\ labels \in Seq(Names)  BY <1>1, <1>3
  <2>1. /\ a.names \o labels \in Seq(Names)
        /\ Len(a.names \o labels) = Len(a.names) + Len(labels)
        /\ \A k \in 1 .. Len(a.names) : (a.names \o labels)[k] = a.names[k]
        /\ \A k \in 1 .. Len(labels) : (a.names \o labels)[Len(a.names) + k] = labels[k]
    BY <2>0, Joined
  <2>2. \A j \in 1 .. Len(values) : b.names[Len(a.params) + j] = labels[j]
    BY <1>1, <1>3, <1>6, <2>1
  <2>3. \A j \in 1 .. Len(values) : b.names[Len(a.params) + j] = column
    BY <1>7, <2>2
  <2> QED  BY <1>1, <1>3, <1>6, <2>1, <2>3
<1>12. /\ DOMAIN b.params = 1 .. Len(a.params) + Len(values)
       /\ DOMAIN b.names = 1 .. Len(a.params) + Len(values)
       /\ DOMAIN b.text = 1 .. Len(a.text) + 1
  BY <1>9, <1>10, <1>11
<1>13. Bound(b.text, b)
  <2> SUFFICES ASSUME NEW k \in 1 .. Len(a.text) + 1, NEW j \in DOMAIN b.text[k].at
               PROVE  /\ b.text[k].at[j] \in 1 .. Len(a.params) + Len(values)
                      /\ b.names[b.text[k].at[j]] = b.text[k].column
    BY <1>12 DEF Bound
  <2>1. CASE k \in 1 .. Len(a.text)
    <3>1. b.text[k] = a.text[k]  BY <1>9, <2>1
    <3>2. Bound(a.text, a)  BY DEF IsDraft
    <3>3. PICK p \in 1 .. Len(a.params) : p = a.text[k].at[j] /\ a.names[p] = a.text[k].column
      BY <1>2, <2>1, <3>1, <3>2 DEF Bound
    <3>4. p \in 1 .. Len(a.params) + Len(values) /\ b.names[p] = a.names[p]  BY <1>2, <1>11
    <3> QED  BY <3>1, <3>3, <3>4
  <2>2. CASE k = Len(a.text) + 1
    <3>1. b.text[k].at = at /\ b.text[k].column = column  BY <1>8, <1>9, <2>2
    <3>2. j \in 1 .. Len(values) /\ at[j] = Len(a.params) + j
      BY <1>3, <1>7, <3>1
    <3>3. Len(a.params) + j \in 1 .. Len(a.params) + Len(values)  BY <1>2, <3>2
    <3>4. b.names[Len(a.params) + j] = column  BY <1>11, <3>2
    <3> QED  BY <3>1, <3>2, <3>3, <3>4
  <2> QED  BY <1>2, <2>1, <2>2
<1>14. IsDraft(b)  BY <1>1, <1>5, <1>9, <1>10, <1>11, <1>13 DEF IsDraft
<1>15. Grows(a, b)
  <2>1. Len(a.text) =< Len(b.text) /\ Len(a.params) =< Len(b.params) /\ Len(a.names) =< Len(b.names)
    BY <1>1, <1>2, <1>9, <1>10, <1>11
  <2> QED  BY <1>1, <1>9, <1>10, <1>11, <2>1 DEF Grows, Keeps
<1>16. [j \in DOMAIN at |-> b.params[at[j]]] = values
  <2>1. \A j \in 1 .. Len(values) : b.params[at[j]] = values[j]  BY <1>7, <1>10
  <2>2. values = [j \in 1 .. Len(values) |-> values[j]]  BY <1>2
  <2> QED  BY <1>3, <2>1, <2>2
<1>17. /\ b.text[Len(b.text)] = token /\ b.error = a.error  BY <1>2, <1>5, <1>9
<1> QED  BY <1>8, <1>9, <1>14, <1>15, <1>16, <1>17 DEF b, Pushed

(* A word is written as a test without a parameter is.                     *)
LEMMA WordFacts ==
  ASSUME NEW a, IsDraft(a)
  PROVE  LET b == [a EXCEPT !.text = Append(@, And)]
         IN  /\ IsDraft(b) /\ Grows(a, b) /\ b.error = a.error
             /\ Len(b.text) = Len(a.text) + 1 /\ b.text[Len(b.text)] = And
<1> DEFINE b == PushTest(a, "", "AND", <<>>)
           d == [a EXCEPT !.text = Append(@, And)]
<1>1. /\ IsDraft(b) /\ Grows(a, b) /\ b.error = a.error
      /\ Len(b.text) = Len(a.text) + 1
  <2>1. "" \in Names /\ "AND" \in Tests  BY DEF Names, Tests, Keywords
  <2>2. <<>> \in Seq(Int)  OBVIOUS
  <2> HIDE DEF b
  <2>3. Pushed(a, b, "", "AND", <<>>)  BY <2>1, <2>2, PushFacts DEF b
  <2> QED  BY <2>3 DEF Pushed
<1>2. [i \in DOMAIN <<>> |-> Len(a.params) + i] = <<>> /\ [i \in DOMAIN <<>> |-> ""] = <<>>
  OBVIOUS
<1>3. b = [a EXCEPT !.text = Append(@, And), !.params = @ \o <<>>, !.names = @ \o <<>>]
  BY <1>2 DEF PushTest, And, Word
<1>4. a.params \o <<>> = a.params /\ a.names \o <<>> = a.names
  BY ConcatEmptySeq DEF IsDraft
<1>5. a = [f \in DraftFields |-> a[f]]  BY DEF IsDraft
<1>6. b = [a EXCEPT !.text = Append(@, And), !.params = a.params, !.names = a.names]
  BY <1>3, <1>4
<1>7. b = d
  <2> HIDE DEF b
  <2> QED  BY <1>5, <1>6 DEF DraftFields
<1>8. b.text = Append(a.text, And)
  <2>1. d.text = Append(a.text, And)
    <3> HIDE DEF b
    <3> QED  BY <1>5 DEF DraftFields
  <2> QED  BY <1>7, <2>1
<1> HIDE DEF b
<1>9. b.text[Len(b.text)] = And
  <2>1. a.text \in Seq(Tokens) /\ Len(a.text) \in Nat  BY DEF IsDraft
  <2> QED  BY <1>1, <1>8, <2>1
<1> QED  BY <1>1, <1>7, <1>9 DEF b

LEMMA FailedFacts ==
  ASSUME NEW a, IsDraft(a), NEW code
  PROVE  LET b == [a EXCEPT !.error = code]
         IN  IsDraft(b) /\ Grows(a, b) /\ b.error = code
<1> DEFINE b == [a EXCEPT !.error = code]
<1>1. a = [f \in DraftFields |-> a[f]]  BY DEF IsDraft
<1>2. /\ b = [f \in DraftFields |-> b[f]] /\ b.error = code
      /\ b.text = a.text /\ b.params = a.params /\ b.names = a.names
  BY <1>1 DEF DraftFields
<1> HIDE DEF b
<1>3. Bound(b.text, b)  BY <1>2 DEF IsDraft, Bound
<1>4. IsDraft(b)  BY <1>2, <1>3 DEF IsDraft
<1>5. Grows(a, b)
  <2>1. Len(a.text) \in Nat /\ Len(a.params) \in Nat /\ Len(a.names) \in Nat  BY DraftFacts
  <2> QED  BY <1>2, <2>1 DEF Grows, Keeps
<1> QED  BY <1>2, <1>4, <1>5 DEF b

(* What a clause selects is settled by the parameters it was written with. *)
LEMMA SelectsStill ==
  ASSUME NEW a, IsDraft(a), NEW b, Keeps(a, b), DOMAIN b.params = 1 .. Len(b.params),
         DOMAIN b.names = 1 .. Len(b.names), Len(b.params) \in Nat, Len(b.names) \in Nat
  PROVE  /\ Bound(a.text, b)
         /\ \A row : Selects(a.text, b.params, row) <=> Selects(a.text, a.params, row)
<1>1. /\ Len(a.text) \in Nat /\ DOMAIN a.text = 1 .. Len(a.text)
      /\ Len(a.params) \in Nat /\ DOMAIN a.params = 1 .. Len(a.params)
      /\ Len(a.names) = Len(a.params) /\ DOMAIN a.names = 1 .. Len(a.params)
  BY DraftFacts
<1>2. ASSUME NEW k \in DOMAIN a.text, NEW j \in DOMAIN a.text[k].at
      PROVE  /\ a.text[k].at[j] \in DOMAIN b.params \intersect DOMAIN b.names
             /\ b.names[a.text[k].at[j]] = a.text[k].column
             /\ b.params[a.text[k].at[j]] = a.params[a.text[k].at[j]]
  <2>1. PICK p \in 1 .. Len(a.params) : p = a.text[k].at[j] /\ a.names[p] = a.text[k].column
    BY <1>1, <1>2 DEF IsDraft, Bound
  <2>2. p \in 1 .. Len(b.params) /\ p \in 1 .. Len(b.names)  BY <1>1 DEF Keeps
  <2>3. b.names[p] = a.names[p] /\ b.params[p] = a.params[p]  BY <1>1 DEF Keeps
  <2> QED  BY <2>1, <2>2, <2>3
<1>3. \A k \in DOMAIN a.text : [j \in DOMAIN a.text[k].at |-> b.params[a.text[k].at[j]]]
                               = [j \in DOMAIN a.text[k].at |-> a.params[a.text[k].at[j]]]
  BY <1>2
<1>4. Bound(a.text, b)  BY <1>2 DEF Bound
<1> QED  BY <1>3, <1>4 DEF Selects

(* One more condition selects what it holds of, of what was selected.      *)
LEMMA SelectsOneMore ==
  ASSUME NEW a, NEW b, IsDraft(a), IsDraft(b), Grows(a, b),
         Len(b.text) = Len(a.text) + 1, NEW row
  PROVE  LET last == b.text[Len(b.text)]
         IN  Selects(b.text, b.params, row) <=>
               /\ Selects(a.text, a.params, row)
               /\ last.test \notin Keywords =>
                    Holds(last.test, row[last.column],
                          [j \in DOMAIN last.at |-> b.params[last.at[j]]])
<1> DEFINE last == b.text[Len(b.text)]
           Meets(k) == b.text[k].test \notin Keywords =>
                         Holds(b.text[k].test, row[b.text[k].column],
                               [j \in DOMAIN b.text[k].at |-> b.params[b.text[k].at[j]]])
<1>1. /\ Len(a.text) \in Nat /\ DOMAIN a.text = 1 .. Len(a.text)
      /\ DOMAIN b.text = 1 .. Len(a.text) + 1
      /\ DOMAIN b.params = 1 .. Len(b.params) /\ DOMAIN b.names = 1 .. Len(b.names)
      /\ Len(b.params) \in Nat /\ Len(b.names) \in Nat
  BY DraftFacts
<1>2. Selects(a.text, b.params, row) <=> Selects(a.text, a.params, row)
  BY <1>1, SelectsStill DEF Grows
<1>3. \A k \in 1 .. Len(a.text) : b.text[k] = a.text[k]  BY DEF Grows
<1>4. Selects(a.text, b.params, row) <=> \A k \in 1 .. Len(a.text) : Meets(k)
  BY <1>1, <1>3 DEF Selects
<1>5. Selects(b.text, b.params, row) <=> \A k \in 1 .. Len(a.text) + 1 : Meets(k)
  BY <1>1 DEF Selects
<1>6. (\A k \in 1 .. Len(a.text) + 1 : Meets(k)) <=>
        (\A k \in 1 .. Len(a.text) : Meets(k)) /\ Meets(Len(a.text) + 1)
  <2> HIDE DEF Meets
  <2> QED  BY <1>1
<1> QED  BY <1>2, <1>4, <1>5, <1>6

(* What the database makes of a condition is what the intent says.         *)
LEMMA TestsHold ==
  /\ \A op \in DOMAIN Symbol :
       /\ Symbol[op] \in Tests \ Keywords
       /\ \A x, v : Holds(Symbol[op], x, <<v>>) <=> Compares(op, x, v)
  /\ \A x : Holds("IS NULL", x, <<>>) <=> x = Null
  /\ \A x : Holds("IS NOT NULL", x, <<>>) <=> x # Null
  /\ \A x, s : Holds("IN", x, s) <=> \E k \in DOMAIN s : Compares("eq", x, s[k])
  /\ \A x, s : Holds("BETWEEN", x, s) <=> Compares("gte", x, s[1]) /\ Compares("lte", x, s[2])
<1> DEFINE Ops == {"eq", "ne", "gt", "gte", "lt", "lte", "like"}
<1>1. /\ DOMAIN Symbol = Ops
      /\ Symbol["eq"] = "=" /\ Symbol["ne"] = "!=" /\ Symbol["gt"] = ">" /\ Symbol["gte"] = ">="
      /\ Symbol["lt"] = "<" /\ Symbol["lte"] = "<=" /\ Symbol["like"] = "LIKE"
  BY DEF Symbol
<1>2. \A op \in Ops : /\ Symbol[op] \in Tests \ Keywords
                      /\ Symbol[op] \notin {"IS NULL", "IS NOT NULL", "IN", "BETWEEN"}
  BY <1>1 DEF Tests, Keywords
<1>3. \A op, other \in Ops : Symbol[op] = Symbol[other] => op = other
  BY <1>1
<1>4. ASSUME NEW op \in Ops, NEW x, NEW v
      PROVE  Holds(Symbol[op], x, <<v>>) <=> Compares(op, x, v)
  <2>1. Holds(Symbol[op], x, <<v>>) <=>
          \E other \in DOMAIN Symbol : Symbol[other] = Symbol[op] /\ Compares(other, x, <<v>>[1])
    BY <1>2 DEF Holds
  <2>2. <<v>>[1] = v  OBVIOUS
  <2> QED  BY <1>1, <1>3, <2>1, <2>2
<1>5. \A x : Holds("IS NULL", x, <<>>) <=> x = Null  BY DEF Holds
<1>6. \A x : Holds("IS NOT NULL", x, <<>>) <=> x # Null  BY DEF Holds
<1>7. \A x, s : Holds("IN", x, s) <=> \E k \in DOMAIN s : Compares("eq", x, s[k])
  BY DEF Holds
<1>8. \A x, s : Holds("BETWEEN", x, s) <=> Compares("gte", x, s[1]) /\ Compares("lte", x, s[2])
  BY DEF Holds
<1> HIDE DEF Ops
<1> QED  BY <1>1, <1>2, <1>4, <1>5, <1>6, <1>7, <1>8

(* From one statement to the next: what was written is kept, and when the  *)
(* conditions alternate with the ANDs, what was asked is what is added.    *)
Alternates(text) == \A k \in 2 .. Len(text) : (text[k] = And) <=> (k % 2 = 1)

Picked(a, row) == Selects(a.text, a.params, row)

Writes(a, b, asked, row) ==
  /\ IsDraft(b) /\ Grows(a, b)
  /\ Odd(Len(a.text)) /\ Even(Len(b.text)) /\ Alternates(b.text) /\ b.error = "none"
       => (Picked(b, row) <=> Picked(a, row) /\ asked)

LEMMA PushWrites ==
  ASSUME NEW a, IsDraft(a), NEW column \in Names, NEW test \in Tests \ Keywords,
         NEW values \in Seq(Int), NEW row
  PROVE  Writes(a, PushTest(a, column, test, values), Holds(test, row[column], values), row)
<1> DEFINE b == PushTest(a, column, test, values)
<1>1. Pushed(a, b, column, test, values)  BY PushFacts
<1> HIDE DEF b
<1>2. /\ IsDraft(b) /\ Grows(a, b) /\ Len(b.text) = Len(a.text) + 1
      /\ b.text[Len(b.text)].column = column /\ b.text[Len(b.text)].test = test
      /\ [j \in DOMAIN b.text[Len(b.text)].at |-> b.params[b.text[Len(b.text)].at[j]]] = values
  BY <1>1 DEF Pushed
<1>3. Selects(b.text, b.params, row) <=>
        Selects(a.text, a.params, row) /\ Holds(test, row[column], values)
  BY <1>2, SelectsOneMore
<1> QED  BY <1>2, <1>3 DEF Writes, Picked, b

(* Nothing written, and nothing that counts once an error is set.          *)
LEMMA NothingWrites ==
  ASSUME NEW a, IsDraft(a), NEW asked, NEW row
  PROVE  Writes(a, a, asked, row)
<1>1. Len(a.text) \in Nat  BY DraftFacts
<1> QED  BY <1>1, GrowsSame, Parity DEF Writes

LEMMA ErrorWritten ==
  ASSUME NEW a, IsDraft(a), NEW asked, NEW row, NEW code, code # "none"
  PROVE  Writes(a, [a EXCEPT !.error = code], asked, row)
<1> DEFINE b == [a EXCEPT !.error = code]
<1>1. IsDraft(b) /\ Grows(a, b) /\ b.error = code  BY FailedFacts
<1> HIDE DEF b
<1>2. Writes(a, b, asked, row)  BY <1>1 DEF Writes
<1> QED  BY <1>2 DEF b

LEMMA OperatorWrites ==
  ASSUME NEW a, IsDraft(a), NEW column \in STRING,
         NEW o \in [op : STRING, arg : Arguments], NEW row
  PROVE  Writes(a, PushOperator(a, column, o), AsksOperator(o, row[column]), row)
<1> DEFINE b == PushOperator(a, column, o)
           x == row[column]
<1>1. /\ column \in Names /\ o.arg \in Arguments /\ o.arg.items \in Seq(Int)
      /\ ~ o.arg.list => Len(o.arg.items) = 1
  BY DEF Names, Arguments
<1>2. ValueToParam(o.arg) \in Int
  BY <1>1 DEF ValueToParam, JsonText
<1>3. CASE o.op \in DOMAIN Symbol
  <2>0. o.op \notin {"null", "in", "between"}  BY <1>3 DEF Symbol
  <2>1. b = PushTest(a, column, Symbol[o.op], <<ValueToParam(o.arg)>>)
    BY <1>3, <2>0 DEF PushOperator
  <2>3. AsksOperator(o, x) <=> Compares(o.op, x, ValueToParam(o.arg))
    BY <2>0 DEF AsksOperator, ValueToParam
  <2>4. <<ValueToParam(o.arg)>> \in Seq(Int)  BY <1>2
  <2>5. /\ Symbol[o.op] \in Tests \ Keywords
        /\ Holds(Symbol[o.op], x, <<ValueToParam(o.arg)>>) <=> Compares(o.op, x, ValueToParam(o.arg))
    BY <1>3, TestsHold
  <2> HIDE DEF b
  <2>6. Writes(a, b, Holds(Symbol[o.op], x, <<ValueToParam(o.arg)>>), row)
    BY <1>1, <2>1, <2>4, <2>5, PushWrites
  <2> QED  BY <2>3, <2>5, <2>6 DEF Writes, b
<1>4. CASE o.op = "null"
  <2> DEFINE test == IF o.arg.true THEN "IS NULL" ELSE "IS NOT NULL"
  <2>1. b = PushTest(a, column, test, <<>>)  BY <1>4 DEF PushOperator, Symbol
  <2>2. test \in Tests \ Keywords  BY DEF Tests, Keywords
  <2>3. <<>> \in Seq(Int)  OBVIOUS
  <2>4. AsksOperator(o, x) <=> Holds(test, x, <<>>)  BY <1>4, TestsHold DEF AsksOperator, Arguments
  <2> HIDE DEF b, test
  <2>5. Writes(a, b, Holds(test, x, <<>>), row)  BY <1>1, <2>1, <2>2, <2>3, PushWrites
  <2> QED  BY <2>4, <2>5 DEF Writes, b
<1>5. CASE o.op = "in"
  <2>1. CASE o.arg.list
    <3>1. b = PushTest(a, column, "IN", o.arg.items)  BY <1>5, <2>1 DEF PushOperator, Symbol
    <3>2. "IN" \in Tests \ Keywords  BY DEF Tests, Keywords
    <3>3. AsksOperator(o, x) <=> Holds("IN", x, o.arg.items)
      BY <1>5, <2>1, TestsHold DEF AsksOperator, ToSet
    <3> HIDE DEF b
    <3>4. Writes(a, b, Holds("IN", x, o.arg.items), row)
      BY <1>1, <3>1, <3>2, PushWrites
    <3> QED  BY <3>3, <3>4 DEF Writes, b
  <2>2. CASE ~ o.arg.list
    <3>1. b = a  BY <1>5, <2>2 DEF PushOperator, Symbol
    <3> QED  BY <3>1, NothingWrites
  <2> QED  BY <2>1, <2>2
<1>6. CASE o.op = "between"
  <2>1. CASE o.arg.list /\ Len(o.arg.items) = 2
    <3>1. b = PushTest(a, column, "BETWEEN", o.arg.items)
      BY <1>6, <2>1 DEF PushOperator, Symbol
    <3>2. "BETWEEN" \in Tests \ Keywords  BY DEF Tests, Keywords
    <3>3. AsksOperator(o, x) <=> Holds("BETWEEN", x, o.arg.items)
      BY <1>6, <2>1, TestsHold DEF AsksOperator
    <3> HIDE DEF b
    <3>4. Writes(a, b, Holds("BETWEEN", x, o.arg.items), row)
      BY <1>1, <3>1, <3>2, PushWrites
    <3> QED  BY <3>3, <3>4 DEF Writes, b
  <2>2. CASE ~ (o.arg.list /\ Len(o.arg.items) = 2)
    <3>1. b = a  BY <1>6, <2>2 DEF PushOperator, Symbol
    <3> QED  BY <3>1, NothingWrites
  <2> QED  BY <2>1, <2>2
<1>7. CASE o.op \notin DOMAIN Symbol \union {"null", "in", "between"}
  <2>1. b = [a EXCEPT !.error = "UNSUPPORTED_OPERATOR"]  BY <1>7 DEF PushOperator
  <2>2. "UNSUPPORTED_OPERATOR" # "none"  OBVIOUS
  <2> QED  BY <2>1, <2>2, ErrorWritten
<1> QED  BY <1>3, <1>4, <1>5, <1>6, <1>7

(* An item more: if one before it had been left out, the AND before it     *)
(* would stand where a condition has to.                                   *)
LEMMA OneMoreItem ==
  ASSUME NEW a, NEW b, NEW c, NEW n \in Nat \ {0}, NEW asked, NEW row, IsDraft(a),
         Writes(a, b, 1 .. n - 1 \subseteq asked, row), n = 1 => a = b,
         b.error # "none" => c = b,
         b.error = "none" => Writes(Separated(b, n), c, n \in asked, row)
  PROVE  Writes(a, c, 1 .. n \subseteq asked, row)
<1>0. 1 .. n \subseteq asked <=> 1 .. n - 1 \subseteq asked /\ n \in asked  OBVIOUS
<1>1. CASE b.error # "none"
  BY <1>1 DEF Writes
<1>2. CASE b.error = "none" /\ n = 1
  <2>1. Writes(a, c, n \in asked, row)  BY <1>2 DEF Separated
  <2>2. 1 .. n \subseteq asked <=> n \in asked  BY <1>2
  <2> QED  BY <2>1, <2>2 DEF Writes
<1>3. CASE b.error = "none" /\ n # 1
  <2> DEFINE d == [b EXCEPT !.text = Append(@, And)]
  <2>1. Separated(b, n) = d  BY <1>3 DEF Separated
  <2>2. IsDraft(b) /\ Grows(a, b)  BY DEF Writes
  <2>3. /\ IsDraft(d) /\ Grows(b, d)
        /\ Len(d.text) = Len(b.text) + 1 /\ d.text[Len(d.text)] = And
    BY <2>2, WordFacts
  <2>4. Writes(d, c, n \in asked, row)  BY <1>3, <2>1
  <2> HIDE DEF d
  <2>5. IsDraft(c) /\ Grows(d, c)  BY <2>4 DEF Writes
  <2>6. Grows(b, c) /\ Grows(a, c)  BY <2>2, <2>3, <2>5, GrowsOn
  <2>7. /\ Len(a.text) \in Nat /\ Len(b.text) \in Nat /\ Len(d.text) \in Nat
        /\ Len(c.text) \in Nat
    BY <2>2, <2>3, <2>5, DraftFacts
  <2>8. /\ Len(a.text) =< Len(b.text) /\ Len(b.text) =< Len(c.text)
        /\ Len(d.text) =< Len(c.text) /\ c.text[Len(d.text)] = And
        /\ \A k \in 1 .. Len(b.text) : c.text[k] = b.text[k]
    <3>1. Len(d.text) \in 1 .. Len(d.text)  BY <2>3, <2>7
    <3> QED  BY <2>2, <2>3, <2>5, <2>6, <3>1 DEF Grows
  <2>9. ASSUME Odd(Len(a.text)), Even(Len(c.text)), Alternates(c.text), c.error = "none"
        PROVE  Picked(c, row) <=> Picked(a, row) /\ 1 .. n \subseteq asked
    <3>1. Len(a.text) # 0
      <4>1. ~ Odd(0)  BY DEF Odd
      <4> QED  BY <2>9, <4>1
    <3>2. Len(d.text) \in 2 .. Len(c.text)  BY <2>3, <2>7, <2>8, <3>1
    <3>3. Odd(Len(d.text))  BY <2>8, <2>9, <3>2 DEF Alternates, Odd
    <3>4. Even(Len(b.text))  BY <2>3, <2>7, <3>3, Parity
    <3>5. Alternates(b.text)
      <4>1. \A k \in 2 .. Len(b.text) : k \in 2 .. Len(c.text) /\ c.text[k] = b.text[k]
        BY <2>7, <2>8
      <4>2. \A k \in 2 .. Len(c.text) : (c.text[k] = And) <=> (k % 2 = 1)
        BY <2>9 DEF Alternates
      <4> QED  BY <4>1, <4>2 DEF Alternates
    <3>6. Picked(b, row) <=> Picked(a, row) /\ 1 .. n - 1 \subseteq asked
      BY <1>3, <2>9, <3>4, <3>5 DEF Writes
    <3>7. Picked(d, row) <=> Picked(b, row)
      <4>1. And.test \in Keywords  BY DEF And, Word, Keywords
      <4> QED  BY <2>2, <2>3, <4>1, SelectsOneMore DEF Picked
    <3>8. Picked(c, row) <=> Picked(d, row) /\ n \in asked
      BY <2>4, <2>9, <3>3 DEF Writes
    <3> QED  BY <1>0, <3>6, <3>7, <3>8
  <2> QED  BY <2>5, <2>6, <2>9 DEF Writes
<1> QED  BY <1>1, <1>2, <1>3

LEMMA ItemsWrite ==
  ASSUME NEW N \in Nat, NEW s, NEW asked, NEW row, IsDraft(s[0]),
         \A n \in 1 .. N :
           /\ s[n - 1].error # "none" => s[n] = s[n - 1]
           /\ s[n - 1].error = "none" /\ IsDraft(s[n - 1])
                => Writes(Separated(s[n - 1], n), s[n], n \in asked, row)
  PROVE  Writes(s[0], s[N], 1 .. N \subseteq asked, row)
<1> DEFINE Done(j) == Writes(s[0], s[j], 1 .. j \subseteq asked, row)
           Bad == {j \in 0 .. N : ~ Done(j)}
<1>1. SUFFICES ASSUME Bad # {} PROVE FALSE
  BY DEF Done
<1>2. PICK m \in Bad : \A j \in Bad : m =< j
  <2>1. Bad \subseteq Nat  OBVIOUS
  <2> HIDE DEF Bad
  <2> QED  BY <1>1, <2>1, LeastExists
<1>3. Done(0)  BY NothingWrites
<1>4. m \in 1 .. N /\ ~ Done(m)  BY <1>3
<1>5. m - 1 \in 0 .. N /\ m - 1 \notin Bad  BY <1>2, <1>4
<1>6. Done(m - 1)  BY <1>5
<1>7. IsDraft(s[m - 1])  BY <1>6 DEF Writes
<1>8. /\ s[m - 1].error # "none" => s[m] = s[m - 1]
      /\ s[m - 1].error = "none" => Writes(Separated(s[m - 1], m), s[m], m \in asked, row)
  BY <1>4, <1>7
<1>9. Done(m)
  <2> DEFINE a == s[0]
             b == s[m - 1]
             c == s[m]
  <2>1. m \in Nat \ {0} /\ (m = 1 => a = b)  BY <1>4
  <2>2. IsDraft(a) /\ Writes(a, b, 1 .. m - 1 \subseteq asked, row)  BY <1>6
  <2>3. /\ b.error # "none" => c = b
        /\ b.error = "none" => Writes(Separated(b, m), c, m \in asked, row)
    BY <1>8
  <2> HIDE DEF a, b, c
  <2>4. Writes(a, c, 1 .. m \subseteq asked, row)
    BY <2>1, <2>2, <2>3, OneMoreItem
  <2> QED  BY <2>4 DEF a, c
<1> QED  BY <1>4, <1>9

(* What a condition of a filter asks of a row.                             *)
AsksCondition(c, row) ==
  CASE c.is = "scalar" -> Compares("eq", row[c.column], c.arg.items[1])
    [] c.is = "null"   -> row[c.column] = Null
    [] OTHER           -> \A j \in DOMAIN c.ops : AsksOperator(c.ops[j], row[c.column])

LEMMA ConditionFacts ==
  ASSUME NEW c \in Conditions
  PROVE  /\ c.column \in STRING /\ c.is \in {"scalar", "null", "object", "array"}
         /\ c.ops \in Seq([op : STRING, arg : Arguments])
         /\ c.is = "scalar" => c.arg.items \in Seq(Int) /\ Len(c.arg.items) = 1
BY DEF Conditions, Arguments

(* The operators of an object, written one after the other.                *)
LEMMA ObjectWrites ==
  ASSUME NEW a, IsDraft(a), NEW c \in Conditions, c.is = "object", NEW row
  PROVE  Writes(a, build_condition(a, c), AsksCondition(c, row), row)
<1> DEFINE N == Len(c.ops)
           Item(d, n) == IF d.error # "none" THEN d
                         ELSE PushOperator(Separated(d, n), c.column, c.ops[n])
           Trail(f, m) == [n \in 0 .. m |-> IF n = 0 THEN a ELSE Item(f[n - 1], n)]
           s == CHOOSE f : f = Trail(f, N)
           asked == {n \in 1 .. N : AsksOperator(c.ops[n], row[c.column])}
<1>1. c.column \in STRING /\ c.ops \in Seq([op : STRING, arg : Arguments]) /\ N \in Nat
      /\ DOMAIN c.ops = 1 .. N
  <2>1. c.column \in STRING /\ c.ops \in Seq([op : STRING, arg : Arguments])
    BY ConditionFacts
  <2> QED  BY <2>1
<1>2. build_condition(a, c) = s[N]  BY DEF build_condition
<1>3. AsksCondition(c, row) <=> 1 .. N \subseteq asked
  BY <1>1 DEF AsksCondition
<1> HIDE DEF Item
<1>4. \E f : f = Trail(f, N)
  <2> DEFINE Lacking == {m \in 0 .. N : ~ \E f : f = Trail(f, m)}
  <2>1. SUFFICES ASSUME Lacking # {} PROVE FALSE
    BY <1>1
  <2>2. PICK m \in Lacking : \A j \in Lacking : m =< j
    <3>1. Lacking \subseteq Nat  BY <1>1
    <3> HIDE DEF Lacking
    <3> QED  BY <2>1, <3>1, LeastExists
  <2>3. m # 0
    <3>1. [n \in 0 .. 0 |-> a] = Trail([n \in 0 .. 0 |-> a], 0)  OBVIOUS
    <3> QED  BY <3>1
  <2>4. PICK f : f = Trail(f, m - 1)
    <3>1. m \in 0 .. N  BY <2>2
    <3>2. m - 1 \in 0 .. N /\ ~ (m =< m - 1)  BY <1>1, <2>3, <3>1
    <3>3. m - 1 \notin Lacking
      <4> HIDE DEF Lacking
      <4> QED  BY <2>2, <3>2
    <3> HIDE DEF Trail
    <3> QED  BY <3>2, <3>3
  <2> DEFINE g == [n \in 0 .. m |-> IF n < m THEN f[n] ELSE Item(f[m - 1], m)]
  <2>5. ASSUME NEW n \in 0 .. m
        PROVE  g[n] = IF n = 0 THEN a ELSE Item(g[n - 1], n)
    BY <1>1, <2>3, <2>4
  <2>6. g = Trail(g, m)
    <3> HIDE DEF g
    <3>1. g = [n \in 0 .. m |-> g[n]]  BY DEF g
    <3> QED  BY <2>5, <3>1
  <2> QED  BY <2>6
<1>5. s = Trail(s, N)
  <2> HIDE DEF Trail
  <2> QED  BY <1>4
<1>6. s[0] = a /\ \A n \in 1 .. N : s[n] = Item(s[n - 1], n)
  <2> HIDE DEF s
  <2> QED  BY <1>1, <1>5
<1> HIDE DEF s, asked
<1>7. ASSUME NEW n \in 1 .. N
      PROVE  /\ s[n - 1].error # "none" => s[n] = s[n - 1]
             /\ s[n - 1].error = "none" /\ IsDraft(s[n - 1])
                  => Writes(Separated(s[n - 1], n), s[n], n \in asked, row)
  <2>1. CASE s[n - 1].error # "none"  BY <1>6, <2>1 DEF Item
  <2>2. CASE s[n - 1].error = "none" /\ IsDraft(s[n - 1])
    <3> DEFINE d == Separated(s[n - 1], n)
    <3>1. IsDraft(d)  BY <2>2, WordFacts DEF Separated
    <3>2. s[n] = PushOperator(d, c.column, c.ops[n])  BY <1>6, <2>2 DEF Item
    <3>3. c.ops[n] \in [op : STRING, arg : Arguments]
      <4> DEFINE Operators == [op : STRING, arg : Arguments]
      <4>1. c.ops \in Seq(Operators) /\ n \in 1 .. Len(c.ops)  BY <1>1
      <4> HIDE DEF Operators
      <4>2. c.ops[n] \in Operators  BY <4>1
      <4> QED  BY <4>2 DEF Operators
    <3> HIDE DEF d
    <3>4. Writes(d, s[n], AsksOperator(c.ops[n], row[c.column]), row)
      BY <1>1, <3>1, <3>2, <3>3, OperatorWrites
    <3>5. AsksOperator(c.ops[n], row[c.column]) <=> n \in asked  BY DEF asked
    <3>6. Writes(d, s[n], n \in asked, row)  BY <3>4, <3>5 DEF Writes
    <3> QED  BY <2>2, <3>6 DEF d
  <2> QED  BY <2>1, <2>2
<1>8. Writes(s[0], s[N], 1 .. N \subseteq asked, row)
  BY <1>1, <1>6, <1>7, ItemsWrite
<1> QED  BY <1>2, <1>3, <1>6, <1>8 DEF Writes

LEMMA ConditionWrites ==
  ASSUME NEW a, IsDraft(a), NEW c \in Conditions, NEW row
  PROVE  Writes(a, build_condition(a, c), AsksCondition(c, row), row)
<1> DEFINE x == row[c.column]
           b == build_condition(a, c)
<1>1. /\ c.column \in Names /\ c.is \in {"scalar", "null", "object", "array"}
      /\ c.is = "scalar" => c.arg.items \in Seq(Int) /\ Len(c.arg.items) = 1
  BY ConditionFacts DEF Names
<1>2. CASE c.is = "scalar"
  <2>1. b = PushTest(a, c.column, "=", c.arg.items)  BY <1>2 DEF build_condition
  <2>2. "eq" \in DOMAIN Symbol /\ Symbol["eq"] = "="  BY DEF Symbol
  <2>3. c.arg.items = <<c.arg.items[1]>>
    <3> DEFINE items == c.arg.items
    <3>1. items \in Seq(Int) /\ Len(items) = 1  BY <1>1, <1>2
    <3> HIDE DEF items
    <3>2. items = <<items[1]>>  BY <3>1
    <3> QED  BY <3>2 DEF items
  <2>4. "=" \in Tests \ Keywords
        /\ (Holds("=", x, <<c.arg.items[1]>>) <=> Compares("eq", x, c.arg.items[1]))
    BY <2>2, TestsHold
  <2>5. AsksCondition(c, row) <=> Compares("eq", x, c.arg.items[1])
    BY <1>2 DEF AsksCondition
  <2> HIDE DEF b
  <2>6. Writes(a, b, Holds("=", x, c.arg.items), row)
    BY <1>1, <1>2, <2>1, <2>4, PushWrites
  <2>7. Holds("=", x, c.arg.items) <=> AsksCondition(c, row)
    BY <2>3, <2>4, <2>5
  <2> QED  BY <2>6, <2>7 DEF Writes, b
<1>3. CASE c.is = "null"
  <2>1. b = PushTest(a, c.column, "IS NULL", <<>>)  BY <1>3 DEF build_condition
  <2>2. "IS NULL" \in Tests \ Keywords  BY DEF Tests, Keywords
  <2>3. <<>> \in Seq(Int)  OBVIOUS
  <2>4. AsksCondition(c, row) <=> Holds("IS NULL", x, <<>>)
    BY <1>3, TestsHold DEF AsksCondition
  <2> HIDE DEF b
  <2>5. Writes(a, b, Holds("IS NULL", x, <<>>), row)
    BY <1>1, <2>1, <2>2, <2>3, PushWrites
  <2> QED  BY <2>4, <2>5 DEF Writes, b
<1>4. CASE c.is = "object"  BY <1>4, ObjectWrites
<1>5. CASE c.is = "array"
  <2>1. b = [a EXCEPT !.error = "INVALID_CONDITION"]  BY <1>5 DEF build_condition
  <2>2. "INVALID_CONDITION" # "none"  OBVIOUS
  <2> QED  BY <2>1, <2>2, ErrorWritten
<1> QED  BY <1>1, <1>2, <1>3, <1>4, <1>5

(* A clause begins with its keyword, which selects everything.             *)
LEMMA KeywordFacts ==
  ASSUME NEW a, IsDraft(a), NEW keyword \in {"WHERE", "HAVING"}
  PROVE  LET b == [a EXCEPT !.text = <<Word(keyword)>>]
         IN  /\ IsDraft(b) /\ Keeps(a, b) /\ Len(b.text) = 1
             /\ \A row : Picked(b, row)
<1> DEFINE word == Word(keyword)
           b == [a EXCEPT !.text = <<word>>]
<1>1. word.column = "" /\ word.test = keyword /\ word.at = <<>>  BY DEF Word
<1>2. word \in Tokens
  <2>1. "" \in Names /\ keyword \in Tests  BY DEF Names, Tests, Keywords
  <2>2. <<>> \in Seq(Nat)  OBVIOUS
  <2> QED  BY <2>1, <2>2 DEF Word, Tokens
<1>3. keyword \in Keywords  BY DEF Keywords
<1>4. a = [f \in DraftFields |-> a[f]]  BY DEF IsDraft
<1> HIDE DEF word
<1>5. /\ b = [f \in DraftFields |-> b[f]] /\ b.text = <<word>>
      /\ b.params = a.params /\ b.names = a.names
  BY <1>4 DEF DraftFields
<1> HIDE DEF b
<1>6. b.text \in Seq(Tokens) /\ Len(b.text) = 1 /\ DOMAIN b.text = {1} /\ b.text[1] = word
  <2>1. b.text = <<word>>  BY <1>5
  <2> QED  BY <1>2, <2>1
<1>7. Bound(b.text, b)
  <2>1. DOMAIN word.at = {}
    <3>1. DOMAIN <<>> = {}  OBVIOUS
    <3> QED  BY <1>1, <3>1
  <2> QED  BY <1>6, <2>1 DEF Bound
<1>8. IsDraft(b)  BY <1>5, <1>6, <1>7 DEF IsDraft
<1>9. Keeps(a, b)
  <2>1. Len(a.params) \in Nat /\ Len(a.names) \in Nat  BY DraftFacts
  <2> QED  BY <1>5, <2>1 DEF Keeps
<1>10. \A row : Picked(b, row)  BY <1>1, <1>3, <1>6 DEF Picked, Selects
<1> QED  BY <1>6, <1>8, <1>9, <1>10 DEF b, word

(* A clause that the database runs selects what its filter asks for.       *)
ClauseSays(a, b, filter) ==
  /\ IsDraft(b) /\ Keeps(a, b)
  /\ b.error = "none" /\ WellFormed(b.text)
       => \A row : Picked(b, row) <=> Asks(filter, row)

LEMMA ClauseMeans ==
  ASSUME NEW a, IsDraft(a), a.text = <<>>, NEW keyword \in {"WHERE", "HAVING"},
         NEW filter \in Seq(Conditions)
  PROVE  ClauseSays(a, Clause(a, keyword, filter), filter)
<1> DEFINE N == Len(filter)
           b == Clause(a, keyword, filter)
           h == [a EXCEPT !.text = <<Word(keyword)>>]
           Item(d, n) == IF d.error # "none" THEN d
                         ELSE build_condition(Separated(d, n), filter[n])
           Trail(f, m) == [n \in 0 .. m |-> IF n = 0 THEN h ELSE Item(f[n - 1], n)]
           s == CHOOSE f : f = Trail(f, N)
<1>1. N \in Nat /\ DOMAIN filter = 1 .. N /\ \A n \in 1 .. N : filter[n] \in Conditions
  OBVIOUS
<1>2. \A row : Asks(filter, row) <=> \A n \in 1 .. N : AsksCondition(filter[n], row)
  BY <1>1 DEF Asks, AsksCondition
<1>3. b = IF filter = <<>> THEN a ELSE s[N]
  <2>1. filter # Other  BY OtherAssumption
  <2> QED  BY <2>1 DEF Clause
<1>4. CASE filter = <<>>
  <2>1. b = a /\ DOMAIN filter = {} /\ DOMAIN a.text = {}
    <3>1. DOMAIN <<>> = {}  OBVIOUS
    <3> QED  BY <1>3, <1>4, <3>1
  <2>2. \A row : Picked(a, row) /\ Asks(filter, row)
    BY <2>1 DEF Picked, Selects, Asks
  <2>3. Keeps(a, a)  BY GrowsSame DEF Grows
  <2> QED  BY <2>1, <2>2, <2>3 DEF ClauseSays
<1>5. CASE filter # <<>>
  <2>1. b = s[N]  BY <1>3, <1>5
  <2>2. IsDraft(h) /\ Keeps(a, h) /\ Len(h.text) = 1 /\ \A row : Picked(h, row)
    BY KeywordFacts
  <2> HIDE DEF h, Item, b
  <2>3. \E f : f = Trail(f, N)
    <3> DEFINE Lacking == {m \in 0 .. N : ~ \E f : f = Trail(f, m)}
    <3>1. SUFFICES ASSUME Lacking # {} PROVE FALSE
      BY <1>1
    <3>2. PICK m \in Lacking : \A j \in Lacking : m =< j
      <4>1. Lacking \subseteq Nat  BY <1>1
      <4> HIDE DEF Lacking
      <4> QED  BY <3>1, <4>1, LeastExists
    <3>3. m # 0
      <4>1. [n \in 0 .. 0 |-> h] = Trail([n \in 0 .. 0 |-> h], 0)  OBVIOUS
      <4> QED  BY <4>1
    <3>4. PICK f : f = Trail(f, m - 1)
      <4>1. m \in 0 .. N  BY <3>2
      <4>2. m - 1 \in 0 .. N /\ ~ (m =< m - 1)  BY <1>1, <3>3, <4>1
      <4>3. m - 1 \notin Lacking
        <5> HIDE DEF Lacking
        <5> QED  BY <3>2, <4>2
      <4> HIDE DEF Trail
      <4> QED  BY <4>2, <4>3
    <3> DEFINE g == [n \in 0 .. m |-> IF n < m THEN f[n] ELSE Item(f[m - 1], m)]
    <3>5. ASSUME NEW n \in 0 .. m
          PROVE  g[n] = IF n = 0 THEN h ELSE Item(g[n - 1], n)
      BY <1>1, <3>3, <3>4
    <3>6. g = Trail(g, m)
      <4> HIDE DEF g
      <4>1. g = [n \in 0 .. m |-> g[n]]  BY DEF g
      <4> QED  BY <3>5, <4>1
    <3> QED  BY <3>6
  <2>4. s = Trail(s, N)
    <3> HIDE DEF Trail
    <3> QED  BY <2>3
  <2>5. s[0] = h /\ \A n \in 1 .. N : s[n] = Item(s[n - 1], n)
    <3> HIDE DEF s
    <3> QED  BY <1>1, <2>4
  <2> HIDE DEF s
  <2>6. ASSUME NEW row
        PROVE  Writes(h, b, \A n \in 1 .. N : AsksCondition(filter[n], row), row)
    <3> DEFINE asked == {n \in 1 .. N : AsksCondition(filter[n], row)}
    <3>1. 1 .. N \subseteq asked <=> \A n \in 1 .. N : AsksCondition(filter[n], row)
      OBVIOUS
    <3>2. ASSUME NEW n \in 1 .. N
          PROVE  /\ s[n - 1].error # "none" => s[n] = s[n - 1]
                 /\ s[n - 1].error = "none" /\ IsDraft(s[n - 1])
                      => Writes(Separated(s[n - 1], n), s[n], n \in asked, row)
      <4>1. CASE s[n - 1].error # "none"  BY <2>5, <4>1 DEF Item
      <4>2. CASE s[n - 1].error = "none" /\ IsDraft(s[n - 1])
        <5> DEFINE d == Separated(s[n - 1], n)
        <5>1. IsDraft(d)  BY <4>2, WordFacts DEF Separated
        <5>2. s[n] = build_condition(d, filter[n])  BY <2>5, <4>2 DEF Item
        <5> HIDE DEF d
        <5>3. Writes(d, s[n], AsksCondition(filter[n], row), row)
          BY <1>1, <5>1, <5>2, ConditionWrites
        <5>4. AsksCondition(filter[n], row) <=> n \in asked  OBVIOUS
        <5> HIDE DEF asked
        <5>5. Writes(d, s[n], n \in asked, row)  BY <5>3, <5>4 DEF Writes
        <5> QED  BY <4>2, <5>5 DEF d
      <4> QED  BY <4>1, <4>2
    <3> HIDE DEF asked
    <3>3. Writes(s[0], s[N], 1 .. N \subseteq asked, row)
      BY <1>1, <2>2, <2>5, <3>2, ItemsWrite
    <3> QED  BY <2>1, <2>5, <3>1, <3>3 DEF Writes
  <2>7. IsDraft(b) /\ Grows(h, b)  BY <2>6 DEF Writes
  <2>8. Keeps(a, b)
    <3>1. /\ Len(a.params) \in Nat /\ Len(a.names) \in Nat
          /\ Len(h.params) \in Nat /\ Len(h.names) \in Nat
          /\ Len(b.params) \in Nat /\ Len(b.names) \in Nat
      BY <2>2, <2>7, DraftFacts
    <3> QED  BY <2>2, <2>7, <3>1 DEF Grows, Keeps
  <2>9. ASSUME b.error = "none", WellFormed(b.text), NEW row
        PROVE  Picked(b, row) <=> Asks(filter, row)
    <3>1. Odd(Len(h.text))  BY <2>2 DEF Odd
    <3>2. Len(b.text) \in Nat /\ 1 =< Len(b.text)  BY <2>2, <2>7, DraftFacts DEF Grows
    <3>3. b.text # <<>>
      <4>1. Len(<<>>) = 0  OBVIOUS
      <4> QED  BY <3>2, <4>1
    <3>4. Even(Len(b.text)) /\ Alternates(b.text)
      BY <2>9, <3>3 DEF WellFormed, Even, Alternates
    <3>5. Picked(b, row) <=> \A n \in 1 .. N : AsksCondition(filter[n], row)
      BY <2>2, <2>6, <2>9, <3>1, <3>4 DEF Writes
    <3> QED  BY <1>2, <3>5
  <2> QED  BY <2>7, <2>8, <2>9 DEF ClauseSays, b
<1> QED  BY <1>4, <1>5

(* A clause of a query that the database runs is its filter, and what it   *)
(* refers to is in the query.                                              *)
Says(q, clause, filter) ==
  /\ Bound(clause, q)
  /\ WellFormed(clause) => \A row : Selects(clause, q.params, row) <=> Asks(filter, row)

QueryMeans(q, i) ==
  /\ Says(q, q.where, i.where) /\ Bound(q.having, q)
  /\ i.action = "aggregate" /\ i.having # Other => Says(q, q.having, i.having)

LEMMA BlankFacts == IsDraft(Blank) /\ Blank.text = <<>>
<1>1. Blank = [f \in DraftFields |-> Blank[f]]  BY DEF Blank, DraftFields
<1>2. Blank.text = <<>> /\ Blank.params = <<>> /\ Blank.names = <<>>  BY DEF Blank
<1>3. /\ <<>> \in Seq(Tokens) /\ <<>> \in Seq(Int) /\ <<>> \in Seq(Names)
      /\ DOMAIN <<>> = {}
  OBVIOUS
<1>4. Bound(Blank.text, Blank)  BY <1>2, <1>3 DEF Bound
<1> QED  BY <1>1, <1>2, <1>3, <1>4 DEF IsDraft

(* A statement with the parameters of a draft says of an earlier draft's   *)
(* clause what that draft did.                                             *)
LEMMA ClauseStays ==
  ASSUME NEW a, NEW b, NEW last, NEW filter, NEW q, ClauseSays(a, b, filter),
         b.error = "none", IsDraft(last), Keeps(b, last),
         q.params = last.params, q.names = last.names
  PROVE  Says(q, b.text, filter)
<1>1. IsDraft(b)  BY DEF ClauseSays
<1>2. /\ DOMAIN last.params = 1 .. Len(last.params) /\ DOMAIN last.names = 1 .. Len(last.names)
      /\ Len(last.params) \in Nat /\ Len(last.names) \in Nat
  BY DraftFacts
<1>3. /\ Bound(b.text, last)
      /\ \A row : Selects(b.text, last.params, row) <=> Selects(b.text, b.params, row)
  BY <1>1, <1>2, SelectsStill
<1>4. Bound(b.text, q)  BY <1>3 DEF Bound
<1>5. WellFormed(b.text) => \A row : Selects(b.text, b.params, row) <=> Asks(filter, row)
  BY DEF ClauseSays, Picked
<1> QED  BY <1>3, <1>4, <1>5 DEF Says

LEMMA EmptyIsBound == \A q : Bound(<<>>, q)
<1>1. DOMAIN <<>> = {}  OBVIOUS
<1> QED  BY <1>1 DEF Bound

LEMMA FilteredMeans ==
  ASSUME NEW i, i.where \in Seq(Conditions), NEW q, i.action # "aggregate",
         Clause(Blank, "WHERE", i.where).error = "none",
         q.where = Clause(Blank, "WHERE", i.where).text, q.having = <<>>,
         q.params = Clause(Blank, "WHERE", i.where).params,
         q.names = Clause(Blank, "WHERE", i.where).names
  PROVE  QueryMeans(q, i)
<1> DEFINE acc == Clause(Blank, "WHERE", i.where)
<1>1. ClauseSays(Blank, acc, i.where)
  <2>1. "WHERE" \in {"WHERE", "HAVING"}  OBVIOUS
  <2> QED  BY <2>1, BlankFacts, ClauseMeans
<1> HIDE DEF acc
<1>2. IsDraft(acc) /\ Keeps(acc, acc)  BY <1>1, GrowsSame DEF ClauseSays, Grows
<1>3. Says(q, acc.text, i.where)  BY <1>1, <1>2, ClauseStays DEF acc
<1> QED  BY <1>3, EmptyIsBound DEF QueryMeans, acc

LEMMA SelectMeans ==
  ASSUME NEW i, i.where \in Seq(Conditions), i.action # "aggregate", NEW v,
         build_select_query(i, v).error = "none"
  PROVE  QueryMeans(build_select_query(i, v), i)
<1> DEFINE acc == Clause(Blank, "WHERE", i.where)
           columns == SelectList(i, v)
           base == Statement(acc, acc.text, <<>>, columns)
           order == ColumnList("ORDER BY", i.order_by)
           limit == RowLimit(i.limit, v.max_rows)
           q == [base EXCEPT !.order = order, !.limit = limit, !.offset = i.offset]
<1>1. build_select_query(i, v) =
        IF i.table = ""            THEN Refuse("MISSING_TABLE")
        ELSE IF acc.error # "none" THEN Refuse(acc.error)
        ELSE q
  BY DEF build_select_query
<1>2. /\ IsQuery(base) /\ base.where = acc.text /\ base.having = <<>>
      /\ base.params = acc.params /\ base.names = acc.names
  BY StatementFacts
<1> HIDE DEF columns, base, order, limit
<1>3. /\ q.where = base.where /\ q.having = base.having
      /\ q.params = base.params /\ q.names = base.names
  BY <1>2 DEF IsQuery, QueryFields
<1> HIDE DEF acc, q
<1>4. build_select_query(i, v) = q /\ acc.error = "none"
  BY <1>1, RefuseFacts
<1>5. QueryMeans(q, i)  BY <1>2, <1>3, <1>4, FilteredMeans DEF acc
<1> QED  BY <1>4, <1>5

LEMMA CountMeans ==
  ASSUME NEW i, i.where \in Seq(Conditions), i.action # "aggregate",
         build_count_query(i).error = "none"
  PROVE  QueryMeans(build_count_query(i), i)
<1> DEFINE acc == Clause(Blank, "WHERE", i.where)
           q == Statement(acc, acc.text, <<>>, <<"count">>)
<1>1. build_count_query(i) =
        IF i.table = ""            THEN Refuse("MISSING_TABLE")
        ELSE IF acc.error # "none" THEN Refuse(acc.error)
        ELSE q
  BY DEF build_count_query
<1>2. /\ q.where = acc.text /\ q.having = <<>> /\ q.params = acc.params /\ q.names = acc.names
  BY StatementFacts
<1> HIDE DEF acc, q
<1>3. build_count_query(i) = q /\ acc.error = "none"
  BY <1>1, RefuseFacts
<1>4. QueryMeans(q, i)  BY <1>2, <1>3, FilteredMeans DEF acc
<1> QED  BY <1>3, <1>4

(* HAVING is written with the parameters of WHERE before its own.          *)
LEMMA AggregateMeans ==
  ASSUME NEW i, i.where \in Seq(Conditions),
         i.having \in Seq(Conditions) \union {Other}, NEW v,
         build_aggregate_query(i, v).error = "none"
  PROVE  QueryMeans(build_aggregate_query(i, v), i)
<1> DEFINE filtered == Clause(Blank, "WHERE", i.where)
           open == [filtered EXCEPT !.text = <<>>]
           grouped == Clause(open, "HAVING", i.having)
           base == Statement(grouped, filtered.text, grouped.text, Aggregated(i))
           group == ColumnList("GROUP BY", i.group_by)
           q == [base EXCEPT !.group = group, !.limit = v.max_rows]
           odd == ~ (ToSet(i.aggregates) \subseteq Aggregates)
<1>1. build_aggregate_query(i, v) =
        IF i.table = ""                 THEN Refuse("MISSING_TABLE")
        ELSE IF i.aggregates = Other     THEN Refuse("MISSING_AGGREGATES")
        ELSE IF odd                     THEN Refuse("INVALID_AGGREGATE")
        ELSE IF filtered.error # "none" THEN Refuse(filtered.error)
        ELSE IF grouped.error # "none"  THEN Refuse(grouped.error)
        ELSE q
  BY DEF build_aggregate_query
<1>2. /\ IsQuery(base) /\ base.where = filtered.text /\ base.having = grouped.text
      /\ base.params = grouped.params /\ base.names = grouped.names
  BY StatementFacts
<1> HIDE DEF base, group
<1>3. /\ q.where = filtered.text /\ q.having = grouped.text
      /\ q.params = grouped.params /\ q.names = grouped.names
  <2> HIDE DEF filtered, grouped
  <2> QED  BY <1>2 DEF IsQuery, QueryFields
<1> HIDE DEF q, odd
<1>4. ClauseSays(Blank, filtered, i.where)
  <2>1. "WHERE" \in {"WHERE", "HAVING"}  OBVIOUS
  <2> QED  BY <2>1, BlankFacts, ClauseMeans
<1> HIDE DEF filtered
<1>5. IsDraft(filtered)  BY <1>4 DEF ClauseSays
<1>6. IsDraft(open) /\ open.text = <<>> /\ Keeps(filtered, open)
  <2>1. /\ open = [f \in DraftFields |-> open[f]] /\ open.text = <<>>
        /\ open.params = filtered.params /\ open.names = filtered.names
    BY <1>5 DEF IsDraft, DraftFields
  <2> HIDE DEF open
  <2>2. <<>> \in Seq(Tokens) /\ Bound(open.text, open)
    BY <2>1, EmptyIsBound
  <2>3. IsDraft(open)  BY <1>5, <2>1, <2>2 DEF IsDraft
  <2>4. Len(filtered.params) \in Nat /\ Len(filtered.names) \in Nat  BY <1>5, DraftFacts
  <2> QED  BY <2>1, <2>3, <2>4 DEF Keeps
<1> HIDE DEF open
<1>7. /\ IsDraft(grouped) /\ Keeps(open, grouped)
      /\ i.having # Other => ClauseSays(open, grouped, i.having)
  <2>1. CASE i.having = Other
    <3>1. grouped = open  BY <2>1 DEF Clause
    <3> QED  BY <1>6, <2>1, <3>1, GrowsSame DEF Grows
  <2>2. CASE i.having # Other
    <3>1. i.having \in Seq(Conditions) /\ "HAVING" \in {"WHERE", "HAVING"}  BY <2>2
    <3>2. ClauseSays(open, grouped, i.having)  BY <1>6, <3>1, ClauseMeans
    <3> QED  BY <3>2 DEF ClauseSays
  <2> QED  BY <2>1, <2>2
<1> HIDE DEF grouped
<1>8. IsDraft(grouped) /\ Keeps(open, grouped) /\ Keeps(grouped, grouped)
  BY <1>7, GrowsSame DEF Grows
<1>9. Keeps(filtered, grouped)
  <2>1. /\ Len(filtered.params) \in Nat /\ Len(filtered.names) \in Nat
        /\ Len(open.params) \in Nat /\ Len(open.names) \in Nat
        /\ Len(grouped.params) \in Nat /\ Len(grouped.names) \in Nat
    BY <1>5, <1>6, <1>8, DraftFacts
  <2> QED  BY <1>6, <1>8, <2>1 DEF Keeps
<1>10. /\ build_aggregate_query(i, v) = q
       /\ filtered.error = "none" /\ grouped.error = "none"
  BY <1>1, RefuseFacts
<1>11. Says(q, filtered.text, i.where)
  BY <1>3, <1>4, <1>8, <1>9, <1>10, ClauseStays
<1>12. i.having # Other => Says(q, grouped.text, i.having)
  BY <1>3, <1>7, <1>8, <1>10, ClauseStays
<1>13. Bound(grouped.text, q)
  <2>1. Bound(grouped.text, grouped)  BY <1>8 DEF IsDraft
  <2> QED  BY <1>3, <2>1 DEF Bound
<1> QED  BY <1>3, <1>10, <1>11, <1>12, <1>13 DEF QueryMeans, Says

LEMMA TranslationMeans ==
  ASSUME NEW i, i.where \in Seq(Conditions),
         i.having \in Seq(Conditions) \union {Other}, NEW v,
         i.target = "sqlite", translate_intent(i, v).error = "none"
  PROVE  QueryMeans(translate_intent(i, v), i)
<1>1. translate_intent(i, v) = translate_sqlite(i, v)  BY DEF translate_intent
<1>2. CASE i.action = "select"
  <2>1. translate_intent(i, v) = build_select_query(i, v)  BY <1>1, <1>2 DEF translate_sqlite
  <2> QED  BY <1>2, <2>1, SelectMeans
<1>3. CASE i.action = "count"
  <2>1. translate_intent(i, v) = build_count_query(i)  BY <1>1, <1>3 DEF translate_sqlite
  <2> QED  BY <1>3, <2>1, CountMeans
<1>4. CASE i.action = "aggregate"
  <2>1. translate_intent(i, v) = build_aggregate_query(i, v)  BY <1>1, <1>4 DEF translate_sqlite
  <2> QED  BY <2>1, AggregateMeans
<1>5. CASE i.action \notin {"select", "count", "aggregate"}
  <2>1. translate_intent(i, v) = Refuse("UNSUPPORTED_ACTION")
    BY <1>1, <1>5 DEF translate_sqlite
  <2> QED  BY <2>1, RefuseFacts
<1> QED  BY <1>2, <1>3, <1>4, <1>5

-----------------------------------------------------------------------------
(* The chain of chat2data nodes: what each node works on was made by the   *)
(* node before it, from the intent the model gave and under the            *)
(* configuration the flow has.                                             *)

Judged(st, i, c, v) ==
  /\ st = "ready" /\ i \in Intents /\ i # NoIntent
  /\ v = validate_intent(i, c.strict_mode) /\ v.valid

Asked(q, i, v) == q = translate_intent(i, v) /\ q.error = "none"

(* The rows are those the query asks for of what the source held.          *)
Fetched(d, q, n, i, v) ==
  /\ i.target = "sqlite" => n \in Nat /\ d.rows = Returned(q, n)
  /\ i.target = "github" =>
       /\ d.total = NoNumber
       /\ d.truncated <=> d.rows >= v.max_rows
       /\ \/ n = NoNumber /\ d.rows = 0
          \/ n \in Nat /\ d.rows = PageOf(q, n) /\ (q.per_page = NoNumber => n = 1)

Shown(k, d, c) == \E r : k = handle_render(d, r, c.max_list_items)

Passed   == pc \in {"translate", "execute", "runtime", "github", "render"} \/ answer = "card"
Prepared == pc \in {"execute", "runtime", "github", "render"} \/ answer = "card"

ChatInv ==
  /\ ChatTypeInvariant
  /\ intent \in Intents \union {NoIntent}
  /\ Passed => Judged(status, intent, cfg, verdict)
  /\ Prepared => Asked(query, intent, verdict)
  /\ pc = "github" => query.type = "http"
  /\ pc = "render" \/ answer = "card" => Fetched(data, query, source, intent, verdict)
  /\ answer = "card" => Shown(card, data, cfg)

LEMMA JudgedFacts ==
  ASSUME NEW st, NEW i, NEW c \in Configs, NEW v, Judged(st, i, c, v)
  PROVE  /\ i.limit \in Nat \union {NoNumber} /\ i.offset \in Nat
         /\ i.target = "sqlite" => i.where # Other
         /\ IsVerdict(v) /\ v.max_rows \in Nat
         /\ i.target = "github" => v.max_rows = 100
         /\ c.strict_mode /\ i.target = "sqlite" => v.sanitized_columns = Named(i.columns)
<1>1. i \in Intents /\ v = validate_intent(i, c.strict_mode) /\ v.valid  BY DEF Judged
<1>2. i.limit \in Nat \union {NoNumber} /\ i.offset \in Nat  BY <1>1, IntentsAssumption
<1>3. IsVerdict(v) /\ v.max_rows = Ruled(i).max_rows /\ Ruled(i).some
  BY <1>1, ValidateIntentFacts
<1>4. v.max_rows \in Nat  BY <1>3 DEF IsVerdict
<1>5. /\ i.target = "github" => v.max_rows = 100
      /\ i.target = "sqlite" => i.where # Other
  BY <1>3, RuledFacts
<1>6. ASSUME c.strict_mode, i.target = "sqlite"
      PROVE  v.sanitized_columns = Named(i.columns)
  <2>1. c.strict_mode = TRUE  BY <1>6, ConfigsAssumption
  <2> QED  BY <1>1, <1>6, <2>1, StrictKeepsColumns
<1> QED  BY <1>2, <1>3, <1>4, <1>5, <1>6

(* A query the translator handed over is bounded by the verdict.           *)
LEMMA AskedFacts ==
  ASSUME NEW st, NEW i, NEW c \in Configs, NEW v, NEW q,
         Judged(st, i, c, v), Asked(q, i, v)
  PROVE  QueryOf(q, i, v) /\ q.error = "none"
BY JudgedFacts, QueryFacts DEF Asked

LEMMA HandleValidateFacts ==
  ASSUME NEW st, NEW i, NEW strict
  PROVE  LET v == handle_validate(st, i, strict)
         IN  /\ v.max_rows \in Nat
             /\ IF st = "ready" THEN v = validate_intent(i, strict) /\ ~ v.pass_through
                ELSE v.pass_through
<1>1. CASE st = "ready"
  <2>1. IsVerdict(validate_intent(i, strict))  BY ValidateIntentFacts
  <2> QED  BY <1>1, <2>1 DEF handle_validate, IsVerdict
<1>2. CASE st # "ready"
  <2>1. LET v == [NoVerdict EXCEPT !.valid = TRUE, !.pass_through = TRUE]
        IN  v.max_rows = 0 /\ v.pass_through
    BY NoVerdictFacts DEF IsVerdict, VerdictFields
  <2> QED  BY <1>2, <2>1 DEF handle_validate
<1> QED  BY <1>1, <1>2

(* Whatever is fetched is a number of rows.                                *)
LEMMA AtMostFacts ==
  ASSUME NEW a \in Nat, NEW b \in Nat
  PROVE  /\ AtMost(a, b) \in Nat /\ AtMost(a, b) =< a /\ AtMost(a, b) =< b
         /\ AtMost(a, b) \in {a, b}
BY DEF AtMost

LEMMA ReturnedIsNat ==
  ASSUME NEW q, q.limit \in Nat \union {NoNumber}, q.offset \in Nat, NEW n \in Nat
  PROVE  Returned(q, n) \in Nat
<1>1. q.offset < n => n - q.offset \in Nat  OBVIOUS
<1> QED  BY <1>1, AtMostFacts DEF Returned

(* A card says which renderer made it.                                     *)
LEMMA CardFacts ==
  ASSUME NEW d, NEW r, NEW m
  PROVE  LET k == handle_render(d, r, m)
         IN  /\ k.used \in Renderers
             /\ k.used = "list"  => k = render_list(d, m)
             /\ k.used = "table" => k = render_table(d, m)
             /\ k.used \notin {"list", "table"} => k.of = NoNumber
             /\ k.says = "No results found" => d.rows = 0
<1> DEFINE used == IF r = "auto" THEN auto_select_renderer(d) ELSE r
<1>1. handle_render(d, r, m) = CASE used = "list"  -> render_list(d, m)
                                 [] used = "card"  -> render_card(d)
                                 [] used = "graph" -> render_graph(d)
                                 [] OTHER          -> render_table(d, m)
  BY DEF handle_render
<1> HIDE DEF used
<1>2. render_list(d, m).used = "list"
      /\ (render_list(d, m).says = "No results found" => d.rows = 0)
  BY DEF render_list
<1>3. render_table(d, m).used = "table"
      /\ (render_table(d, m).says = "No results found" => d.rows = 0)
  BY DEF render_table
<1>4. /\ render_card(d).used = "card" /\ render_card(d).says # "No results found"
      /\ render_card(d).of = NoNumber
  BY DEF render_card
<1>5. /\ render_graph(d).used = "graph" /\ render_graph(d).says # "No results found"
      /\ render_graph(d).of = NoNumber
  BY DEF render_graph
<1> QED  BY <1>1, <1>2, <1>3, <1>4, <1>5 DEF Renderers

LEMMA InitChatInv == ChatInit => ChatInv
<1> SUFFICES ASSUME ChatInit PROVE ChatInv  OBVIOUS
<1>1. NoVerdict.max_rows \in Nat /\ NoQuery.limit \in Nat \union {NoNumber}
  BY NoVerdictFacts, NoQueryFacts
<1>2. NoData.rows \in Nat /\ NoCard.used \in Renderers \union {"none"}
  BY DEF NoData, NoCard
<1> QED  BY <1>1, <1>2, TurnsAssumption
         DEF ChatInit, ChatInv, ChatTypeInvariant, Passed, Prepared, Steps, Statuses, Answers

(* A node that ends the question without a card leaves nothing to work on. *)
LEMMA ChatStops ==
  ASSUME ChatInv, pc' = "done", answer' \in Answers \ {"none", "card"},
         UNCHANGED <<cfg, turns, status, intent, data, card>>,
         verdict'.max_rows \in Nat, query'.limit \in Nat \union {NoNumber},
         source' \in Sizes \union {0, NoNumber}
  PROVE  ChatInv'
BY DEF ChatInv, ChatTypeInvariant, Passed, Prepared, Steps, Statuses, Answers

LEMMA ChatStutters == ChatInv /\ UNCHANGED chatVars => ChatInv'
<1> SUFFICES ASSUME ChatInv, UNCHANGED chatVars PROVE ChatInv'  OBVIOUS
<1> USE DEF chatVars
<1>1. ChatTypeInvariant'  BY DEF ChatInv, ChatTypeInvariant
<1>2. Passed' = Passed /\ Prepared' = Prepared  BY DEF Passed, Prepared
<1> QED  BY <1>1, <1>2 DEF ChatInv

LEMMA AskingInv ==
  ASSUME ChatInv, Parse \/ OpenaiFails \/ OpenaiAnswers
  PROVE  ChatInv'
<1>1. CASE pc' = "done"
  <2>1. /\ answer' = "error"
        /\ UNCHANGED <<cfg, turns, status, intent, verdict, query, source, data, card>>
    BY <1>1 DEF Parse, OpenaiFails, OpenaiAnswers, GoTo, End
  <2> QED  BY <1>1, <2>1, ChatStops DEF ChatInv, ChatTypeInvariant, Answers
<1>2. CASE pc' # "done"
  <2>1. /\ pc' \in {"openai", "validate"} /\ pc # "done" /\ answer' = answer
        /\ UNCHANGED <<cfg, turns, verdict, query, source, data, card>>
        /\ \/ UNCHANGED <<status, intent>>
           \/ status' = "ready" /\ intent' \in Intents \union {NoIntent}
           \/ status' \in {"need_clarification", "cannot_process"} /\ intent' = NoIntent
    BY <1>2 DEF Parse, OpenaiFails, OpenaiAnswers, GoTo, End
  <2> QED  BY <2>1 DEF ChatInv, ChatTypeInvariant, Passed, Prepared, Steps, Statuses, Answers
<1> QED  BY <1>1, <1>2

LEMMA ValidateInv ==
  ASSUME ChatInv, Validate
  PROVE  ChatInv'
<1> DEFINE v == handle_validate(status, intent, cfg.strict_mode)
<1>1. /\ pc = "validate" /\ answer = "none"
      /\ intent \in Intents \union {NoIntent}
      /\ UNCHANGED <<cfg, turns, status, intent, query, source, data, card>>
      /\ verdict' = IF status = "ready" /\ intent = NoIntent THEN NoVerdict ELSE v
  BY DEF ChatInv, ChatTypeInvariant, Validate
<1>2. IF status = "ready" /\ intent = NoIntent THEN End("error")
      ELSE IF verdict'.pass_through THEN End("back")
      ELSE IF ~ verdict'.valid      THEN End("refused")
      ELSE GoTo("translate")
  BY DEF Validate
<1>3. v.max_rows \in Nat
      /\ IF status = "ready" THEN v = validate_intent(intent, cfg.strict_mode) /\ ~ v.pass_through
         ELSE v.pass_through
  BY HandleValidateFacts
<1> HIDE DEF v
<1>4. verdict'.max_rows \in Nat  BY <1>1, <1>3, NoVerdictFacts
<1>5. \/ pc' = "done" /\ answer' \in {"error", "back", "refused"}
      \/ /\ pc' = "translate" /\ answer' = "none"
         /\ status = "ready" /\ intent # NoIntent /\ verdict'.valid
         /\ verdict' = validate_intent(intent, cfg.strict_mode)
  BY <1>1, <1>2, <1>3 DEF End, GoTo
<1>6. CASE pc' = "done" /\ answer' \in {"error", "back", "refused"}
  BY <1>1, <1>4, <1>6, ChatStops DEF ChatInv, ChatTypeInvariant, Answers
<1>7. CASE /\ pc' = "translate" /\ answer' = "none"
           /\ status = "ready" /\ intent # NoIntent /\ verdict'.valid
           /\ verdict' = validate_intent(intent, cfg.strict_mode)
  <2>1. ChatTypeInvariant'
    BY <1>1, <1>4, <1>7 DEF ChatInv, ChatTypeInvariant, Steps, Answers
  <2>2. Judged(status, intent, cfg, verdict')  BY <1>1, <1>7 DEF Judged
  <2> QED  BY <1>1, <1>7, <2>1, <2>2 DEF ChatInv, Passed, Prepared
<1> QED  BY <1>5, <1>6, <1>7

LEMMA TranslateInv ==
  ASSUME ChatInv, Translate
  PROVE  ChatInv'
<1>1. /\ pc = "translate" /\ answer = "none" /\ cfg \in Configs
      /\ Judged(status, intent, cfg, verdict)
      /\ UNCHANGED <<cfg, turns, status, intent, verdict, source, data, card>>
      /\ query' = translate_intent(intent, verdict)
  BY DEF ChatInv, ChatTypeInvariant, Passed, Translate
<1>2. query'.limit \in Nat \union {NoNumber}
  BY <1>1, JudgedFacts, QueryFacts DEF QueryOf
<1>3. CASE query'.error # "none"
  <2>1. pc' = "done" /\ answer' = "refused"  BY <1>3 DEF Translate, End
  <2> QED  BY <1>1, <1>2, <2>1, ChatStops DEF ChatInv, ChatTypeInvariant, Answers
<1>4. CASE query'.error = "none"
  <2>1. pc' = "execute" /\ answer' = "none"  BY <1>1, <1>4 DEF Translate, GoTo
  <2>2. ChatTypeInvariant'
    BY <1>1, <1>2, <2>1 DEF ChatInv, ChatTypeInvariant, Steps, Answers
  <2>3. Asked(query', intent, verdict)  BY <1>1, <1>4 DEF Asked
  <2> QED  BY <1>1, <2>1, <2>2, <2>3 DEF ChatInv, Passed, Prepared
<1> QED  BY <1>3, <1>4

LEMMA ExecuteInv ==
  ASSUME ChatInv, Execute
  PROVE  ChatInv'
<1>1. /\ pc = "execute" /\ answer = "none"
      /\ UNCHANGED <<cfg, turns, status, intent, verdict, query, source, data, card>>
      /\ \/ pc' = "runtime" /\ answer' = "none"
         \/ pc' = "github" /\ query.type = "http" /\ answer' = "none"
         \/ pc' = "done" /\ answer' = "error"
  <2>1. /\ pc = "execute" /\ answer = "none"
        /\ UNCHANGED <<cfg, turns, status, intent, verdict, query, source, data, card>>
    BY DEF ChatInv, ChatTypeInvariant, Execute
  <2>2. CASE query.type # "http"  BY <2>1, <2>2 DEF Execute, GoTo
  <2>3. CASE query.type = "http" /\ TokenResolves  BY <2>1, <2>3 DEF Execute, GoTo
  <2>4. CASE query.type = "http" /\ ~ TokenResolves  BY <2>1, <2>4 DEF Execute, End
  <2> QED  BY <2>1, <2>2, <2>3, <2>4
<1>2. CASE pc' = "done"
  BY <1>1, <1>2, ChatStops DEF ChatInv, ChatTypeInvariant, Answers
<1>3. CASE pc' # "done"
  BY <1>1, <1>3 DEF ChatInv, ChatTypeInvariant, Passed, Prepared, Steps
<1> QED  BY <1>2, <1>3

(* Rows that came back as the query asks keep the chain's invariant.       *)
LEMMA FetchedInv ==
  ASSUME ChatInv, Prepared, pc # "done", pc' = "render",
         UNCHANGED <<cfg, turns, status, intent, verdict, query, card, answer>>,
         source' \in Sizes \union {NoNumber}, data'.rows \in Nat,
         Fetched(data', query, source', intent, verdict)
  PROVE  ChatInv'
<1>1. /\ answer = "none" /\ Passed
      /\ Judged(status, intent, cfg, verdict) /\ Asked(query, intent, verdict)
  BY DEF ChatInv, ChatTypeInvariant, Passed, Prepared
<1>2. ChatTypeInvariant'
  BY <1>1 DEF ChatInv, ChatTypeInvariant, Judged, Steps
<1> QED  BY <1>1, <1>2 DEF ChatInv, Passed, Prepared

LEMMA PreparedFacts ==
  ASSUME ChatInv, Prepared
  PROVE  /\ cfg \in Configs /\ Judged(status, intent, cfg, verdict)
         /\ QueryOf(query, intent, verdict) /\ query.error = "none"
<1>1. cfg \in Configs /\ Passed /\ Judged(status, intent, cfg, verdict)
      /\ Asked(query, intent, verdict)
  BY DEF ChatInv, ChatTypeInvariant, Passed, Prepared
<1> QED  BY <1>1, AskedFacts

LEMMA RuntimeInv ==
  ASSUME ChatInv, DatabaseAnswers \/ ToolAnswers \/ RuntimeFails
  PROVE  ChatInv'
<1>1. pc = "runtime" /\ Prepared
  BY DEF DatabaseAnswers, ToolAnswers, RuntimeFails, Prepared
<1>2. QueryOf(query, intent, verdict) /\ query.error = "none"
  BY <1>1, PreparedFacts
<1>3. CASE DatabaseAnswers
  <2>1. PICK n \in Sizes, columns \in Widths, truncated \in BOOLEAN :
          /\ source' = n
          /\ data' = [rows |-> Returned(query, n), columns |-> columns, numeric |-> columns = 2,
                      total |-> NoNumber, truncated |-> truncated]
    BY <1>3 DEF DatabaseAnswers
  <2>2. Returned(query, n) \in Nat
    BY <1>2, SizesAssumption, ReturnedIsNat DEF QueryOf
  <2>3. /\ source' \in Sizes /\ source' \in Nat
        /\ data'.rows = Returned(query, source') /\ data'.rows \in Nat
    BY <2>1, <2>2, SizesAssumption
  <2>4. intent.target # "github"  BY <1>2, <1>3 DEF DatabaseAnswers, QueryOf
  <2>5. Fetched(data', query, source', intent, verdict)  BY <2>3, <2>4 DEF Fetched
  <2>6. /\ pc' = "render"
        /\ UNCHANGED <<cfg, turns, status, intent, verdict, query, card, answer>>
    BY <1>3 DEF DatabaseAnswers, GoTo
  <2> QED  BY <1>1, <2>3, <2>5, <2>6, FetchedInv
<1>4. CASE ToolAnswers
  <2>1. /\ source' \in Sizes /\ pc' = "render"
        /\ data' \in {NoData, [NoData EXCEPT !.rows = source', !.columns = 3]}
        /\ UNCHANGED <<cfg, turns, status, intent, verdict, query, card, answer>>
    BY <1>4 DEF ToolAnswers, GoTo
  <2>2. data'.rows \in Nat
    <3>1. source' \in Nat  BY <2>1, SizesAssumption
    <3>2. NoData.rows \in Nat /\ [NoData EXCEPT !.rows = source', !.columns = 3].rows = source'
      BY DEF NoData
    <3> QED  BY <2>1, <3>1, <3>2
  <2>3. intent.target \notin {"sqlite", "github"}
    BY <1>2, <1>4 DEF ToolAnswers, QueryOf
  <2>4. Fetched(data', query, source', intent, verdict)  BY <2>3 DEF Fetched
  <2> QED  BY <1>1, <2>1, <2>2, <2>4, FetchedInv
<1>5. CASE RuntimeFails
  BY <1>5, ChatStops DEF RuntimeFails, End, ChatInv, ChatTypeInvariant, Answers
<1> QED  BY <1>3, <1>4, <1>5

LEMMA PageIsNat ==
  ASSUME NEW q, q.per_page \in {100, NoNumber}, NEW n \in Nat
  PROVE  PageOf(q, n) \in Nat
BY AtMostFacts DEF PageOf

LEMMA GithubInv ==
  ASSUME ChatInv,
         \/ GithubAnswers \/ GithubAnswersOddly \/ GithubLost
         \/ \E what \in {"failed", "error"} : GithubUnusable(what)
         \/ \E code \in GithubStatuses : GithubRefuses(code)
  PROVE  ChatInv'
<1>1. CASE GithubAnswers
  <2>1. pc = "github" /\ Prepared  BY <1>1 DEF GithubAnswers, Prepared
  <2>2. QueryOf(query, intent, verdict) /\ query.error = "none" /\ query.type = "http"
    BY <2>1, PreparedFacts DEF ChatInv
  <2>3. intent.target = "github" /\ query.per_page \in {100, NoNumber}
    BY <2>2 DEF QueryOf
  <2>4. PICK n \in Sizes, columns \in Widths :
          /\ query.per_page = NoNumber => n = 1
          /\ source' = n
          /\ data' = [rows |-> PageOf(query, n),
                      columns |-> IF PageOf(query, n) = 0 THEN 0 ELSE columns,
                      numeric |-> FALSE, total |-> NoNumber,
                      truncated |-> Truncated(PageOf(query, n), verdict.max_rows)]
    BY <1>1 DEF GithubAnswers
  <2>5. PageOf(query, n) \in Nat  BY <2>3, SizesAssumption, PageIsNat
  <2>6. /\ source' \in Sizes /\ source' \in Nat /\ data'.rows \in Nat
        /\ data'.rows = PageOf(query, source') /\ data'.total = NoNumber
        /\ data'.truncated = Truncated(data'.rows, verdict.max_rows)
        /\ query.per_page = NoNumber => source' = 1
    BY <2>4, <2>5, SizesAssumption
  <2>7. Fetched(data', query, source', intent, verdict)
    BY <2>3, <2>6 DEF Fetched, Truncated
  <2>8. /\ pc' = "render"
        /\ UNCHANGED <<cfg, turns, status, intent, verdict, query, card, answer>>
    BY <1>1 DEF GithubAnswers, GoTo
  <2> QED  BY <2>1, <2>6, <2>7, <2>8, FetchedInv
<1>2. CASE GithubAnswersOddly
  <2>1. pc = "github" /\ Prepared  BY <1>2 DEF GithubAnswersOddly, Prepared
  <2>2. intent.target = "github"  BY <2>1, PreparedFacts DEF ChatInv, QueryOf
  <2>3. /\ source' = NoNumber /\ data'.rows = 0 /\ data'.total = NoNumber
        /\ data'.truncated = Truncated(0, verdict.max_rows)
    BY <1>2 DEF GithubAnswersOddly, NoData
  <2>4. Fetched(data', query, source', intent, verdict)
    BY <2>2, <2>3 DEF Fetched, Truncated
  <2>5. /\ pc' = "render"
        /\ UNCHANGED <<cfg, turns, status, intent, verdict, query, card, answer>>
    BY <1>2 DEF GithubAnswersOddly, GoTo
  <2> QED  BY <2>1, <2>3, <2>4, <2>5, FetchedInv
<1>3. CASE ~ (GithubAnswers \/ GithubAnswersOddly)
  <2>1. /\ pc' = "done" /\ answer' \in {"failed", "error", "retryable"}
        /\ source' \in Sizes \union {source}
        /\ UNCHANGED <<cfg, turns, status, intent, verdict, query, data, card>>
    BY <1>3 DEF GithubLost, GithubUnusable, GithubRefuses, End
  <2> QED  BY <2>1, ChatStops DEF ChatInv, ChatTypeInvariant, Answers
<1> QED  BY <1>1, <1>2, <1>3

LEMMA RenderInv ==
  ASSUME ChatInv, NEW r, Render(r)
  PROVE  ChatInv'
<1>1. /\ pc = "render" /\ pc' = "done" /\ answer' = "card"
      /\ card' = handle_render(data, r, cfg.max_list_items)
      /\ UNCHANGED <<cfg, turns, status, intent, verdict, query, source, data>>
  BY DEF Render, End
<1>2. Shown(card', data, cfg)  BY <1>1 DEF Shown
<1>3. card'.used \in Renderers  BY <1>1, CardFacts
<1>4. ChatTypeInvariant'
  BY <1>1, <1>3 DEF ChatInv, ChatTypeInvariant, Steps, Answers
<1> QED  BY <1>1, <1>2, <1>4 DEF ChatInv, Passed, Prepared

LEMMA UserRepliesInv ==
  ASSUME ChatInv, UserReplies
  PROVE  ChatInv'
<1>1. turns' \in 0 .. MaxTurns
  BY TurnsAssumption DEF UserReplies, ChatInv, ChatTypeInvariant
<1>2. ChatTypeInvariant'
  BY <1>1, NoVerdictFacts
     DEF UserReplies, ChatInv, ChatTypeInvariant, Steps, Statuses, Answers
<1> QED  BY <1>2 DEF UserReplies, ChatInv, Passed, Prepared

LEMMA ChatNextInv == ChatInv /\ ChatNext => ChatInv'
BY AskingInv, ValidateInv, TranslateInv, ExecuteInv, RuntimeInv, GithubInv, RenderInv,
   UserRepliesInv DEF ChatNext, Nodes, Replies, Runtime

-----------------------------------------------------------------------------
(* What the invariant says of the answer.                                  *)

(* No more rows reach the renderer than the verdict allows.                *)
LEMMA RowsFromInv == ChatInv => RowsStayWithinTheLimit
<1> SUFFICES ASSUME ChatInv, pc = "render", intent.target \in {"sqlite", "github"},
                    intent.action # "count"
             PROVE  data.rows =< verdict.max_rows
  BY DEF RowsStayWithinTheLimit
<1>1. Prepared /\ Fetched(data, query, source, intent, verdict) /\ data.rows \in Nat
  BY DEF Prepared, ChatInv, ChatTypeInvariant
<1>2. /\ cfg \in Configs /\ Judged(status, intent, cfg, verdict)
      /\ QueryOf(query, intent, verdict) /\ query.error = "none"
  BY <1>1, PreparedFacts
<1>3. /\ intent.limit \in Nat \union {NoNumber} /\ verdict.max_rows \in Nat
      /\ intent.target = "github" => verdict.max_rows = 100
  BY <1>2, JudgedFacts
<1>4. CASE intent.target = "sqlite"
  <2>1. source \in Nat /\ data.rows = Returned(query, source) /\ query.offset \in Nat
    BY <1>1, <1>2, <1>4 DEF Fetched, QueryOf
  <2>2. query.limit \in Nat /\ query.limit =< verdict.max_rows
    <3>1. CASE intent.action = "select"
      BY <1>2, <1>3, <1>4, <3>1, RowLimitFacts DEF QueryOf
    <3>2. CASE intent.action = "aggregate"
      BY <1>2, <1>3, <1>4, <3>2 DEF QueryOf
    <3> QED  BY <1>2, <1>4, <3>1, <3>2 DEF QueryOf
  <2>3. query.limit # NoNumber  BY <2>2 DEF NoNumber
  <2>4. \/ data.rows = 0
        \/ source - query.offset \in Nat /\ data.rows = AtMost(source - query.offset, query.limit)
    BY <2>1, <2>3 DEF Returned
  <2>5. data.rows =< query.limit  BY <2>2, <2>4, AtMostFacts
  <2> QED  BY <1>1, <1>3, <2>2, <2>5
<1>5. CASE intent.target = "github"
  <2>1. /\ verdict.max_rows = 100 /\ query.per_page \in {100, NoNumber}
        /\ \/ data.rows = 0
           \/ /\ source \in Nat /\ data.rows = PageOf(query, source)
              /\ query.per_page = NoNumber => source = 1
    BY <1>1, <1>2, <1>3, <1>5 DEF Fetched, QueryOf
  <2>2. CASE query.per_page = NoNumber \/ data.rows = 0  BY <2>1, <2>2 DEF PageOf
  <2>3. CASE query.per_page # NoNumber /\ data.rows # 0
    <3>1. query.per_page = 100 /\ data.rows = AtMost(source, 100)
      BY <2>1, <2>3 DEF PageOf
    <3>2. AtMost(source, 100) =< 100  BY <2>1, <2>3, AtMostFacts
    <3> QED  BY <2>1, <3>1, <3>2
  <2> QED  BY <2>2, <2>3
<1> QED  BY <1>4, <1>5

(* A list or a table shows the rows up to max_list_items; when there are   *)
(* more it has a notice, and the notice counts the rows at hand.           *)
LEMMA ListMarks ==
  ASSUME NEW d, d.rows \in Nat, d.total = NoNumber, NEW m \in Nat, NEW k,
         k = render_list(d, m) \/ k = render_table(d, m)
  PROVE  /\ k.shown \in Nat /\ k.shown =< d.rows
         /\ d.rows > k.shown => k.of # NoNumber
         /\ d.rows # 0 /\ d.truncated => k.of # NoNumber
         /\ k.of # NoNumber => k.of = d.rows /\ (d.rows > k.shown \/ d.truncated)
<1>1. k.shown = AtMost(m, d.rows)
  <2>1. render_list(d, m).shown = AtMost(m, d.rows)  BY DEF render_list
  <2>2. render_table(d, m).shown = AtMost(m, d.rows)  BY DEF render_table
  <2> QED  BY <2>1, <2>2
<1>2. (k.of = Notice(d, m)) \/ (d.rows = 0 /\ k.of = NoNumber)
  <2>1. render_list(d, m).of = Notice(d, m)  BY DEF render_list
  <2>2. render_table(d, m).of = IF d.rows = 0 THEN NoNumber ELSE Notice(d, m)
    BY DEF render_table
  <2> QED  BY <2>1, <2>2
<1>3. k.shown \in Nat /\ k.shown =< d.rows  BY <1>1, AtMostFacts
<1>4. Notice(d, m) = IF d.rows =< k.shown /\ ~ d.truncated THEN NoNumber ELSE d.rows
  BY <1>1 DEF Notice
<1>5. d.rows # NoNumber  BY DEF NoNumber
<1> QED  BY <1>2, <1>3, <1>4, <1>5

(* GitHub's page, the executor's comparison and the renderer's cut agree.  *)
LEMMA GithubMarks ==
  ASSUME NEW d, d.rows \in Nat, NEW q, NEW n, NEW i, NEW v, NEW m \in Nat, NEW k,
         i.target = "github", Fetched(d, q, n, i, v),
         q.per_page \in {100, NoNumber}, v.max_rows = 100,
         k = render_list(d, m) \/ k = render_table(d, m)
  PROVE  /\ n > k.shown => k.of # NoNumber
         /\ k.of # NoNumber => k.shown =< k.of /\ k.of =< n
<1>1. /\ d.total = NoNumber /\ (d.truncated <=> d.rows >= 100)
      /\ \/ n = NoNumber /\ d.rows = 0
         \/ n \in Nat /\ d.rows = PageOf(q, n)
  BY DEF Fetched
<1>2. /\ k.shown \in Nat /\ k.shown =< d.rows
      /\ (d.rows > k.shown => k.of # NoNumber) /\ (d.rows # 0 /\ d.truncated => k.of # NoNumber)
      /\ k.of # NoNumber => k.of = d.rows /\ (d.rows > k.shown \/ d.truncated)
  BY <1>1, ListMarks
<1>3. CASE n = NoNumber /\ d.rows = 0  BY <1>1, <1>2, <1>3 DEF NoNumber
<1>4. CASE n \in Nat /\ d.rows = PageOf(q, n) /\ d.rows = n  BY <1>2, <1>4
<1>5. CASE n \in Nat /\ d.rows = PageOf(q, n) /\ d.rows # n
  <2>1. q.per_page = 100 /\ d.rows = AtMost(n, 100)  BY <1>5 DEF PageOf
  <2>2. d.rows =< n /\ d.rows \in {n, 100}  BY <1>5, <2>1, AtMostFacts
  <2>3. d.rows = 100 /\ d.truncated  BY <1>1, <1>5, <2>2
  <2> QED  BY <1>2, <2>2, <2>3
<1> QED  BY <1>1, <1>3, <1>4, <1>5

(* No rows came of a source that holds some only where a limit or an       *)
(* offset leaves none, or where the answer had no rows to read.            *)
NoneToShow(q, n, i, v) ==
  \/ n \in {0, NoNumber} \/ q.offset >= n
  \/ i.limit % UsizeSize = 0 \/ v.max_rows = 0

LEMMA NothingFetched ==
  ASSUME NEW d, NEW q, NEW n, NEW i, NEW v,
         i.target \in {"sqlite", "github"}, Fetched(d, q, n, i, v),
         QueryOf(q, i, v), q.error = "none",
         i.limit \in Nat \union {NoNumber}, v.max_rows \in Nat, d.rows = 0
  PROVE  NoneToShow(q, n, i, v)
<1>1. CASE i.target = "sqlite"
  <2>1. /\ n \in Nat /\ Returned(q, n) = 0
        /\ q.limit \in Nat \union {NoNumber} /\ q.offset \in Nat
    BY <1>1 DEF Fetched, QueryOf
  <2>2. /\ q.limit # NoNumber
        /\ q.offset < n => n - q.offset \in Nat \ {0} /\ AtMost(n - q.offset, q.limit) = 0
    BY <2>1 DEF Returned
  <2>3. q.offset >= n \/ q.limit = 0
    <3>1. CASE q.offset < n
      <4>1. AtMost(n - q.offset, q.limit) \in {n - q.offset, q.limit}
        BY <2>1, <2>2, <3>1, AtMostFacts
      <4> QED  BY <2>2, <3>1, <4>1
    <3>2. CASE ~ (q.offset < n)  BY <2>1, <3>2
    <3> QED  BY <3>1, <3>2
  <2>4. CASE i.action = "select"
    BY <1>1, <2>3, <2>4, RowLimitFacts DEF QueryOf, NoneToShow
  <2>5. CASE i.action = "aggregate"  BY <1>1, <2>3, <2>5 DEF QueryOf, NoneToShow
  <2>6. i.action # "count"  BY <1>1, <2>2 DEF QueryOf
  <2> QED  BY <1>1, <2>4, <2>5, <2>6 DEF QueryOf
<1>2. CASE i.target = "github"
  <2>1. \/ n = NoNumber
        \/ /\ PageOf(q, n) = 0 /\ (q.per_page = NoNumber => n = 1)
           /\ q.per_page \in {100, NoNumber} /\ n \in Nat
    BY <1>2 DEF Fetched, QueryOf
  <2>2. n \in {0, NoNumber}  BY <2>1 DEF PageOf, AtMost, NoNumber
  <2> QED  BY <2>2 DEF NoneToShow
<1> QED  BY <1>1, <1>2

(* What an answer leaves out is marked.                                    *)
LEMMA OmissionsFromInv == ChatInv => OmissionsAreMarked
<1> SUFFICES ASSUME ChatInv, answer = "card", intent.target \in {"sqlite", "github"}
             PROVE  /\ intent.target = "github" /\ card.used \in {"list", "table"}
                       /\ source > card.shown => card.of # NoNumber
                    /\ intent.target = "github" /\ card.of # NoNumber
                         => card.shown =< card.of /\ card.of =< source
                    /\ card.says = "No results found"
                         => NoneToShow(query, source, intent, verdict)
  BY DEF OmissionsAreMarked, NoneToShow
<1>1. Prepared /\ Fetched(data, query, source, intent, verdict) /\ data.rows \in Nat
  BY DEF Prepared, ChatInv, ChatTypeInvariant
<1>2. /\ cfg \in Configs /\ Judged(status, intent, cfg, verdict)
      /\ QueryOf(query, intent, verdict) /\ query.error = "none"
  BY <1>1, PreparedFacts
<1>3. /\ intent.limit \in Nat \union {NoNumber} /\ verdict.max_rows \in Nat
      /\ intent.target = "github" => verdict.max_rows = 100
  BY <1>2, JudgedFacts
<1>4. PICK r : card = handle_render(data, r, cfg.max_list_items)
  BY DEF ChatInv, Shown
<1>5. cfg.max_list_items \in Nat  BY <1>2, ConfigsAssumption
<1>6. /\ card.used = "list"  => card = render_list(data, cfg.max_list_items)
      /\ card.used = "table" => card = render_table(data, cfg.max_list_items)
      /\ card.used \notin {"list", "table"} => card.of = NoNumber
      /\ card.says = "No results found" => data.rows = 0
  BY <1>4, CardFacts
<1>7. ASSUME intent.target = "github", card.used \in {"list", "table"}
      PROVE  /\ source > card.shown => card.of # NoNumber
             /\ card.of # NoNumber => card.shown =< card.of /\ card.of =< source
  <2>1. query.per_page \in {100, NoNumber}  BY <1>2, <1>7 DEF QueryOf
  <2>2. \/ card = render_list(data, cfg.max_list_items)
        \/ card = render_table(data, cfg.max_list_items)
    BY <1>6, <1>7
  <2>3. Fetched(data, query, source, intent, verdict) /\ data.rows \in Nat  BY <1>1
  <2>4. verdict.max_rows = 100  BY <1>3, <1>7
  <2> QED  BY <1>5, <1>7, <2>1, <2>2, <2>3, <2>4, GithubMarks
<1>8. ASSUME card.says = "No results found"
      PROVE  NoneToShow(query, source, intent, verdict)
  <2>1. Fetched(data, query, source, intent, verdict)  BY <1>1
  <2>2. QueryOf(query, intent, verdict) /\ query.error = "none"  BY <1>2
  <2>3. intent.limit \in Nat \union {NoNumber} /\ verdict.max_rows \in Nat  BY <1>3
  <2>4. data.rows = 0  BY <1>6, <1>8
  <2>5. intent.target \in {"sqlite", "github"}  OBVIOUS
  <2> QED  BY <2>1, <2>2, <2>3, <2>4, <2>5, NothingFetched
<1> QED  BY <1>6, <1>7, <1>8

(* The query at work is the translation of the intent, and a statement is  *)
(* made for the database alone.                                            *)
LEMMA MeaningFromInv ==
  ASSUME ChatInv
  PROVE  QueryThatRunsMeansTheIntent
<1> SUFFICES ASSUME Translated, Runs(query)
             PROVE  /\ Bound(query.where, query) /\ Bound(query.having, query)
                    /\ intent.where # Other
                    /\ \A row \in Rows(intent) :
                         /\ Selects(query.where, query.params, row) <=> Asks(intent.where, row)
                         /\ intent.action = "aggregate" /\ intent.having # Other =>
                              (Selects(query.having, query.params, row)
                                 <=> Asks(intent.having, row))
  BY DEF QueryThatRunsMeansTheIntent
<1>1. /\ query.type = "sql" /\ pc \in {"execute", "runtime"}
      /\ Judged(status, intent, cfg, verdict) /\ Asked(query, intent, verdict)
  BY DEF ChatInv, Passed, Prepared, Translated
<1>2. intent \in Intents /\ query = translate_intent(intent, verdict) /\ query.error = "none"
  BY <1>1 DEF Judged, Asked
<1>3. Prepared  BY <1>1 DEF Prepared
<1>4. intent.target = "sqlite"  BY <1>1, <1>2, <1>3, PreparedFacts DEF QueryOf
<1>5. /\ intent.where # Other /\ intent.where \in Seq(Conditions)
      /\ intent.having \in Seq(Conditions) \union {Other}
  <2>1. cfg \in Configs  BY <1>3, PreparedFacts
  <2>2. intent.where # Other  BY <1>1, <1>4, <2>1, JudgedFacts
  <2> QED  BY <1>2, <2>2, IntentsAssumption
<1>6. QueryMeans(query, intent)  BY <1>2, <1>4, <1>5, TranslationMeans
<1>7. WellFormed(query.where) /\ WellFormed(query.having)  BY DEF Runs
<1> QED  BY <1>5, <1>6, <1>7 DEF QueryMeans, Says

(* In strict mode the columns of a select are the strings asked for.       *)
LEMMA ProjectionFromInv == ChatInv => StrictProjectionIsTheOneAsked
<1> DEFINE named == IF intent.columns = Other THEN <<>> ELSE Strings(intent.columns)
<1> SUFFICES ASSUME ChatInv, cfg.strict_mode, Translated, intent.action = "select"
             PROVE  query.columns = (IF named = <<>> THEN Star ELSE named)
  BY DEF StrictProjectionIsTheOneAsked
<1>1. Prepared /\ query.type = "sql"  BY DEF Prepared, Translated
<1>2. /\ cfg \in Configs /\ Judged(status, intent, cfg, verdict)
      /\ QueryOf(query, intent, verdict) /\ query.error = "none"
  BY <1>1, PreparedFacts
<1>3. intent.target = "sqlite"  BY <1>1, <1>2 DEF QueryOf
<1>4. verdict.sanitized_columns = Named(intent.columns)  BY <1>2, <1>3, JudgedFacts
<1>5. query.columns = SelectList(intent, verdict)  BY <1>2, <1>3 DEF QueryOf
<1> QED  BY <1>4, <1>5 DEF Named, SelectList

-----------------------------------------------------------------------------
(* Windows of a text: what the sql node's trimming and searching find in   *)
(* the part of a text s from position p to position q.                     *)

FirstOf(t, m) == SelectInSeq(t, LAMBDA x : x = m)

LEMMA WindowFacts ==
  ASSUME NEW s \in Seq(STRING), NEW p \in Nat \ {0}, NEW q \in 0 .. Len(s), p =< q + 1
  PROVE  /\ SubSeq(s, p, q) \in Seq(STRING)
         /\ Len(SubSeq(s, p, q)) = q - p + 1
         /\ \A k \in 1 .. q - p + 1 : SubSeq(s, p, q)[k] = s[p + k - 1]
<1>1. \A k \in p .. q : s[k] \in STRING  OBVIOUS
<1> QED  BY <1>1, SubSeqProperties

LEMMA WindowOfWindow ==
  ASSUME NEW s \in Seq(STRING), NEW p \in Nat \ {0}, NEW q \in 0 .. Len(s),
         NEW i \in p .. q, NEW j \in p .. q
  PROVE  SubSeq(SubSeq(s, p, q), i - p + 1, j - p + 1) = SubSeq(s, i, j)
<1>1. p \in 1 .. Len(s) /\ q \in 1 .. Len(s)  OBVIOUS
<1>2. i - p + 1 \in 1 .. q - p + 1 /\ j - p + 1 \in 1 .. q - p + 1  OBVIOUS
<1>3. SubSeq(SubSeq(s, p, q), i - p + 1, j - p + 1)
        = SubSeq(s, p + (i - p + 1) - 1, p + (j - p + 1) - 1)
  BY <1>1, <1>2, SubSeqOfSubSeq
<1>4. p + (i - p + 1) - 1 = i /\ p + (j - p + 1) - 1 = j  OBVIOUS
<1> QED  BY <1>3, <1>4

(* The first lexeme m of a window.                                         *)
LEMMA FirstInWindow ==
  ASSUME NEW s \in Seq(STRING), NEW p \in Nat \ {0}, NEW q \in 0 .. Len(s),
         NEW f \in p .. q, NEW m, s[f] = m, \A k \in p .. f - 1 : s[k] # m
  PROVE  FirstOf(SubSeq(s, p, q), m) = f - p + 1
<1> DEFINE t == SubSeq(s, p, q)
           I == {k \in 1 .. Len(t) : t[k] = m}
<1>1. FirstOf(t, m) = IF I # {} THEN Min(I) ELSE 0  BY DEF FirstOf, SelectInSeq
<1>2. Len(t) = q - p + 1 /\ \A k \in 1 .. q - p + 1 : t[k] = s[p + k - 1]
  BY WindowFacts
<1> HIDE DEF t
<1>3. f - p + 1 \in I  BY <1>2
<1>4. ASSUME NEW k \in I PROVE f - p + 1 =< k
  <2>1. k \in 1 .. q - p + 1 /\ s[p + k - 1] = m  BY <1>2
  <2>2. p + k - 1 \notin p .. f - 1  BY <2>1
  <2> QED  BY <2>1, <2>2
<1>5. I \subseteq Nat /\ I # {}
  <2>1. I # {}  BY <1>3
  <2>2. Len(t) \in Int  BY <1>2
  <2>3. \A k \in 1 .. Len(t) : k \in Nat  BY <2>2
  <2> QED  BY <2>1, <2>3
<1> HIDE DEF I
<1>6. Min(I) \in I /\ \A k \in I : Min(I) =< k  BY <1>5, MinIsLeast
<1>7. Min(I) =< f - p + 1 /\ f - p + 1 =< Min(I) /\ Min(I) \in Nat
  BY <1>3, <1>4, <1>5, <1>6
<1>8. Min(I) = f - p + 1  BY <1>7
<1> QED  BY <1>1, <1>5, <1>8 DEF t

LEMMA NoneInWindow ==
  ASSUME NEW s \in Seq(STRING), NEW p \in Nat \ {0}, NEW q \in 0 .. Len(s), p =< q + 1,
         NEW m, \A k \in p .. q : s[k] # m
  PROVE  FirstOf(SubSeq(s, p, q), m) = 0
<1> DEFINE t == SubSeq(s, p, q)
           I == {k \in 1 .. Len(t) : t[k] = m}
<1>1. FirstOf(t, m) = IF I # {} THEN Min(I) ELSE 0  BY DEF FirstOf, SelectInSeq
<1>2. Len(t) = q - p + 1 /\ \A k \in 1 .. q - p + 1 : t[k] = s[p + k - 1]
  BY WindowFacts
<1> HIDE DEF t
<1>3. ASSUME NEW k \in I PROVE FALSE
  <2>1. k \in 1 .. q - p + 1 /\ s[p + k - 1] = m  BY <1>2
  <2>2. p + k - 1 \in p .. q  BY <2>1
  <2> QED  BY <2>1, <2>2
<1>4. I = {}
  <2> HIDE DEF I
  <2> QED  BY <1>3
<1> QED  BY <1>1, <1>4 DEF t

(* What is found is there, and nothing before it is.                       *)
LEMMA FirstOfFacts ==
  ASSUME NEW t \in Seq(STRING), NEW m
  PROVE  /\ FirstOf(t, m) \in 0 .. Len(t)
         /\ FirstOf(t, m) # 0 => t[FirstOf(t, m)] = m
         /\ FirstOf(t, m) # 0 => \A k \in 1 .. FirstOf(t, m) - 1 : t[k] # m
         /\ FirstOf(t, m) = 0 => \A k \in 1 .. Len(t) : t[k] # m
<1> DEFINE I == {k \in 1 .. Len(t) : t[k] = m}
<1>1. FirstOf(t, m) = IF I # {} THEN Min(I) ELSE 0  BY DEF FirstOf, SelectInSeq
<1>2. I \subseteq Nat  OBVIOUS
<1>3. CASE I = {}  BY <1>1, <1>3
<1>4. CASE I # {}
  <2>1. Min(I) \in I /\ \A k \in I : Min(I) =< k
    <3> HIDE DEF I
    <3> QED  BY <1>2, <1>4, MinIsLeast
  <2>2. FirstOf(t, m) = Min(I)  BY <1>1, <1>4
  <2> DEFINE f == FirstOf(t, m)
  <2>3. f \in I /\ \A k \in I : f =< k  BY <2>1, <2>2
  <2> HIDE DEF f
  <2>4. f \in 1 .. Len(t) /\ t[f] = m  BY <2>3
  <2>5. ASSUME NEW k \in 1 .. f - 1 PROVE t[k] # m
    <3>1. k \in 1 .. Len(t) /\ ~ (f =< k)  BY <2>4
    <3> QED  BY <2>3, <3>1
  <2> QED  BY <2>4, <2>5 DEF f
<1> QED  BY <1>3, <1>4

(* A window without the lexemes of a set at its start, or at its end: the  *)
(* first that is not of the set is at f, the last at e.                    *)
Window(s, p, q) == s \in Seq(STRING) /\ p \in Nat \ {0} /\ q \in 0 .. Len(s)

StartsAt(s, p, q, f, S) ==
  Window(s, p, q) /\ f \in p .. q /\ s[f] \notin S /\ \A k \in p .. f - 1 : s[k] \in S

EndsAt(s, p, q, e, S) ==
  Window(s, p, q) /\ e \in p .. q /\ s[e] \notin S /\ \A k \in e + 1 .. q : s[k] \in S

LEMMA StartOfWindow ==
  ASSUME NEW s, NEW p, NEW q, NEW f, NEW S, StartsAt(s, p, q, f, S)
  PROVE  TrimStart(SubSeq(s, p, q), S) = SubSeq(s, f, q)
<1> USE DEF StartsAt, Window
<1> DEFINE t == SubSeq(s, p, q)
           I == {k \in 1 .. Len(t) : t[k] \notin S}
           first == IF I # {} THEN Min(I) ELSE 0
<1>1. TrimStart(t, S) = IF first = 0 THEN <<>> ELSE SubSeq(t, first, Len(t))
  BY DEF TrimStart, SelectInSeq
<1>2. Len(t) = q - p + 1 /\ \A k \in 1 .. q - p + 1 : t[k] = s[p + k - 1]
  BY WindowFacts
<1>3. SubSeq(t, f - p + 1, q - p + 1) = SubSeq(s, f, q)  BY WindowOfWindow
<1> HIDE DEF t
<1>4. f - p + 1 \in I  BY <1>2
<1>5. ASSUME NEW k \in I PROVE f - p + 1 =< k
  <2>1. k \in 1 .. q - p + 1 /\ s[p + k - 1] \notin S  BY <1>2
  <2>2. p + k - 1 \notin p .. f - 1  BY <2>1
  <2> QED  BY <2>1, <2>2
<1>6. I \subseteq Nat /\ I # {}  BY <1>2, <1>4
<1>7. Min(I) = f - p + 1
  <2> HIDE DEF I
  <2>1. Min(I) \in I /\ \A k \in I : Min(I) =< k  BY <1>6, MinIsLeast
  <2>2. Min(I) =< f - p + 1 /\ f - p + 1 =< Min(I) /\ Min(I) \in Nat
    BY <1>4, <1>5, <1>6, <2>1
  <2> QED  BY <2>2
<1>8. first = f - p + 1 /\ first # 0  BY <1>6, <1>7
<1> HIDE DEF first
<1> QED  BY <1>1, <1>2, <1>3, <1>8 DEF t

LEMMA EndOfWindow ==
  ASSUME NEW s, NEW p, NEW q, NEW e, NEW S, EndsAt(s, p, q, e, S)
  PROVE  TrimEnd(SubSeq(s, p, q), S) = SubSeq(s, p, e)
<1> USE DEF EndsAt, Window
<1> DEFINE t == SubSeq(s, p, q)
           I == {k \in 1 .. Len(t) : t[k] \notin S}
           last == IF I # {} THEN Max(I) ELSE 0
<1>1. TrimEnd(t, S) = SubSeq(t, 1, last)  BY DEF TrimEnd, SelectLastInSeq
<1>2. Len(t) = q - p + 1 /\ \A k \in 1 .. q - p + 1 : t[k] = s[p + k - 1]
  BY WindowFacts
<1>3. SubSeq(t, p - p + 1, e - p + 1) = SubSeq(s, p, e)  BY WindowOfWindow
<1> HIDE DEF t
<1>4. e - p + 1 \in I  BY <1>2
<1>5. ASSUME NEW k \in I PROVE k =< e - p + 1
  <2>1. k \in 1 .. q - p + 1 /\ s[p + k - 1] \notin S  BY <1>2
  <2>2. p + k - 1 \notin e + 1 .. q  BY <2>1
  <2> QED  BY <2>1, <2>2
<1>6. I \subseteq 1 .. q - p + 1 /\ I # {} /\ q - p + 1 \in Nat  BY <1>2, <1>4
<1>7. Max(I) = e - p + 1
  <2> HIDE DEF I
  <2>1. Max(I) \in I /\ \A k \in I : k =< Max(I)  BY <1>6, MaxIsGreatest
  <2>2. Max(I) =< e - p + 1  BY <1>5, <2>1
  <2>3. e - p + 1 =< Max(I)  BY <1>4, <2>1
  <2>4. Max(I) \in 1 .. q - p + 1  BY <1>6, <2>1
  <2> QED  BY <2>2, <2>3, <2>4
<1>8. last = e - p + 1 /\ p - p + 1 = 1  BY <1>6, <1>7
<1> HIDE DEF last
<1> QED  BY <1>1, <1>3, <1>8 DEF t

(* Nothing is left of a text of which each lexeme is in the set.           *)
LEMMA NothingLeft ==
  ASSUME NEW t, NEW S, \A k \in 1 .. Len(t) : t[k] \in S
  PROVE  TrimStart(t, S) = <<>> /\ TrimEnd(t, S) = <<>>
<1> DEFINE I == {k \in 1 .. Len(t) : t[k] \notin S}
<1>1. TrimStart(t, S) = IF (IF I # {} THEN Min(I) ELSE 0) = 0 THEN <<>>
                        ELSE SubSeq(t, IF I # {} THEN Min(I) ELSE 0, Len(t))
  BY DEF TrimStart, SelectInSeq
<1>2. TrimEnd(t, S) = SubSeq(t, 1, IF I # {} THEN Max(I) ELSE 0)
  BY DEF TrimEnd, SelectLastInSeq
<1>3. I = {}  OBVIOUS
<1>4. SubSeq(t, 1, 0) = <<>>  BY SubSeqEmpty
<1> QED  BY <1>1, <1>2, <1>3, <1>4

(* The window from b to e is what is in the window from p to q beside the  *)
(* line breaks around it.                                                  *)
Core(s, p, q, b, e) ==
  /\ Window(s, p, q) /\ b \in p .. q /\ e \in b .. q
  /\ s[b] # "nl" /\ s[e] # "nl"
  /\ \A k \in p .. q : s[k] # "nl" => k \in b .. e

LEMMA TrimIsCore ==
  ASSUME NEW s, NEW p, NEW q, NEW b, NEW e, Core(s, p, q, b, e)
  PROVE  Trim(SubSeq(s, p, q)) = SubSeq(s, b, e)
<1>1. Window(s, p, q) /\ b \in p .. q /\ e \in b .. q /\ s[b] # "nl" /\ s[e] # "nl"
  BY DEF Core
<1>2. EndsAt(s, p, q, e, {"nl"})  BY <1>1 DEF Core, EndsAt, Window
<1>3. StartsAt(s, p, e, b, {"nl"})  BY <1>1 DEF Core, StartsAt, Window
<1>4. TrimEnd(SubSeq(s, p, q), {"nl"}) = SubSeq(s, p, e)  BY <1>2, EndOfWindow
<1>5. TrimStart(SubSeq(s, p, e), {"nl"}) = SubSeq(s, b, e)  BY <1>3, StartOfWindow
<1> QED  BY <1>4, <1>5 DEF Trim

LEMMA CoreExists ==
  ASSUME NEW s \in Seq(STRING), NEW p \in Nat \ {0}, NEW q \in 0 .. Len(s), p =< q + 1,
         Trim(SubSeq(s, p, q)) # <<>>
  PROVE  \E b \in p .. q : \E e \in b .. q : Core(s, p, q, b, e)
<1> DEFINE I == {k \in p .. q : s[k] # "nl"}
<1>1. CASE I = {}
  <2>1. \A k \in 1 .. Len(SubSeq(s, p, q)) : SubSeq(s, p, q)[k] \in {"nl"}
    BY <1>1, WindowFacts
  <2>2. TrimEnd(SubSeq(s, p, q), {"nl"}) = <<>>  BY <2>1, NothingLeft
  <2>3. TrimStart(<<>>, {"nl"}) = <<>>  BY NothingLeft
  <2> QED  BY <2>2, <2>3 DEF Trim
<1>2. CASE I # {}
  <2>1. I \subseteq Nat /\ I \subseteq 1 .. q /\ q \in Nat  OBVIOUS
  <2>2. Min(I) \in I /\ \A k \in I : Min(I) =< k
    <3> HIDE DEF I
    <3> QED  BY <1>2, <2>1, MinIsLeast
  <2>3. Max(I) \in I /\ \A k \in I : k =< Max(I)
    <3> HIDE DEF I
    <3> QED  BY <1>2, <2>1, MaxIsGreatest
  <2>4. Min(I) \in p .. q /\ Max(I) \in Min(I) .. q  BY <2>2, <2>3
  <2>5. Core(s, p, q, Min(I), Max(I))  BY <2>2, <2>3, <2>4 DEF Core, Window
  <2> QED  BY <2>4, <2>5
<1> QED  BY <1>1, <1>2

-----------------------------------------------------------------------------
(* What is sent is what the model wrote, between its fences.               *)

(* A statement: no fence is left in it, and it begins with a word that is  *)
(* not the tag of a fence.                                                 *)
Statementlike(sql) ==
  /\ sql # <<>> /\ sql[1] # "sql"
  /\ \A k \in 1 .. Len(sql) : sql[k] # "fence"

LEMMA StripIs ==
  ASSUME NEW s
  PROVE  LET t == Trim(s)
             line == FirstOf(t, "nl")
             rest == SubSeq(t, line + 1, Len(t))
             shorter == TrimEnd(rest, {"nl"})
         IN  strip_fences(s) =
               IF t = <<>> \/ Head(t) # "fence" THEN t
               ELSE IF line = 0 THEN Trim(TrimEnd(TrimStart(t, {"fence"}), {"fence"}))
               ELSE Trim(IF shorter # <<>> /\ Last(shorter) = "fence"
                         THEN Front(shorter) ELSE rest)
BY DEF strip_fences, FirstOf

LEMMA WrittenIs ==
  ASSUME NEW s
  PROVE  LET opened == FirstOf(s, "fence")
             after == TrimStart(SubSeq(s, opened + 1, Len(s)), {"fence"})
             tagged == opened # 0 /\ FirstOf(after, "nl") = 2 /\ after[1] = "sql"
             inner == IF tagged THEN Tail(after) ELSE after
             closed == FirstOf(inner, "fence")
         IN  Written(s) = Trim(IF opened = 0 \/ closed = 0 THEN inner
                               ELSE SubSeq(inner, 1, closed - 1))
BY DEF Written, FirstOf

LEMMA NothingWritten ==
  /\ Trim(<<>>) = <<>>
  /\ \A s : Trim(s) = <<>> => strip_fences(s) = <<>>
<1>1. TrimEnd(<<>>, {"nl"}) = <<>> /\ TrimStart(<<>>, {"nl"}) = <<>>  BY NothingLeft
<1>2. Trim(<<>>) = <<>>  BY <1>1 DEF Trim
<1>3. ASSUME NEW s, Trim(s) = <<>> PROVE strip_fences(s) = <<>>
  BY <1>3, StripIs
<1> QED  BY <1>2, <1>3

(* A text that does not begin with a fence is the statement.               *)
LEMMA UnfencedText ==
  ASSUME NEW s \in Seq(STRING), NEW b, NEW e, Core(s, 1, Len(s), b, e), s[b] # "fence",
         Statementlike(strip_fences(s))
  PROVE  strip_fences(s) = Written(s)
<1> DEFINE n == Len(s)
<1>1. n \in Nat /\ b \in 1 .. n /\ e \in b .. n /\ SubSeq(s, 1, n) = s
  BY SubSeqFull DEF Core
<1>2. Trim(s) = SubSeq(s, b, e)
  <2>1. Trim(SubSeq(s, 1, n)) = SubSeq(s, b, e)  BY TrimIsCore
  <2> QED  BY <1>1, <2>1
<1>3. /\ Len(SubSeq(s, b, e)) = e - b + 1
      /\ \A k \in 1 .. e - b + 1 : SubSeq(s, b, e)[k] = s[b + k - 1]
  BY <1>1, WindowFacts
<1>4. Head(SubSeq(s, b, e)) = s[b]  BY <1>1, HeadTailOfSubSeq
<1>5. strip_fences(s) = SubSeq(s, b, e)  BY <1>2, <1>4, StripIs
<1>6. ASSUME NEW k \in 1 .. n PROVE s[k] # "fence"
  <2>1. CASE k \in b .. e
    <3>1. k - b + 1 \in 1 .. e - b + 1 /\ b + (k - b + 1) - 1 = k  BY <1>1, <2>1
    <3>2. SubSeq(s, b, e)[k - b + 1] = s[k]  BY <1>3, <3>1
    <3> QED  BY <1>3, <1>5, <3>1, <3>2 DEF Statementlike
  <2>2. CASE k \notin b .. e  BY <2>2 DEF Core
  <2> QED  BY <2>1, <2>2
<1>7. FirstOf(s, "fence") = 0
  <2>1. n \in 0 .. Len(s) /\ 1 =< n + 1  BY <1>1
  <2>2. FirstOf(SubSeq(s, 1, n), "fence") = 0  BY <1>6, <2>1, NoneInWindow
  <2> QED  BY <1>1, <2>2
<1>8. TrimStart(SubSeq(s, 0 + 1, Len(s)), {"fence"}) = s
  <2>1. StartsAt(s, 1, n, 1, {"fence"})  BY <1>1, <1>6 DEF StartsAt, Window
  <2>2. TrimStart(SubSeq(s, 1, n), {"fence"}) = SubSeq(s, 1, n)
    <3> HIDE DEF n
    <3> QED  BY <2>1, StartOfWindow
  <2> QED  BY <1>1, <2>2
<1>9. Written(s) = Trim(s)  BY <1>7, <1>8, WrittenIs
<1> QED  BY <1>2, <1>5, <1>9

(* A fence on one line with its statement.                                 *)
LEMMA FencedLine ==
  ASSUME NEW s \in Seq(STRING), NEW b, NEW e, Core(s, 1, Len(s), b, e), s[b] = "fence",
         \A k \in b .. e : s[k] # "nl",
         Statementlike(strip_fences(s))
  PROVE  strip_fences(s) = Written(s)
<1> DEFINE n == Len(s)
           t == SubSeq(s, b, e)
<1>1. n \in Nat /\ b \in 1 .. n /\ e \in b .. n /\ SubSeq(s, 1, n) = s
  BY SubSeqFull DEF Core
<1>2. Trim(s) = t
  <2>1. Trim(SubSeq(s, 1, n)) = SubSeq(s, b, e)  BY TrimIsCore
  <2> QED  BY <1>1, <2>1
<1>3. /\ t \in Seq(STRING) /\ Len(t) = e - b + 1 /\ t # <<>>
      /\ \A k \in 1 .. e - b + 1 : t[k] = s[b + k - 1]
  BY <1>1, WindowFacts
<1>4. Head(t) = "fence" /\ FirstOf(t, "nl") = 0
  <2>1. Head(t) = s[b]  BY <1>1, HeadTailOfSubSeq
  <2> QED  BY <1>1, <2>1, NoneInWindow
<1>5. strip_fences(s) = Trim(TrimEnd(TrimStart(t, {"fence"}), {"fence"}))
  BY <1>2, <1>3, <1>4, StripIs
<1> DEFINE I == {k \in b .. e : s[k] # "fence"}
<1>6. I # {}
  <2> SUFFICES ASSUME I = {} PROVE FALSE  OBVIOUS
  <2>1. ASSUME NEW k \in 1 .. Len(t) PROVE t[k] \in {"fence"}
    <3>1. t[k] = s[b + k - 1] /\ b + k - 1 \in b .. e  BY <1>1, <1>3
    <3> QED  BY <3>1
  <2>2. TrimStart(t, {"fence"}) = <<>>  BY <2>1, NothingLeft
  <2>3. TrimEnd(<<>>, {"fence"}) = <<>>  BY NothingLeft
  <2> QED  BY <1>5, <2>2, <2>3, NothingWritten DEF Statementlike
<1>7. I \subseteq Nat /\ I \subseteq 1 .. n  BY <1>1
<1>8. PICK f \in I : \A k \in I : f =< k
  <2> HIDE DEF I
  <2> QED  BY <1>6, <1>7, MinIsLeast
<1>9. PICK g \in I : \A k \in I : k =< g
  <2> HIDE DEF I
  <2> QED  BY <1>1, <1>6, <1>7, MaxIsGreatest
<1>10. f \in b .. e /\ g \in f .. e /\ s[f] # "fence" /\ s[g] # "fence" /\ f # b
  BY <1>8, <1>9
<1>11. \A k \in b .. f - 1 : s[k] = "fence"  BY <1>1, <1>8, <1>10
<1>12. \A k \in g + 1 .. e : s[k] = "fence"  BY <1>1, <1>9, <1>10
<1> HIDE DEF I
<1>13. strip_fences(s) = SubSeq(s, f, g)
  <2>1. StartsAt(s, b, e, f, {"fence"})  BY <1>1, <1>10, <1>11 DEF StartsAt, Window
  <2>2. EndsAt(s, f, e, g, {"fence"})  BY <1>1, <1>10, <1>12 DEF EndsAt, Window
  <2>3. Core(s, f, g, f, g)  BY <1>1, <1>10 DEF Core, Window
  <2>4. TrimStart(t, {"fence"}) = SubSeq(s, f, e)  BY <2>1, StartOfWindow
  <2>5. TrimEnd(SubSeq(s, f, e), {"fence"}) = SubSeq(s, f, g)  BY <2>2, EndOfWindow
  <2>6. Trim(SubSeq(s, f, g)) = SubSeq(s, f, g)  BY <2>3, TrimIsCore
  <2> QED  BY <1>5, <2>4, <2>5, <2>6
<1>14. \A k \in f .. g : s[k] # "fence"
  <2>1. /\ Len(SubSeq(s, f, g)) = g - f + 1
        /\ \A k \in 1 .. g - f + 1 : SubSeq(s, f, g)[k] = s[f + k - 1]
    BY <1>1, <1>10, WindowFacts
  <2> TAKE k \in f .. g
  <2>2. k - f + 1 \in 1 .. g - f + 1 /\ f + (k - f + 1) - 1 = k  BY <1>1, <1>10
  <2>3. SubSeq(s, f, g)[k - f + 1] = s[k]  BY <2>1, <2>2
  <2> QED  BY <1>13, <2>1, <2>2, <2>3 DEF Statementlike
<1>15. s[f] # "sql"
  <2>1. SubSeq(s, f, g)[1] = s[f]  BY <1>1, <1>10, WindowFacts
  <2> QED  BY <1>13, <2>1 DEF Statementlike
<1>16. FirstOf(s, "fence") = b
  <2>1. \A k \in 1 .. b - 1 : s[k] # "fence"  BY <1>1 DEF Core
  <2>2. n \in 0 .. Len(s) /\ 1 \in Nat \ {0} /\ b - 1 + 1 = b  BY <1>1
  <2>3. FirstOf(SubSeq(s, 1, n), "fence") = b - 1 + 1  BY <1>1, <2>1, <2>2, FirstInWindow
  <2> QED  BY <1>1, <2>2, <2>3
<1> DEFINE after == SubSeq(s, f, n)
<1>17. TrimStart(SubSeq(s, b + 1, Len(s)), {"fence"}) = after
  <2>1. StartsAt(s, b + 1, n, f, {"fence"})  BY <1>1, <1>10, <1>11 DEF StartsAt, Window
  <2> QED  BY <2>1, StartOfWindow
<1>18. after[1] # "sql"
  <2>1. after[1] = s[f]  BY <1>1, <1>10, WindowFacts
  <2> QED  BY <1>15, <2>1
<1>19. Written(s) = Trim(IF FirstOf(after, "fence") = 0 THEN after
                         ELSE SubSeq(after, 1, FirstOf(after, "fence") - 1))
  <2>1. b # 0  BY <1>1
  <2> HIDE DEF after
  <2> QED  BY <1>16, <1>17, <1>18, <2>1, WrittenIs
<1>20. CASE g = e
  <2>1. \A k \in f .. n : s[k] # "fence"  BY <1>1, <1>10, <1>14, <1>20 DEF Core
  <2>2. FirstOf(after, "fence") = 0  BY <1>1, <1>10, <2>1, NoneInWindow
  <2>3. Core(s, f, n, f, g)  BY <1>1, <1>10, <1>20 DEF Core, Window
  <2>5. Trim(after) = SubSeq(s, f, g)  BY <2>3, TrimIsCore
  <2> QED  BY <2>5, <1>13, <1>19, <2>2
<1>21. CASE g # e
  <2>1. /\ g + 1 \in f .. n /\ g + 1 \in f .. e /\ s[g + 1] = "fence"
        /\ f \in Nat \ {0} /\ n \in 0 .. Len(s) /\ g \in 0 .. Len(s)
    BY <1>1, <1>10, <1>12, <1>21
  <2>2. \A k \in f .. (g + 1) - 1 : s[k] # "fence"  BY <1>1, <1>10, <1>14
  <2>3. FirstOf(after, "fence") = (g + 1) - f + 1
    <3> DEFINE p == g + 1
    <3>1. f \in Nat \ {0} /\ n \in 0 .. Len(s) /\ p \in f .. n /\ s[p] = "fence"
          /\ \A k \in f .. p - 1 : s[k] # "fence"
      BY <2>1, <2>2
    <3> HIDE DEF p
    <3>2. \A q \in 0 .. Len(s) : p \in f .. q =>
            FirstOf(SubSeq(s, f, q), "fence") = p - f + 1
      BY <3>1, FirstInWindow
    <3>3. FirstOf(SubSeq(s, f, n), "fence") = p - f + 1  BY <3>1, <3>2
    <3> QED  BY <3>3 DEF p
  <2>4. f \in f .. n /\ g \in f .. n  BY <1>1, <1>10
  <2>5. SubSeq(after, f - f + 1, g - f + 1) = SubSeq(s, f, g)
    BY <2>1, <2>4, WindowOfWindow
  <2>6. f - f + 1 = 1 /\ (g + 1) - f + 1 - 1 = g - f + 1 /\ (g + 1) - f + 1 # 0
    BY <1>1, <1>10
  <2>7. Core(s, f, g, f, g)  BY <1>1, <1>10 DEF Core, Window
  <2>8. Trim(SubSeq(s, f, g)) = SubSeq(s, f, g)  BY <2>7, TrimIsCore
  <2> HIDE DEF after
  <2>9. SubSeq(after, 1, FirstOf(after, "fence") - 1) = SubSeq(s, f, g)
        /\ FirstOf(after, "fence") # 0
    <3>1. FirstOf(after, "fence") - 1 = g - f + 1 /\ FirstOf(after, "fence") # 0
      BY <1>1, <1>10, <2>3
    <3>2. f - f + 1 = 1  BY <2>6
    <3> QED  BY <2>5, <3>1, <3>2, Zenon
  <2> QED  BY <1>13, <1>19, <2>8, <2>9
<1> QED  BY <1>20, <1>21

(* The text between the line breaks around it, from b to e, begins with a  *)
(* fence, and the line of the fence ends at l.                             *)
FenceLine(s, b, e, l) ==
  /\ Core(s, 1, Len(s), b, e) /\ s[b] = "fence"
  /\ l \in b .. e /\ s[l] = "nl" /\ \A k \in b .. l - 1 : s[k] # "nl"

(* A fence on a line of its own, its statement on the lines after it up to *)
(* a fence at the end or to the end.                                       *)
LEMMA FencedBlock ==
  ASSUME NEW s \in Seq(STRING), NEW b, NEW e, NEW l, FenceLine(s, b, e, l),
         FenceLineIsBare(s),
         Statementlike(strip_fences(s))
  PROVE  strip_fences(s) = Written(s)
<1> DEFINE n == Len(s)
           t == SubSeq(s, b, e)
           line == l - b + 1
           rest == SubSeq(s, l + 1, e)
<1>0. /\ Core(s, 1, Len(s), b, e) /\ s[b] = "fence" /\ s[l] = "nl"
      /\ \A k \in b .. l - 1 : s[k] # "nl"
  BY DEF FenceLine
<1>1. /\ n \in Nat /\ b \in 1 .. n /\ e \in b .. n /\ SubSeq(s, 1, n) = s
      /\ l \in b + 1 .. e - 1
  BY SubSeqFull DEF Core, FenceLine
<1>2. Trim(s) = t
  <2>1. Trim(SubSeq(s, 1, n)) = SubSeq(s, b, e)  BY <1>0, TrimIsCore
  <2> QED  BY <1>1, <2>1
<1>3. /\ Len(t) = e - b + 1 /\ t # <<>>
      /\ \A k \in 1 .. e - b + 1 : t[k] = s[b + k - 1]
  BY <1>1, WindowFacts
<1>4. Head(t) = "fence" /\ FirstOf(t, "nl") = line /\ line # 0 /\ line \in 2 .. e - b
  <2>1. Head(t) = "fence"  BY <1>0, <1>1, HeadTailOfSubSeq
  <2>2. FirstOf(t, "nl") = l - b + 1
    <3>1. b \in Nat \ {0} /\ e \in 0 .. Len(s) /\ l \in b .. e  BY <1>1
    <3> QED  BY <1>0, <3>1, FirstInWindow
  <2> QED  BY <1>1, <2>1, <2>2
<1>5. SubSeq(t, line + 1, Len(t)) = rest
  <2>1. l + 1 \in b .. e /\ e \in b .. e /\ b \in Nat \ {0} /\ e \in 0 .. Len(s)  BY <1>1
  <2>2. SubSeq(SubSeq(s, b, e), (l + 1) - b + 1, e - b + 1) = SubSeq(s, l + 1, e)
    BY <2>1, WindowOfWindow
  <2>3. (l + 1) - b + 1 = line + 1  BY <1>1
  <2> QED  BY <1>3, <2>2, <2>3
<1>6. TrimEnd(rest, {"nl"}) = rest
  <2>1. EndsAt(s, l + 1, e, e, {"nl"})  BY <1>0, <1>1 DEF EndsAt, Window, Core
  <2> QED  BY <2>1, EndOfWindow
<1>7. /\ Len(rest) = e - l /\ rest # <<>> /\ Last(rest) = s[e]
      /\ Front(rest) = SubSeq(s, l + 1, e - 1)
  <2>1. l + 1 \in Nat \ {0} /\ e \in 0 .. Len(s) /\ l + 1 =< e + 1 /\ e - (l + 1) + 1 = e - l
    BY <1>1
  <2>2. Len(rest) = e - l /\ \A k \in 1 .. e - l : rest[k] = s[(l + 1) + k - 1]
    BY <2>1, WindowFacts
  <2>3. e - l \in 1 .. e - l /\ (l + 1) + (e - l) - 1 = e  BY <1>1
  <2>4. rest # <<>> /\ Last(rest) = s[e]
    <3> HIDE DEF rest
    <3>1. Last(rest) = rest[e - l]  BY <2>2 DEF Last
    <3>2. rest[e - l] = s[(l + 1) + (e - l) - 1]  BY <2>2, <2>3
    <3>3. Len(rest) # 0  BY <1>1, <2>2
    <3> QED  BY <2>3, <3>1, <3>2, <3>3
  <2>5. Front(rest) = SubSeq(s, l + 1, e - 1)
    <3>1. CASE l + 1 = e
      <4>1. SubSeq(rest, 1, 0) = <<>> /\ SubSeq(s, l + 1, e - 1) = <<>>
        BY <1>1, <3>1, SubSeqEmpty
      <4>2. Len(rest) - 1 = 0  BY <1>1, <2>2, <3>1
      <4> QED  BY <4>1, <4>2 DEF Front
    <3>2. CASE l + 1 # e
      <4>1. l + 1 \in l + 1 .. e /\ e - 1 \in l + 1 .. e  BY <1>1, <3>2
      <4>2. SubSeq(SubSeq(s, l + 1, e), (l + 1) - (l + 1) + 1, (e - 1) - (l + 1) + 1)
              = SubSeq(s, l + 1, e - 1)
        BY <2>1, <4>1, WindowOfWindow
      <4>3. (l + 1) - (l + 1) + 1 = 1 /\ (e - 1) - (l + 1) + 1 = Len(rest) - 1
        BY <1>1, <2>2
      <4> QED  BY <4>2, <4>3 DEF Front
    <3> QED  BY <3>1, <3>2
  <2> QED  BY <2>2, <2>4, <2>5
<1>8. PICK h :
        /\ h \in l .. e
        /\ \/ h = e /\ s[e] # "fence"
           \/ h = e - 1 /\ s[e] = "fence"
        /\ strip_fences(s) = Trim(SubSeq(s, l + 1, h))
  <2>1. strip_fences(s) = Trim(IF rest # <<>> /\ Last(rest) = "fence"
                               THEN Front(rest) ELSE rest)
    BY <1>2, <1>3, <1>4, <1>5, <1>6, StripIs
  <2> HIDE DEF rest
  <2>2. CASE s[e] = "fence"
    <3>1. strip_fences(s) = Trim(SubSeq(s, l + 1, e - 1))  BY <1>7, <2>1, <2>2
    <3>2. e - 1 \in l .. e  BY <1>1
    <3> WITNESS e - 1
    <3> QED  BY <2>2, <3>1, <3>2
  <2>3. CASE s[e] # "fence"
    <3>1. strip_fences(s) = Trim(SubSeq(s, l + 1, e))  BY <1>7, <2>1, <2>3 DEF rest
    <3>2. e \in l .. e  BY <1>1
    <3> WITNESS e
    <3> QED  BY <2>3, <3>1, <3>2
  <2> QED  BY <2>2, <2>3
<1>9. h \in l .. e /\ h \in 0 .. Len(s)
  BY <1>1, <1>8
<1> HIDE DEF t, rest
<1>10. PICK f, g : /\ f \in l + 1 .. h /\ g \in l + 1 .. h /\ g \in f .. h
                   /\ Core(s, l + 1, h, f, g)
  <2>1. Trim(SubSeq(s, l + 1, h)) # <<>>  BY <1>8 DEF Statementlike
  <2>2. l + 1 \in Nat \ {0} /\ l + 1 =< h + 1  BY <1>1, <1>9
  <2>3. \E f \in l + 1 .. h : \E g \in f .. h : Core(s, l + 1, h, f, g)
    BY <1>9, <2>1, <2>2, CoreExists
  <2> QED  BY <1>1, <1>9, <2>3
<1>11. strip_fences(s) = SubSeq(s, f, g)
  <2> DEFINE p == l + 1
  <2>1. Core(s, p, h, f, g)  BY <1>10
  <2> HIDE DEF p
  <2>2. Trim(SubSeq(s, p, h)) = SubSeq(s, f, g)  BY <2>1, TrimIsCore
  <2> QED  BY <1>8, <2>2 DEF p
<1>12. \A k \in l .. h : s[k] # "fence"
  <2>1. f \in Nat \ {0} /\ g \in 0 .. Len(s) /\ f =< g + 1  BY <1>1, <1>9, <1>10
  <2>2. /\ Len(SubSeq(s, f, g)) = g - f + 1
        /\ \A k \in 1 .. g - f + 1 : SubSeq(s, f, g)[k] = s[f + k - 1]
    BY <2>1, WindowFacts
  <2>3. ASSUME NEW k \in f .. g PROVE s[k] # "fence"
    <3>1. k - f + 1 \in 1 .. g - f + 1 /\ f + (k - f + 1) - 1 = k  BY <1>1, <1>10
    <3>2. SubSeq(s, f, g)[k - f + 1] = s[k]  BY <2>2, <3>1
    <3> QED  BY <1>11, <2>2, <3>1, <3>2 DEF Statementlike
  <2>4. \A k \in l + 1 .. h : k \in f .. g \/ s[k] = "nl"  BY <1>10 DEF Core
  <2> QED  BY <1>0, <1>1, <1>9, <2>3, <2>4
<1>13. FirstOf(s, "fence") = b
  <2>1. \A k \in 1 .. b - 1 : s[k] # "fence"  BY <1>0, <1>1 DEF Core
  <2>2. n \in 0 .. Len(s) /\ 1 \in Nat \ {0} /\ b - 1 + 1 = b  BY <1>1
  <2>3. FirstOf(SubSeq(s, 1, n), "fence") = b - 1 + 1
    BY <1>0, <1>1, <2>1, <2>2, FirstInWindow
  <2> QED  BY <1>1, <2>2, <2>3
<1>14. \/ l = b + 1
       \/ l = b + 2 /\ s[b + 1] = "sql"
  <2>1. SubSeq(t, 2, line - 1) \in {<<>>, <<"sql">>}
    <3>1. LET u == Trim(s)
              m == FirstOf(u, "nl")
          IN  u # <<>> /\ Head(u) = "fence" /\ m # 0
                => SubSeq(u, 2, m - 1) \in {<<>>, <<"sql">>}
      BY DEF FenceLineIsBare, FirstOf
    <3> QED  BY <1>2, <1>3, <1>4, <3>1
  <2>2. CASE line = 2  BY <1>1, <2>2
  <2>3. CASE line # 2
    <3>1. b + 1 \in b .. e /\ l - 1 \in b .. e /\ b \in Nat \ {0} /\ e \in 0 .. Len(s)
          /\ (b + 1) - b + 1 = 2 /\ (l - 1) - b + 1 = line - 1
      BY <1>1, <2>3
    <3>2. SubSeq(t, 2, line - 1) = SubSeq(s, b + 1, l - 1)
      <4>1. SubSeq(SubSeq(s, b, e), (b + 1) - b + 1, (l - 1) - b + 1)
              = SubSeq(s, b + 1, l - 1)
        BY <3>1, WindowOfWindow
      <4> QED  BY <3>1, <4>1 DEF t
    <3>3. b + 1 \in Nat \ {0} /\ l - 1 \in 0 .. Len(s) /\ b + 1 =< (l - 1) + 1
          /\ (l - 1) - (b + 1) + 1 = l - b - 1
      BY <1>1, <2>3
    <3>4. /\ Len(SubSeq(s, b + 1, l - 1)) = l - b - 1
          /\ \A k \in 1 .. l - b - 1 : SubSeq(s, b + 1, l - 1)[k] = s[(b + 1) + k - 1]
      BY <3>3, WindowFacts
    <3> DEFINE tag == SubSeq(s, b + 1, l - 1)
               m == l - b - 1
    <3>5. m \in Nat /\ m >= 1  BY <1>1, <2>3
    <3>6. Len(tag) = m /\ \A k \in 1 .. m : tag[k] = s[(b + 1) + k - 1]  BY <3>4
    <3>7. tag \in {<<>>, <<"sql">>}  BY <2>1, <3>2
    <3> HIDE DEF tag, m
    <3>8. m = 1 /\ tag[1] = "sql"
      <4>1. tag # <<>>  BY <3>5, <3>6
      <4>2. tag = <<"sql">>  BY <3>7, <4>1
      <4> QED  BY <3>6, <4>2
    <3>10. s[(b + 1) + 1 - 1] = "sql"  BY <3>6, <3>8
    <3>11. (b + 1) + 1 - 1 = b + 1 /\ l = b + 2  BY <1>1, <3>8 DEF m
    <3> QED  BY <3>10, <3>11
  <2> QED  BY <2>2, <2>3
<1> DEFINE after == SubSeq(s, b + 1, n)
           inner == SubSeq(s, l, n)
<1>15. TrimStart(SubSeq(s, b + 1, Len(s)), {"fence"}) = after
  <2>1. StartsAt(s, b + 1, n, b + 1, {"fence"})  BY <1>0, <1>1, <1>14 DEF StartsAt, Window
  <2> QED  BY <2>1, StartOfWindow
<1>16. FirstOf(after, "nl") = l - (b + 1) + 1
  <2> DEFINE p == b + 1
  <2>1. p \in Nat \ {0} /\ n \in 0 .. Len(s) /\ l \in p .. n /\ s[l] = "nl"
        /\ \A k \in p .. l - 1 : s[k] # "nl"
    BY <1>0, <1>1
  <2> HIDE DEF p, n
  <2>2. FirstOf(SubSeq(s, p, n), "nl") = l - p + 1  BY <2>1, FirstInWindow
  <2> QED  BY <2>2 DEF p
<1>17. after[1] = s[b + 1] /\ after # <<>>
  <2>1. b + 1 \in Nat \ {0} /\ n \in 0 .. Len(s) /\ b + 1 =< n + 1 /\ 1 \in 1 .. n - (b + 1) + 1
        /\ (b + 1) + 1 - 1 = b + 1
    BY <1>1
  <2>2. after[1] = s[(b + 1) + 1 - 1] /\ Len(after) = n - (b + 1) + 1  BY <2>1, WindowFacts
  <2> QED  BY <2>1, <2>2
<1>18. (IF b # 0 /\ FirstOf(after, "nl") = 2 /\ after[1] = "sql" THEN Tail(after) ELSE after)
         = inner
  <2>1. CASE l = b + 1
    <3>1. FirstOf(after, "nl") # 2  BY <1>1, <1>16, <2>1
    <3> QED  BY <2>1, <3>1
  <2>2. CASE l = b + 2 /\ s[b + 1] = "sql"
    <3>1. FirstOf(after, "nl") = 2 /\ b # 0 /\ after[1] = "sql"
      BY <1>1, <1>16, <1>17, <2>2
    <3>2. b + 1 \in 1 .. Len(s) /\ n \in b + 1 .. Len(s)  BY <1>1
    <3>3. Tail(after) = SubSeq(s, (b + 1) + 1, n)  BY <3>2, HeadTailOfSubSeq
    <3>4. (b + 1) + 1 = l  BY <1>1, <2>2
    <3> QED  BY <3>1, <3>3, <3>4
  <2> QED  BY <1>14, <2>1, <2>2
<1>19. Written(s) = Trim(IF FirstOf(inner, "fence") = 0 THEN inner
                         ELSE SubSeq(inner, 1, FirstOf(inner, "fence") - 1))
  <2>1. b # 0  BY <1>1
  <2> HIDE DEF after, inner
  <2> QED  BY <1>13, <1>15, <1>18, <2>1, WrittenIs
<1>20. CASE h = e /\ s[e] # "fence"
  <2>1. \A k \in l .. n : s[k] # "fence"  BY <1>0, <1>1, <1>12, <1>20 DEF Core
  <2>2. l \in Nat \ {0} /\ n \in 0 .. Len(s) /\ l =< n + 1  BY <1>1
  <2>3. FirstOf(inner, "fence") = 0  BY <2>1, <2>2, NoneInWindow
  <2>4. Core(s, l, n, f, g)  BY <1>0, <1>1, <1>9, <1>10, <1>20 DEF Core, Window
  <2>5. Trim(SubSeq(s, l, n)) = SubSeq(s, f, g)
    BY <2>4, TrimIsCore
  <2> QED  BY <1>11, <1>19, <2>3, <2>5
<1>21. CASE h = e - 1 /\ s[e] = "fence"
  <2>1. l \in Nat \ {0} /\ n \in 0 .. Len(s) /\ e \in l .. n
        /\ \A k \in l .. e - 1 : s[k] # "fence"
    BY <1>1, <1>12, <1>21
  <2>2. FirstOf(inner, "fence") = e - l + 1  BY <1>21, <2>1, FirstInWindow
  <2>3. l \in l .. n /\ e - 1 \in l .. n  BY <1>1
  <2>4. SubSeq(inner, l - l + 1, (e - 1) - l + 1) = SubSeq(s, l, e - 1)
    BY <2>1, <2>3, WindowOfWindow
  <2>5. Core(s, l, h, f, g)  BY <1>0, <1>1, <1>9, <1>10, <1>21 DEF Core, Window
  <2>6. Trim(SubSeq(s, l, h)) = SubSeq(s, f, g)  BY <2>5, TrimIsCore
  <2> HIDE DEF inner
  <2>7. l - l + 1 = 1 /\ (e - 1) - l + 1 = FirstOf(inner, "fence") - 1
        /\ FirstOf(inner, "fence") # 0
    BY <1>1, <2>2
  <2>8. SubSeq(inner, 1, FirstOf(inner, "fence") - 1) = SubSeq(s, l, e - 1)
    BY <2>4, <2>7, Zenon
  <2>9. Trim(SubSeq(s, l, e - 1)) = SubSeq(s, f, g)  BY <1>21, <2>6
  <2> QED  BY <1>11, <1>19, <2>7, <2>8, <2>9
<1> QED  BY <1>8, <1>20, <1>21

LEMMA StatementIsWritten ==
  ASSUME NEW s \in Seq(STRING), FenceLineIsBare(s), Statementlike(strip_fences(s))
  PROVE  strip_fences(s) = Written(s)
<1> DEFINE n == Len(s)
<1>1. n \in Nat /\ SubSeq(s, 1, n) = s  BY SubSeqFull
<1>2. Trim(SubSeq(s, 1, n)) # <<>>  BY <1>1, NothingWritten DEF Statementlike
<1>3. PICK b, e : b \in 1 .. n /\ e \in b .. n /\ Core(s, 1, n, b, e)
  <2>1. n \in 0 .. Len(s) /\ 1 =< n + 1 /\ 1 \in Nat \ {0}  BY <1>1
  <2> QED  BY <1>2, <2>1, CoreExists
<1>4. Core(s, 1, Len(s), b, e)  BY <1>3
<1>5. CASE s[b] # "fence"  BY <1>4, <1>5, UnfencedText
<1>6. CASE s[b] = "fence" /\ \A k \in b .. e : s[k] # "nl"  BY <1>4, <1>6, FencedLine
<1> DEFINE I == {k \in b .. e : s[k] = "nl"}
<1>7. CASE s[b] = "fence" /\ I # {}
  <2>1. I \subseteq Nat  BY <1>1, <1>3
  <2>2. PICK l \in I : \A k \in I : l =< k
    <3> HIDE DEF I
    <3> QED  BY <1>7, <2>1, MinIsLeast
  <2>3. \A k \in b .. l - 1 : s[k] # "nl"
    <3> TAKE k \in b .. l - 1
    <3>1. k \in b .. e /\ ~ (l =< k)  BY <1>1, <1>3
    <3> QED  BY <2>2, <3>1
  <2>4. FenceLine(s, b, e, l)  BY <1>4, <1>7, <2>2, <2>3 DEF FenceLine
  <2> QED  BY <2>4, FencedBlock
<1> QED  BY <1>5, <1>6, <1>7

(* What is left after trimming is a sequence of lexemes.                   *)
LEMMA TrimIsSeq ==
  ASSUME NEW t \in Seq(STRING), NEW S
  PROVE  TrimStart(t, S) \in Seq(STRING) /\ TrimEnd(t, S) \in Seq(STRING)
<1> DEFINE I == {k \in 1 .. Len(t) : t[k] \notin S}
<1>1. TrimStart(t, S) = IF (IF I # {} THEN Min(I) ELSE 0) = 0 THEN <<>>
                        ELSE SubSeq(t, IF I # {} THEN Min(I) ELSE 0, Len(t))
  BY DEF TrimStart, SelectInSeq
<1>2. TrimEnd(t, S) = SubSeq(t, 1, IF I # {} THEN Max(I) ELSE 0)
  BY DEF TrimEnd, SelectLastInSeq
<1>3. I \subseteq 1 .. Len(t) /\ I \subseteq Nat /\ Len(t) \in Nat  OBVIOUS
<1> HIDE DEF I
<1>4. I # {} => Min(I) \in 1 .. Len(t) /\ Max(I) \in 1 .. Len(t)
  BY <1>3, MinIsLeast, MaxIsGreatest
<1>5. \A p \in 1 .. Len(t) : SubSeq(t, p, Len(t)) \in Seq(STRING)
  BY WindowFacts
<1>6. \A q \in 0 .. Len(t) : SubSeq(t, 1, q) \in Seq(STRING)
  BY WindowFacts
<1>7. <<>> \in Seq(STRING)  OBVIOUS
<1>8. CASE I = {}  BY <1>1, <1>2, <1>3, <1>6, <1>7, <1>8
<1>9. CASE I # {}
  <2>1. Min(I) # 0 /\ Max(I) \in 0 .. Len(t)  BY <1>3, <1>4, <1>9
  <2> QED  BY <1>1, <1>2, <1>4, <1>5, <1>6, <1>9, <2>1
<1> QED  BY <1>8, <1>9

LEMMA StripIsSeq ==
  ASSUME NEW s \in Seq(STRING)
  PROVE  strip_fences(s) \in Seq(STRING)
<1>1. \A t \in Seq(STRING) : Trim(t) \in Seq(STRING)  BY TrimIsSeq DEF Trim
<1> DEFINE t == Trim(s)
           line == FirstOf(t, "nl")
           rest == SubSeq(t, line + 1, Len(t))
           shorter == TrimEnd(rest, {"nl"})
           bare == TrimEnd(TrimStart(t, {"fence"}), {"fence"})
<1>2. strip_fences(s) =
        IF t = <<>> \/ Head(t) # "fence" THEN t
        ELSE IF line = 0 THEN Trim(bare)
        ELSE Trim(IF shorter # <<>> /\ Last(shorter) = "fence" THEN Front(shorter) ELSE rest)
  BY StripIs
<1>3. t \in Seq(STRING)  BY <1>1
<1>4. bare \in Seq(STRING)  BY <1>3, TrimIsSeq
<1>5. rest \in Seq(STRING)
  <2>1. line \in 0 .. Len(t)  BY <1>3, FirstOfFacts
  <2> HIDE DEF t, line
  <2>2. line + 1 \in Nat \ {0} /\ Len(t) \in 0 .. Len(t) /\ line + 1 =< Len(t) + 1
    BY <1>3, <2>1
  <2> QED  BY <1>3, <2>2, WindowFacts
<1>6. shorter \in Seq(STRING)  BY <1>5, TrimIsSeq
<1> HIDE DEF t, rest, shorter, bare, line
<1>7. shorter # <<>> => Front(shorter) \in Seq(STRING)
  <2> SUFFICES ASSUME shorter # <<>> PROVE Front(shorter) \in Seq(STRING)  OBVIOUS
  <2>1. Len(shorter) \in Nat /\ Len(shorter) # 0  BY <1>6
  <2>2. Len(shorter) - 1 \in 0 .. Len(shorter) /\ 1 \in Nat \ {0} /\ 1 =< Len(shorter) - 1 + 1
    BY <2>1
  <2> QED  BY <1>6, <2>2, WindowFacts DEF Front
<1> QED  BY <1>1, <1>2, <1>3, <1>4, <1>5, <1>7

(* The guard lets one read through: no comment, no writing verb, and a     *)
(* semicolon only at the end.                                              *)
LEMMA GuardFacts ==
  ASSUME NEW sql \in Seq(STRING), ensure_read_only(sql)
  PROVE  /\ sql # <<>>
         /\ \A k \in 1 .. Len(sql) : /\ sql[k] \notin Forbidden \union {"--", "/*"}
                                     /\ sql[k] = "semicolon" => k = Len(sql)
<1> DEFINE body == IF sql # <<>> /\ Last(sql) = "semicolon" THEN Front(sql) ELSE sql
           n == Len(sql)
           m == n - 1
<1>1. /\ sql # <<>>
      /\ ToSet(sql) \intersect {"--", "/*"} = {}
      /\ "semicolon" \notin ToSet(body)
      /\ ToSet(body) \intersect Forbidden = {}
  BY DEF ensure_read_only
<1>2. n \in Nat /\ DOMAIN sql = 1 .. n /\ n # 0
  <2> HIDE DEF body
  <2> QED  BY <1>1
<1>3. \A k \in 1 .. n : sql[k] \notin {"--", "/*"}
  <2> HIDE DEF body, n
  <2> QED  BY <1>1, <1>2 DEF ToSet
<1>4. ASSUME Last(sql) = "semicolon"
      PROVE  \A k \in 1 .. m : sql[k] \in ToSet(body)
  <2>1. body = SubSeq(sql, 1, m)  BY <1>1, <1>4 DEF Front
  <2>2. m \in 0 .. Len(sql) /\ 1 \in Nat \ {0} /\ 1 =< m + 1 /\ m - 1 + 1 = m
    BY <1>2
  <2> HIDE DEF body, m
  <2>3. /\ SubSeq(sql, 1, m) \in Seq(STRING) /\ Len(SubSeq(sql, 1, m)) = m - 1 + 1
        /\ \A k \in 1 .. m - 1 + 1 : SubSeq(sql, 1, m)[k] = sql[1 + k - 1]
    BY <2>2, WindowFacts
  <2>4. body \in Seq(STRING) /\ Len(body) = m
    BY <2>1, <2>2, <2>3
  <2>5. ASSUME NEW k \in 1 .. m PROVE body[k] = sql[k]
    <3>1. 1 + k - 1 = k /\ k \in 1 .. m - 1 + 1  BY <2>2
    <3>2. SubSeq(sql, 1, m)[k] = sql[1 + k - 1]  BY <2>3, <3>1
    <3> QED  BY <2>1, <3>1, <3>2
  <2>6. DOMAIN body = 1 .. m  BY <2>4
  <2> QED  BY <2>5, <2>6 DEF ToSet
<1>5. \A x \in ToSet(body) : x # "semicolon" /\ x \notin Forbidden
  <2> HIDE DEF body
  <2> QED  BY <1>1
<1>6. CASE Last(sql) = "semicolon"
  <2>1. sql[n] = "semicolon"  BY <1>6 DEF Last
  <2>2. ASSUME NEW k \in 1 .. n
        PROVE  /\ sql[k] \notin Forbidden \union {"--", "/*"}
               /\ sql[k] = "semicolon" => k = n
    <3>1. CASE k = n
      <4>1. sql[k] \notin Forbidden  BY <2>1, <3>1 DEF Forbidden
      <4> HIDE DEF n
      <4> QED  BY <1>3, <3>1, <4>1
    <3>2. CASE k # n
      <4>1. k \in 1 .. m
        <5> HIDE DEF n
        <5> QED  BY <1>2, <3>2
      <4>2. sql[k] \in ToSet(body)  BY <1>4, <1>6, <4>1
      <4> HIDE DEF body, n
      <4> QED  BY <1>3, <1>5, <4>2
    <3> QED  BY <3>1, <3>2
  <2> QED  BY <1>1, <2>2
<1>7. CASE Last(sql) # "semicolon"
  <2>1. body = sql  BY <1>7
  <2> HIDE DEF body, n
  <2>2. \A k \in 1 .. n : sql[k] \in ToSet(sql)  BY <1>2 DEF ToSet
  <2>3. \A k \in 1 .. n : sql[k] # "semicolon" /\ sql[k] \notin Forbidden  BY <1>5, <2>1, <2>2
  <2> QED  BY <1>1, <1>3, <2>3 DEF n
<1> QED  BY <1>6, <1>7

(* Outside its quotes a statement has no more than it has as a whole.      *)
LEMMA BareFacts ==
  ASSUME NEW sql \in Seq(STRING)
  PROVE  /\ DOMAIN Bare(sql) = 1 .. Len(sql) /\ Len(Bare(sql)) = Len(sql)
         /\ \A k \in 1 .. Len(sql) : Bare(sql)[k] \in {sql[k], "quote"}
<1>1. DOMAIN sql = 1 .. Len(sql) /\ Len(sql) \in Nat  OBVIOUS
<1>2. DOMAIN Bare(sql) = 1 .. Len(sql)  BY <1>1 DEF Bare
<1>3. \A k \in 1 .. Len(sql) : Bare(sql)[k] \in {sql[k], "quote"}  BY <1>1 DEF Bare
<1> DEFINE S == STRING \union {"quote"}
<1>4. Bare(sql) \in Seq(S)
  <2>1. Bare(sql) = [k \in 1 .. Len(sql) |-> Bare(sql)[k]]  BY <1>1 DEF Bare
  <2> DEFINE bare(k) == Bare(sql)[k]
  <2>2. \A k \in 1 .. Len(sql) : bare(k) \in S  BY <1>3
  <2> HIDE DEF bare, S
  <2>3. [k \in 1 .. Len(sql) |-> bare(k)] \in Seq(S)  BY <1>1, <2>2
  <2> QED  BY <2>1, <2>3, Zenon DEF bare
<1>5. Len(Bare(sql)) = Len(sql)  BY <1>1, <1>2, <1>4
<1> QED  BY <1>2, <1>3, <1>5

LEMMA MaxRowsFacts ==
  ASSUME NEW w \in Wanted
  PROVE  /\ max_rows(w) \in 1 .. Ceiling
         /\ w \in 1 .. Ceiling => max_rows(w) = w
         /\ w \in Ceiling .. Rows32 - 1 => max_rows(w) = Ceiling
         /\ w \notin 0 .. Rows32 - 1 => max_rows(w) = DefaultRows
<1>1. CASE w = NotGiven
  <2>1. /\ w \notin 1 .. Ceiling /\ w \notin Ceiling .. Rows32 - 1
        /\ w \notin 0 .. Rows32 - 1
    BY <1>1, RowsAssumption
  <2> QED  BY <1>1, <2>1, RowsAssumption DEF max_rows
<1>2. CASE w # NotGiven
  <2>1. w \in Nat  BY <1>2, RowsAssumption
  <2> QED  BY <1>2, <2>1, RowsAssumption DEF max_rows
<1> QED  BY <1>1, <1>2


-----------------------------------------------------------------------------
(* The sql node's invariant: the statement that waits for the gateway, and *)
(* the one that a flow was told of, is the text's and has been guarded.    *)
Guarded(text, request, w) ==
  /\ text \in Texts /\ request.sql = strip_fences(text)
  /\ ensure_read_only(request.sql) /\ request.max_rows = max_rows(w)

SqlInv ==
  /\ SqlTypeInvariant
  /\ step = "query" \/ told.ok => Guarded(said, sent, wanted)
  /\ told.ok => ran = sent.sql /\ told.sql = sent.sql /\ GatewayRuns(sent.sql)

LEMMA GuardedFacts ==
  ASSUME NEW text, NEW request, NEW w \in Wanted, Guarded(text, request, w)
  PROVE  /\ text \in Seq(STRING) /\ request.sql \in Seq(STRING)
         /\ text # <<>> /\ request.sql # <<>>
         /\ request.max_rows \in 1 .. Ceiling
         /\ w \in 1 .. Ceiling => request.max_rows = w
         /\ w \in Ceiling .. Rows32 - 1 => request.max_rows = Ceiling
         /\ w \notin 0 .. Rows32 - 1 => request.max_rows = DefaultRows
<1>1. /\ text \in Seq(STRING) /\ request.sql = strip_fences(text)
      /\ ensure_read_only(request.sql) /\ request.max_rows = max_rows(w)
  BY TextsAssumption DEF Guarded
<1>2. request.sql \in Seq(STRING)  BY <1>1, StripIsSeq, Zenon
<1>3. request.sql # <<>>  BY <1>1 DEF ensure_read_only
<1>4. text # <<>>  BY <1>1, <1>3, NothingWritten, Zenon
<1> QED  BY <1>1, <1>2, <1>3, <1>4, MaxRowsFacts

LEMMA InitSqlInv == SqlInit => SqlInv
<1> SUFFICES ASSUME SqlInit PROVE SqlInv  OBVIOUS
<1>1. sent.max_rows = 0 /\ ~ told.ok /\ step = "start" /\ wanted \in Wanted
  BY DEF SqlInit, Nothing
<1>2. 0 \in 0 .. Ceiling  BY RowsAssumption
<1> QED  BY <1>1, <1>2 DEF SqlInv, SqlTypeInvariant, Requests

LEMMA SqlStutters == SqlInv /\ UNCHANGED sqlVars => SqlInv'
BY DEF SqlInv, SqlTypeInvariant, sqlVars

(* A request that fails leaves nothing to answer for.                      *)
LEMMA SqlFails ==
  ASSUME SqlInv, step # "done", Fail, wanted' = wanted, said' = said,
         sent'.max_rows \in 0 .. Ceiling
  PROVE  SqlInv'
<1>1. ~ told.ok /\ told' = told /\ step' = "done"  BY DEF Fail, SqlInv, SqlTypeInvariant
<1> QED  BY <1>1 DEF SqlInv, SqlTypeInvariant, Requests

LEMMA SqlNextInv == SqlInv /\ SqlNext => SqlInv'
<1> SUFFICES ASSUME SqlInv, SqlNext PROVE SqlInv'  OBVIOUS
<1>1. SqlTypeInvariant  BY DEF SqlInv
<1>2. sent.max_rows \in 0 .. Ceiling /\ wanted \in Wanted  BY <1>1 DEF SqlTypeInvariant
<1>3. ASSUME NEW complete \in BOOLEAN, Begin(complete) PROVE SqlInv'
  <2>1. step = "start" /\ UNCHANGED <<wanted, said, sent, ran>>  BY <1>3 DEF Begin
  <2>2. CASE complete
    <3>1. step' = "schema" /\ told' = told  BY <1>3, <2>2 DEF Begin
    <3> QED  BY <2>1, <3>1 DEF SqlInv, SqlTypeInvariant, Requests
  <2>3. CASE ~ complete
    <3>1. Fail  BY <1>3, <2>3 DEF Begin
    <3> QED  BY <1>2, <2>1, <3>1, SqlFails
  <2> QED  BY <2>2, <2>3
<1>4. CASE SchemaAnswers
  BY <1>4 DEF SchemaAnswers, SqlInv, SqlTypeInvariant, Requests
<1>5. CASE CompletionAnswers
  <2>1. /\ step = "completion" /\ wanted' = wanted /\ ran' = ran /\ said' \in Texts
        /\ ~ told.ok
    BY <1>1, <1>5 DEF CompletionAnswers, SqlTypeInvariant
  <2>2. CASE ensure_read_only(strip_fences(said'))
    <3>1. /\ sent' = [sql |-> strip_fences(said'), max_rows |-> max_rows(wanted)]
          /\ step' = "query" /\ told' = told
      BY <1>5, <2>2 DEF CompletionAnswers
    <3>2. sent'.sql = strip_fences(said') /\ sent'.max_rows = max_rows(wanted)
      BY <3>1
    <3>3. Guarded(said', sent', wanted')  BY <2>1, <2>2, <3>2 DEF Guarded
    <3>4. max_rows(wanted) \in 1 .. Ceiling  BY <1>2, MaxRowsFacts
    <3>5. sent'.max_rows \in 0 .. Ceiling  BY <3>2, <3>4
    <3> QED  BY <1>2, <2>1, <3>1, <3>3, <3>5 DEF SqlInv, SqlTypeInvariant, Requests
  <2>3. CASE ~ ensure_read_only(strip_fences(said'))
    <3>1. Fail /\ sent' = sent  BY <1>5, <2>3 DEF CompletionAnswers
    <3>2. ~ told'.ok /\ step' = "done" /\ sent'.max_rows \in 0 .. Ceiling
      BY <1>2, <2>1, <3>1 DEF Fail
    <3> QED  BY <1>2, <2>1, <3>2 DEF SqlInv, SqlTypeInvariant, Requests
  <2> QED  BY <2>2, <2>3
<1>6. CASE QueryAnswers
  <2>1. /\ step = "query" /\ GatewayRuns(sent.sql) /\ ran' = sent.sql
        /\ told' = [ok |-> TRUE, sql |-> sent.sql] /\ step' = "done"
        /\ UNCHANGED <<wanted, said, sent>>
    BY <1>6 DEF QueryAnswers
  <2>2. Guarded(said, sent, wanted)  BY <2>1 DEF SqlInv
  <2>3. said # <<>>  BY <1>2, <2>2, GuardedFacts
  <2>4. told'.ok /\ told'.sql = sent.sql  BY <2>1
  <2>5. SqlTypeInvariant'
    BY <1>2, <2>1, <2>3 DEF SqlTypeInvariant, Requests
  <2> QED  BY <2>1, <2>2, <2>4, <2>5 DEF SqlInv
<1>7. ASSUME NEW happened \in BOOLEAN, RequestFails(happened) PROVE SqlInv'
  <2>1. step # "done" /\ Fail /\ UNCHANGED <<wanted, said, sent>>
    BY <1>7 DEF RequestFails
  <2> QED  BY <1>2, <2>1, SqlFails
<1> QED  BY <1>3, <1>4, <1>5, <1>6, <1>7 DEF SqlNext

-----------------------------------------------------------------------------
(* What the invariant says of the statement.                               *)

(* A statement the gateway runs is no part of a fence's line.              *)
LEMMA RunsIsStatementlike ==
  ASSUME NEW sql \in Seq(STRING), sql # <<>>, GatewayRuns(sql)
  PROVE  Statementlike(sql)
<1>1. Head(sql) = sql[1] /\ DOMAIN sql = 1 .. Len(sql)  OBVIOUS
<1>2. sql[1] \in {"SELECT", "WITH"}  BY <1>1 DEF GatewayRuns
<1>3. sql[1] # "sql"  BY <1>2
<1>4. \A k \in 1 .. Len(sql) : sql[k] # "fence"  BY <1>1 DEF GatewayRuns, ToSet
<1> QED  BY <1>3, <1>4 DEF Statementlike

LEMMA AnswerFromInv == SqlInv => AnswerIsToTheStatementWritten
<1> SUFFICES ASSUME SqlInv PROVE AnswerIsToTheStatementWritten  OBVIOUS
<1>1. wanted \in Wanted  BY DEF SqlInv, SqlTypeInvariant
<1>2. ASSUME step = "query"
      PROVE  /\ ToSet(Bare(sent.sql)) \intersect (Forbidden \union {"--", "/*"}) = {}
             /\ \A k \in DOMAIN Bare(sent.sql) :
                  Bare(sent.sql)[k] = "semicolon" => k = Len(Bare(sent.sql))
  <2> DEFINE sql == sent.sql
             bare == Bare(sql)
  <2>1. Guarded(said, sent, wanted)  BY <1>2 DEF SqlInv
  <2>2. sql \in Seq(STRING) /\ ensure_read_only(sql)
    BY <1>1, <2>1, GuardedFacts DEF Guarded
  <2> HIDE DEF sql
  <2>3. \A k \in 1 .. Len(sql) : /\ sql[k] \notin Forbidden \union {"--", "/*"}
                                 /\ sql[k] = "semicolon" => k = Len(sql)
    BY <2>2, GuardFacts
  <2>4. /\ DOMAIN bare = 1 .. Len(sql) /\ Len(bare) = Len(sql)
        /\ \A k \in 1 .. Len(sql) : bare[k] \in {sql[k], "quote"}
    BY <2>2, BareFacts
  <2>5. "quote" \notin Forbidden \union {"--", "/*", "semicolon"}  BY DEF Forbidden
  <2> HIDE DEF bare
  <2>6. ASSUME NEW k \in 1 .. Len(sql)
        PROVE  bare[k] \notin Forbidden \union {"--", "/*"}
               /\ (bare[k] = "semicolon" => k = Len(sql))
    <3>1. bare[k] = sql[k] \/ bare[k] = "quote"  BY <2>4
    <3>2. CASE bare[k] = sql[k]  BY <2>3, <3>2, Zenon
    <3>3. CASE bare[k] = "quote"
      <4>1. bare[k] # "semicolon"  BY <3>3
      <4>2. bare[k] \notin Forbidden \union {"--", "/*"}  BY <2>5, <3>3, Zenon
      <4> QED  BY <4>1, <4>2
    <3> QED  BY <3>1, <3>2, <3>3
  <2>7. ToSet(bare) \intersect (Forbidden \union {"--", "/*"}) = {}
    <3>1. ASSUME NEW x \in ToSet(bare) PROVE x \notin Forbidden \union {"--", "/*"}
      <4>1. PICK k \in DOMAIN bare : x = bare[k]  BY DEF ToSet
      <4>2. k \in 1 .. Len(sql)  BY <2>4
      <4> QED  BY <2>6, <4>1, <4>2, Zenon
    <3> QED  BY <3>1
  <2>8. \A k \in DOMAIN bare : bare[k] = "semicolon" => k = Len(bare)
    <3> TAKE k \in DOMAIN bare
    <3>1. k \in 1 .. Len(sql) /\ Len(bare) = Len(sql)  BY <2>4
    <3> QED  BY <2>6, <3>1, Zenon
  <2> QED  BY <2>7, <2>8 DEF bare, sql
<1>3. ASSUME told.ok
      PROVE  /\ ran = told.sql /\ sent.sql = told.sql
             /\ FenceLineIsBare(said) => told.sql = Written(said)
             /\ sent.max_rows \in 1 .. Ceiling
             /\ wanted \in 1 .. Ceiling => sent.max_rows = wanted
             /\ wanted \in Ceiling .. Rows32 - 1 => sent.max_rows = Ceiling
             /\ wanted \notin 0 .. Rows32 - 1 => sent.max_rows = DefaultRows
  <2>1. /\ Guarded(said, sent, wanted)
        /\ ran = sent.sql /\ told.sql = sent.sql /\ GatewayRuns(sent.sql)
    BY <1>3 DEF SqlInv
  <2>2. /\ said \in Seq(STRING) /\ sent.sql \in Seq(STRING) /\ sent.sql # <<>>
        /\ sent.max_rows \in 1 .. Ceiling
        /\ wanted \in 1 .. Ceiling => sent.max_rows = wanted
        /\ wanted \in Ceiling .. Rows32 - 1 => sent.max_rows = Ceiling
        /\ wanted \notin 0 .. Rows32 - 1 => sent.max_rows = DefaultRows
    BY <1>1, <2>1, GuardedFacts
  <2>3. sent.sql = strip_fences(said)  BY <2>1 DEF Guarded
  <2>4. Statementlike(sent.sql)  BY <2>1, <2>2, RunsIsStatementlike
  <2>5. FenceLineIsBare(said) => sent.sql = Written(said)
    BY <2>2, <2>3, <2>4, StatementIsWritten, Zenon
  <2> QED  BY <2>1, <2>2, <2>5
<1> QED  BY <1>2, <1>3 DEF AnswerIsToTheStatementWritten

-----------------------------------------------------------------------------
(* The flow takes one of the two ways, and the other one stands still.     *)
AskInv == node \in {"chat2data", "sql"} /\ ChatInv /\ SqlInv

LEMMA InitAskInv == Init => AskInv
BY InitChatInv, InitSqlInv DEF Init, AskInv

LEMMA NextAskInv == AskInv /\ [Next]_vars => AskInv'
<1> SUFFICES ASSUME AskInv, [Next]_vars PROVE AskInv'  OBVIOUS
<1>1. CASE node = "chat2data" /\ ChatNext /\ UNCHANGED <<node, sqlVars>>
  BY <1>1, ChatNextInv, SqlStutters DEF AskInv
<1>2. CASE node = "sql" /\ SqlNext /\ UNCHANGED <<node, chatVars>>
  BY <1>2, SqlNextInv, ChatStutters DEF AskInv
<1>3. CASE UNCHANGED vars
  BY <1>3, ChatStutters, SqlStutters DEF AskInv, vars
<1> QED  BY <1>1, <1>2, <1>3 DEF Next

LEMMA Invariance == Spec => []AskInv
BY InitAskInv, NextAskInv, PTL DEF Spec

(* Every variable of both ways keeps to its values: a verdict's limit is a *)
(* number, a step after the validator has an intent and a valid verdict,   *)
(* an answer is there exactly when the chain is done, and a flow of the    *)
(* sql node that is told ok has had a text of the model.                   *)
THEOREM TypeCorrect == Spec => []TypeInvariant
<1>1. AskInv => TypeInvariant  BY DEF AskInv, ChatInv, SqlInv, TypeInvariant
<1> QED  BY <1>1, Invariance, PTL

(* For every whitelist, intent and size of a table or a repository: no     *)
(* more rows reach the renderer than the validator allows.                 *)
THEOREM RowsAreWithinTheLimit == Spec => []RowsStayWithinTheLimit
<1>1. AskInv => RowsStayWithinTheLimit  BY RowsFromInv DEF AskInv
<1> QED  BY <1>1, Invariance, PTL

(* For any size of the source, limit and offset: a list or a table of      *)
(* GitHub's rows that leaves some out carries the notice, which counts no  *)
(* more rows than there are, and "No results found" is said of nothing, of *)
(* a limit of 0, of a page past the end or of a body that is no list.      *)
THEOREM CutAnswersAreMarked == Spec => []OmissionsAreMarked
<1>1. AskInv => OmissionsAreMarked  BY OmissionsFromInv DEF AskInv
<1> QED  BY <1>1, Invariance, PTL

(* For filters of every length: a statement the database runs selects the  *)
(* rows the intent's where asks for, which is an object then, and of a     *)
(* having that is an object the groups that it asks for; each placeholder  *)
(* in it has a parameter of its own column. A having of another shape is   *)
(* left out of the statement, and nothing is said of it here.              *)
THEOREM QueryMeansTheIntent == Spec => []QueryThatRunsMeansTheIntent
<1>1. AskInv => QueryThatRunsMeansTheIntent  BY MeaningFromInv DEF AskInv
<1> QED  BY <1>1, Invariance, PTL

(* In strict mode a select names exactly the strings among the columns of  *)
(* the intent, in their order, whatever else the JSON of the columns is;   *)
(* where it has no string, the select is of all columns.                   *)
THEOREM ProjectionIsTheOneAsked == Spec => []StrictProjectionIsTheOneAsked
<1>1. AskInv => StrictProjectionIsTheOneAsked  BY ProjectionFromInv DEF AskInv
<1> QED  BY <1>1, Invariance, PTL

(* For every text a model can write, of any length: what is sent is one    *)
(* read outside its quotes, and a flow that is told ok is shown what the   *)
(* gateway ran, within the ceiling of rows.  That is the statement written *)
(* wherever the line that opens a fence has no SQL on it; where it has,    *)
(* that line is lost, and nothing is said of the rest.                     *)
THEOREM AnswerIsToTheQuestion == Spec => []AnswerIsToTheStatementWritten
<1>1. AskInv => AnswerIsToTheStatementWritten  BY AnswerFromInv DEF AskInv
<1> QED  BY <1>1, Invariance, PTL
====
