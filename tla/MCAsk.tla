------------------------------- MODULE MCAsk -------------------------------
(* The questions, whitelist and texts TLC tries.                           *)
EXTENDS Ask

MCIdentifiers == {"orders", "logs", "closed", "id", "name", "total", "secret"}

MCWhitelist ==
  [sqlite |-> [operations |-> {"select", "count", "aggregate"},
               tables |-> [t \in {"orders", "logs", "closed"} |->
                 CASE t = "orders" ->
                        [allowed_columns |-> {"id", "name"}, forbidden_columns |-> {"secret"},
                         max_rows |-> 20]
                   [] t = "logs" ->
                        [allowed_columns |-> {"*"}, forbidden_columns |-> {}, max_rows |-> 100]
                   [] t = "closed" ->
                        [allowed_columns |-> {"*"}, forbidden_columns |-> {}, max_rows |-> 0]]],
   github |-> [operations |-> {"list_issues", "get_issue", "search_code"},
               repos |-> {<<"acme", "*">>}, forbidden |-> {<<"*", "vault">>}],
   mcp    |-> [tools |-> {"read_file"}, forbidden_paths |-> {<<"etc", "*">>},
               extensions |-> {".md"}]]

MCConfigs ==
  [strict_mode : BOOLEAN, max_list_items : {10, 100}, api_key : {TRUE}, github_token : {TRUE}]
  \union [strict_mode : {TRUE}, max_list_items : {10}, api_key : BOOLEAN, github_token : {FALSE}]

-----------------------------------------------------------------------------
Scalar(v)  == [list |-> FALSE, true |-> FALSE, items |-> <<v>>]
True       == [list |-> FALSE, true |-> TRUE, items |-> <<1>>]
List(vs)   == [list |-> TRUE, true |-> FALSE, items |-> vs]
Op(o, arg) == [op |-> o, arg |-> arg]

Cond(c, is, arg, ops) == [column |-> c, is |-> is, arg |-> arg, ops |-> ops]
Is(c, v)      == Cond(c, "scalar", Scalar(v), <<>>)
IsNull(c)     == Cond(c, "null", Scalar(Null), <<>>)
Among(c, ops) == Cond(c, "object", Scalar(Null), ops)
Array(c)      == Cond(c, "array", List(<<>>), <<>>)

\* Each operator with an argument that fits it and, where the code looks at
\* the shape, one that does not.
Ops ==
  {Op(o, Scalar(2)) : o \in DOMAIN Symbol}
  \union {Op("eq", List(<<1, 2>>)), Op("gt", Scalar(Null)),
          Op("in", List(<<1, 3>>)), Op("in", List(<<>>)), Op("in", Scalar(1)),
          Op("null", True), Op("null", Scalar(1)),
          Op("between", List(<<1, 2>>)), Op("between", List(<<1>>)), Op("near", Scalar(1))}

FewOps == {Op("gt", Scalar(1)), Op("in", List(<<1, 3>>)), Op("in", Scalar(1)),
           Op("null", True), Op("between", List(<<1, 2>>))}

ConditionsOn(c) ==
  {Is(c, 2), IsNull(c), Array(c), Among(c, <<>>)}
  \union {Among(c, <<o>>) : o \in Ops}
  \union {Among(c, <<o, p>>) : o \in FewOps, p \in FewOps}

FewConditionsOn(c) ==
  {Is(c, 2), IsNull(c), Among(c, <<>>)} \union {Among(c, <<o>>) : o \in FewOps}

-----------------------------------------------------------------------------
Plain == [target |-> "sqlite", action |-> "select", table |-> "orders", columns |-> <<>>,
          where |-> <<>>, having |-> <<>>, group_by |-> <<>>, aggregates |-> Other,
          order_by |-> <<>>, limit |-> NoNumber, offset |-> 0, given |-> {}, repo |-> <<>>, path |-> <<>>,
          pattern |-> FALSE, renderer |-> "auto"]

\* Questions that differ in their filters.
Filters ==
  {[Plain EXCEPT !.where = <<c>>] : c \in ConditionsOn("id")}
  \union {[Plain EXCEPT !.where = <<c, d>>] : c \in FewConditionsOn("id"), d \in FewConditionsOn("name")}
  \union {[Plain EXCEPT !.action = "aggregate", !.aggregates = <<"SUM">>, !.group_by = <<"name">>,
                        !.where = <<c>>, !.having = <<d>>] :
            c \in FewConditionsOn("id"), d \in FewConditionsOn("name")}
  \union {[Plain EXCEPT !.action = "count", !.where = <<c>>] : c \in FewConditionsOn("id")}

\* Questions that differ in how much they ask for and how it is shown.
Amounts ==
  [target : {"sqlite"}, action : {"select"}, table : {"orders", "logs"}, columns : {<<>>},
   where : {<<>>}, having : {<<>>}, group_by : {<<>>}, aggregates : {Other}, order_by : {<<>>},
   limit : {NoNumber, 0, 5, 50, UsizeSize, UsizeSize + 5}, offset : {0, 10, 200}, given : {{}}, repo : {<<>>},
   path : {<<>>}, pattern : {FALSE}, renderer : {"auto", "list", "graph", "card"}]

\* Questions the validator or the translator has something to say about.
Odd ==
  {[Plain EXCEPT !.columns = cs] :
     cs \in {<<"id">>, <<"name", "id">>, <<"id", "total">>, <<"total">>, <<"*">>, <<"secret">>,
             <<"no such", "id">>, Other, <<Other>>, <<Other, "name", "id">>, <<"total", Other>>}}
  \union {[Plain EXCEPT !.table = t] : t \in {"", "users", "no such", "closed"}}
  \union {[Plain EXCEPT !.table = "logs", !.columns = <<"total", "id">>],
          [Plain EXCEPT !.pattern = TRUE], [Plain EXCEPT !.where = <<Is("secret", 1)>>],
          [Plain EXCEPT !.where = <<Is("no such", 1)>>],
          [Plain EXCEPT !.where = Other],
          [Plain EXCEPT !.order_by = <<"name", Other>>], [Plain EXCEPT !.order_by = <<Other>>],
          [Plain EXCEPT !.action = "delete"], [Plain EXCEPT !.target = "ftp"],
          [Plain EXCEPT !.action = "aggregate"],
          [Plain EXCEPT !.action = "aggregate", !.aggregates = <<>>],
          [Plain EXCEPT !.action = "aggregate", !.aggregates = <<>>, !.group_by = <<"name">>],
          [Plain EXCEPT !.action = "aggregate", !.aggregates = <<"SUM">>, !.group_by = <<Other>>],
          [Plain EXCEPT !.action = "aggregate", !.aggregates = <<"SUM">>, !.group_by = <<"name">>,
                        !.where = <<Is("id", 2)>>, !.having = Other],
          [Plain EXCEPT !.action = "aggregate", !.aggregates = <<"MEDIAN">>]}

Github ==
  {[Plain EXCEPT !.target = "github", !.action = a, !.given = g, !.repo = r, !.renderer = d] :
     a \in {"list_issues", "get_issue", "search_code", "list_prs"},
     g \in {{"repo"}, {"repo", "number"}, {"query"}, {"query", "repo"}},
     r \in {<<"acme", "web">>, <<"acme", "vault">>, <<"other", "web">>},
     d \in {"auto", "table"}}

Mcp ==
  {[Plain EXCEPT !.target = "mcp", !.action = a, !.given = {"path"}, !.path = p] :
     a \in {"read_file", "list_files"}, p \in {<<"docs", ".md">>, <<"docs", ".txt">>, <<"etc", ".md">>}}

MCIntents == {i : i \in Filters \union Amounts \union Odd \union Github \union Mcp}

-----------------------------------------------------------------------------
Lexemes == {"SELECT", "DELETE", "name", "sql", "semicolon", "quote", "--", "fence", "nl"}

\* Everything short, and short statements in the wrappings models use.
Wrapped(t) ==
  {<<"fence", "nl">> \o t \o <<"nl", "fence">>,
   <<"fence", "sql", "nl">> \o t \o <<"nl", "fence">>,
   <<"fence">> \o t \o <<"fence">>,
   <<"fence", "sql">> \o t \o <<"fence">>,
   <<"fence", "nl">> \o t \o <<"nl", "fence", "nl", "name">>,
   <<"fence", "nl">> \o t,
   <<"name", "nl", "fence", "nl">> \o t \o <<"nl", "fence">>}

Statements ==
  LET Ends == BoundedSeq({"SELECT", "name", "quote", "semicolon", "INTO", "nl"}, 2)
  IN  Ends \union {<<"SELECT">> \o t : t \in Ends}

MCTexts == BoundedSeq(Lexemes, 2) \union UNION {Wrapped(t) \union {t} : t \in Statements}

MCUsizeSize == 1000
MCNoIntent == [Plain EXCEPT !.target = ""]

MCNotGiven == -1
MCWanted == {MCNotGiven, 0, 1, 1000, 1001, 2000}
============================================================================
