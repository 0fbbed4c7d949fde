----------------------------- MODULE Chat2Data -----------------------------
(***************************************************************************)
(* A question on its way through the five chat2data nodes of a flow:       *)
(*                                                                         *)
(*   llm         the message becomes an intent, or a question back         *)
(*   validator   the intent is held against the whitelist                  *)
(*   translator  it becomes SQL, a GitHub request or a tool call           *)
(*   executor    GitHub is called; SQL and tools are left to the runtime   *)
(*   renderer    the rows become a card                                    *)
(*                                                                         *)
(* The flow goes on as long as a node says ok, the validator valid and the *)
(* executor success; otherwise what the node said is the answer.  A        *)
(* question back may be answered, which starts again with the history.     *)
(* The model, the runtime and GitHub are external: they answer anything    *)
(* they can, and the host gives a request up when its time is over.        *)
(***************************************************************************)
EXTENDS Integers, Sequences, FiniteSets, SequencesExt, Translator, Validator

CONSTANTS
  Configs,          \* [strict_mode, max_list_items, api_key, github_token]
  Intents,          \* what the model can make of a message
  Sizes,            \* bound: how many rows the source holds for the question
  Widths,           \* bound: how many columns a row has
  GithubStatuses,   \* bound: the statuses GitHub answers with
  MaxTurns,         \* bound: how often the user answers a question back
  NoIntent          \* the model's answer has no intent

ASSUME SizesAssumption == Sizes \subseteq Nat /\ Widths \subseteq Nat
ASSUME TurnsAssumption == MaxTurns \in Nat
\* The widths of usize, u64 and Option<u64> are naturals; no offset is one of 0.
ASSUME ConfigsAssumption ==
  \A c \in Configs : c.strict_mode \in BOOLEAN /\ c.max_list_items \in Nat
\* The columns, where and having of an intent have the shape the code reads or
\* another one, and so has each of its columns.
ASSUME IntentsAssumption ==
  \A i \in Intents : /\ i.limit \in Nat \union {NoNumber} /\ i.offset \in Nat
                     /\ i.columns \in Seq(STRING \union {Other}) \union {Other}
                     /\ i.where \in Seq(Conditions) \union {Other}
                     /\ i.having \in Seq(Conditions) \union {Other}
ASSUME OtherAssumption == Other \notin Seq(STRING \union {Other}) \union Seq(Conditions)

-----------------------------------------------------------------------------
(* component-chat2data-renderer.  The layout is left out; what a card says *)
(* of the rows is kept: which renderer was used, how many rows are shown,  *)
(* the number the notice about the others counts, and the sentence in the  *)
(* place of rows.                                                          *)

NoData == [rows |-> 0, columns |-> 0, numeric |-> FALSE, total |-> NoNumber, truncated |-> FALSE]

NoCard == [used |-> "none", shown |-> 0, of |-> NoNumber, says |-> ""]

AtMost(a, b) == IF a < b THEN a ELSE b

\* One row is a card; few label-value pairs a graph; many columns or rows a table.
auto_select_renderer(d) ==
  IF d.rows = 1       THEN "card"
  ELSE IF d.rows = 0  THEN "table"
  ELSE IF d.columns = 2 /\ d.numeric /\ d.rows <= 10 THEN "graph"
  ELSE IF d.columns <= 4 /\ d.rows <= 20 THEN "list"
  ELSE "table"

\* A list, and a table that is not empty, says "Showing so many of", when it leaves
\* out rows or the executor has: of the total, or of the rows at hand.
Notice(d, max_list_items) ==
  IF d.rows <= AtMost(max_list_items, d.rows) /\ ~d.truncated THEN NoNumber
  ELSE IF d.total # NoNumber THEN d.total
  ELSE d.rows

render_list(d, max_list_items) ==
  [used |-> "list", shown |-> AtMost(max_list_items, d.rows),
   of   |-> Notice(d, max_list_items),
   says |-> IF d.rows = 0 THEN "No results found" ELSE ""]

render_table(d, max_list_items) ==
  [used |-> "table", shown |-> AtMost(max_list_items, d.rows),
   of   |-> IF d.rows = 0 THEN NoNumber ELSE Notice(d, max_list_items),
   says |-> IF d.rows = 0 THEN "No results found" ELSE ""]

\* A card shows the first row whatever the others are, and counts one item.
render_card(d) ==
  [used |-> "card", shown |-> 1, of |-> NoNumber,
   says |-> IF d.rows = 0 THEN "No data available" ELSE ""]

\* A graph has a bar for every row.
render_graph(d) ==
  [used |-> "graph", shown |-> d.rows, of |-> NoNumber,
   says |-> IF d.rows # 0 /\ d.columns >= 2 THEN "" ELSE "Insufficient data for graph"]

handle_render(d, renderer, max_list_items) ==
  LET used == IF renderer = "auto" THEN auto_select_renderer(d) ELSE renderer
  IN  CASE used = "list"  -> render_list(d, max_list_items)
        [] used = "card"  -> render_card(d)
        [] used = "graph" -> render_graph(d)
        [] OTHER          -> render_table(d, max_list_items)
-----------------------------------------------------------------------------
VARIABLES
  cfg,              \* the configuration of the nodes
  pc,               \* the node at work, or whom it waits for
  turns,            \* how often the user has answered a question back
  status,           \* the status the model gave
  intent,           \* the intent it gave
  verdict,          \* what the validator made of it
  query,            \* what the translator made of it
  source,           \* how many rows the source held when it was read, if that is known
  data,             \* what the renderer is given
  card,             \* the card it made
  answer            \* what became of the question

chatVars == <<cfg, pc, turns, status, intent, verdict, query, source, data, card, answer>>

Steps    == {"llm", "openai", "validate", "translate", "execute", "runtime", "github",
             "render", "done"}
Statuses == {"none", "ready", "need_clarification", "cannot_process"}
Answers  == {"none", "card", "back", "refused", "failed", "retryable", "error"}

Renderers == {"list", "table", "card", "graph"}

ChatInit ==
  /\ cfg \in Configs
  /\ pc = "llm" /\ turns = 0 /\ status = "none" /\ intent = NoIntent
  /\ verdict = NoVerdict /\ query = NoQuery
  /\ source = 0 /\ data = NoData /\ card = NoCard /\ answer = "none"

GoTo(step) == pc' = step /\ UNCHANGED answer
End(what)  == pc' = "done" /\ answer' = what

\* A key or token is there as a literal, or as the name of a secret that is stored.
KeyResolves   == cfg.api_key
TokenResolves == cfg.github_token

\* An empty message and a key that is absent or unreadable end the node.
Parse ==
  /\ pc = "llm"
  /\ IF KeyResolves THEN GoTo("openai") ELSE End("error")
  /\ UNCHANGED <<cfg, turns, status, intent, verdict, query, source, data, card>>

\* The answer is lost, no success, empty or no QueryIntent: nothing is learnt.
OpenaiFails ==
  /\ pc = "openai"
  /\ End("error")
  /\ UNCHANGED <<cfg, turns, status, intent, verdict, query, source, data, card>>

\* Ready, with an intent or without one; or not ready, with its reason.
OpenaiAnswers ==
  /\ pc = "openai"
  /\ \/ status' = "ready" /\ intent' \in Intents \union {NoIntent}
     \/ status' \in {"need_clarification", "cannot_process"} /\ intent' = NoIntent
  /\ GoTo("validate")
  /\ UNCHANGED <<cfg, turns, verdict, query, source, data, card>>

\* A ready answer without an intent is an error; one that is not ready passes
\* through, and its clarification or its reason is what the user gets.
Validate ==
  /\ pc = "validate"
  /\ verdict' = IF status = "ready" /\ intent = NoIntent THEN NoVerdict
                ELSE handle_validate(status, intent, cfg.strict_mode)
  /\ IF status = "ready" /\ intent = NoIntent THEN End("error")
     ELSE IF verdict'.pass_through THEN End("back")
     ELSE IF ~verdict'.valid       THEN End("refused")
     ELSE GoTo("translate")
  /\ UNCHANGED <<cfg, turns, status, intent, query, source, data, card>>

Translate ==
  /\ pc = "translate"
  /\ query' = translate_intent(intent, verdict)
  /\ IF query'.error = "none" THEN GoTo("execute") ELSE End("refused")
  /\ UNCHANGED <<cfg, turns, status, intent, verdict, source, data, card>>

\* A defect: a tool call is prepared for nobody.
ExecuteWithoutTools ==
  /\ pc = "execute"
  /\ CASE query.type = "sql"                       -> GoTo("runtime")
       [] query.type = "http" /\ TokenResolves  -> GoTo("github")
       [] query.type = "http" /\ ~TokenResolves -> End("error")
       [] OTHER                                     -> UNCHANGED <<pc, answer>>
  /\ UNCHANGED <<cfg, turns, status, intent, verdict, query, source, data, card>>

\* SQL and tool calls are prepared for the runtime, a GitHub request is sent.
Execute ==
  /\ pc = "execute"
  /\ IF query.type # "http" THEN GoTo("runtime")
     ELSE IF TokenResolves  THEN GoTo("github")
     ELSE End("error")
  /\ UNCHANGED <<cfg, turns, status, intent, verdict, query, source, data, card>>

\* A keyword opens a clause, and conditions alternate with the ANDs after it.
WellFormed(clause) ==
  \/ clause = <<>>
  \/ /\ Len(clause) % 2 = 0
     /\ \A k \in 2..Len(clause) : (clause[k] = And) <=> (k % 2 = 1)

\* A select list has elements, and so has what is ordered or grouped by.
Runs(q) ==
  /\ q.columns # <<>>
  /\ WellFormed(q.where) /\ WellFormed(q.having)
  /\ Len(q.order) # 1 /\ Len(q.group) # 1

\* The rows a statement returns of n that its conditions hold of, without those
\* the offset passes over; a count is one row.
Returned(q, n) ==
  IF q.limit = NoNumber  THEN 1
  ELSE IF q.offset < n THEN AtMost(n - q.offset, q.limit)
  ELSE 0

\* The database turns down what is not SQL; otherwise it returns the rows, and
\* the runtime says of them what it likes.
DatabaseAnswers ==
  /\ pc = "runtime" /\ query.type = "sql" /\ Runs(query)
  /\ \E n \in Sizes, columns \in Widths, truncated \in BOOLEAN :
       /\ source' = n
       /\ data' = [rows |-> Returned(query, n), columns |-> columns, numeric |-> columns = 2,
                   total |-> NoNumber, truncated |-> truncated]
  /\ GoTo("render")
  /\ UNCHANGED <<cfg, turns, status, intent, verdict, query, card>>

\* What a tool returns has not the renderer's shape, unless the flow gives it one.
ToolAnswers ==
  /\ pc = "runtime" /\ query.type = "mcp"
  /\ source' \in Sizes
  /\ data' \in {NoData, [NoData EXCEPT !.rows = source', !.columns = 3]}
  /\ GoTo("render")
  /\ UNCHANGED <<cfg, turns, status, intent, verdict, query, card>>

RuntimeFails ==
  /\ pc = "runtime"
  /\ End("failed")
  /\ UNCHANGED <<cfg, turns, status, intent, verdict, query, source, data, card>>

\* A list returns one page; a get action is about one object, which it returns.
PageOf(q, n) == IF q.per_page # NoNumber THEN AtMost(n, q.per_page) ELSE n

\* A defect: only more than a page counts as truncated.
TruncatedBeyond(rows, max_rows) == rows > max_rows

\* A full page counts as truncated.
Truncated(rows, max_rows) == rows >= max_rows

GithubAnswers ==
  /\ pc = "github"
  /\ \E n \in Sizes, columns \in Widths :
       LET rows == PageOf(query, n)
       IN  /\ query.per_page = NoNumber => n = 1
           /\ source' = n
           /\ data' = [rows |-> rows, columns |-> IF rows = 0 THEN 0 ELSE columns,
                       numeric |-> FALSE, total |-> NoNumber,
                       truncated |-> Truncated(rows, verdict.max_rows)]
  /\ GoTo("render")
  /\ UNCHANGED <<cfg, turns, status, intent, verdict, query, card>>

\* JSON that is neither an array nor an object is a success without rows, and
\* says nothing of how many there are.
GithubAnswersOddly ==
  /\ pc = "github"
  /\ source' = NoNumber
  /\ data' = [NoData EXCEPT !.truncated = Truncated(0, verdict.max_rows)]
  /\ GoTo("render")
  /\ UNCHANGED <<cfg, turns, status, intent, verdict, query, card>>

\* A defect: what cannot be used is shown as if it were empty.
GithubUnusableIsEmpty(what) ==
  /\ pc = "github" /\ what \in Answers
  /\ source' \in Sizes /\ data' = NoData
  /\ GoTo("render")
  /\ UNCHANGED <<cfg, turns, status, intent, verdict, query, card>>

\* More bytes than max_result_size_bytes, or a body that is not JSON.
GithubUnusable(what) ==
  /\ pc = "github"
  /\ source' \in Sizes
  /\ End(what)
  /\ UNCHANGED <<cfg, turns, status, intent, verdict, query, data, card>>

GithubRefuses(code) ==
  /\ pc = "github"
  /\ End(IF code \in {403, 429} \/ code >= 500 THEN "retryable" ELSE "failed")
  /\ UNCHANGED <<cfg, turns, status, intent, verdict, query, source, data, card>>

GithubLost ==
  /\ pc = "github"
  /\ End("retryable")
  /\ UNCHANGED <<cfg, turns, status, intent, verdict, query, source, data, card>>

\* What the flow tells the llm node of the data.  The executor names the columns
\* only; a row_count that is absent is zero.
Shapes(d) == [row_count : {0, d.rows}, columns : {NoNumber, d.columns}]

\* The llm node's other operation, which chooses a renderer from the shape alone.
handle_select_renderer(shape) ==
  IF shape.row_count = 1           THEN "card"
  ELSE IF shape.columns = NoNumber THEN "table"
  ELSE IF shape.columns = 2        THEN "graph"
  ELSE IF shape.columns > 4        THEN "table"
  ELSE "list"

\* The flow renders as the intent says, or as select_renderer does.
Chosen == {intent.renderer} \union {handle_select_renderer(shape) : shape \in Shapes(data)}

\* A defect: the card is made and not handed over.
RenderForNobody(renderer) ==
  /\ pc = "render"
  /\ renderer \in Chosen
  /\ card' = handle_render(data, renderer, cfg.max_list_items)
  /\ GoTo("done")
  /\ UNCHANGED <<cfg, turns, status, intent, verdict, query, source, data>>

Render(renderer) ==
  /\ pc = "render"
  /\ renderer \in Chosen
  /\ card' = handle_render(data, renderer, cfg.max_list_items)
  /\ End("card")
  /\ UNCHANGED <<cfg, turns, status, intent, verdict, query, source, data>>

\* The user answers the question back, and the model reads the whole conversation.
UserReplies ==
  /\ pc = "done" /\ answer = "back" /\ status = "need_clarification" /\ turns < MaxTurns
  /\ turns' = turns + 1
  /\ pc' = "llm" /\ status' = "none" /\ intent' = NoIntent /\ verdict' = NoVerdict
  /\ answer' = "none"
  /\ UNCHANGED <<cfg, query, source, data, card>>

Nodes == Parse \/ Validate \/ Translate \/ Execute
         \/ \E renderer \in Renderers \union {"auto"} : Render(renderer)

Replies ==
  \/ OpenaiFails
  \/ OpenaiAnswers
  \/ GithubAnswers
  \/ GithubAnswersOddly
  \/ \E what \in {"failed", "error"} : GithubUnusable(what)
  \/ \E code \in GithubStatuses : GithubRefuses(code)
  \/ GithubLost

Runtime == DatabaseAnswers \/ ToolAnswers \/ RuntimeFails

ChatNext == Nodes \/ Replies \/ Runtime \/ UserReplies

-----------------------------------------------------------------------------
(* What the intent asks for, read off the intent.                          *)

\* A comparison with NULL holds of nothing.
Compares(op, x, y) ==
  /\ x # Null /\ y # Null
  /\ CASE op \in {"eq", "like"} -> x = y
       [] op = "ne"             -> x # y
       [] op = "gt"             -> x > y
       [] op = "gte"            -> x >= y
       [] op = "lt"             -> x < y
       [] op = "lte"            -> x <= y

AsksOperator(o, x) ==
  CASE o.op = "null"    -> o.arg.true <=> (x = Null)
    [] o.op = "in"      -> o.arg.list /\ \E y \in ToSet(o.arg.items) : Compares("eq", x, y)
    [] o.op = "between" -> /\ o.arg.list /\ Len(o.arg.items) = 2
                           /\ Compares("gte", x, o.arg.items[1])
                           /\ Compares("lte", x, o.arg.items[2])
    [] OTHER            -> Compares(o.op, x, IF o.arg.list THEN JsonText ELSE o.arg.items[1])

Asks(filter, row) ==
  \A k \in DOMAIN filter :
    LET c == filter[k]
        x == row[c.column]
    IN  CASE c.is = "scalar" -> Compares("eq", x, c.arg.items[1])
          [] c.is = "null"   -> x = Null
          [] OTHER           -> \A j \in DOMAIN c.ops : AsksOperator(c.ops[j], x)

\* What the database makes of a condition with the parameters bound to it.
Holds(test, x, bound) ==
  CASE test = "IS NULL"     -> x = Null
    [] test = "IS NOT NULL" -> x # Null
    [] test = "IN"          -> \E k \in DOMAIN bound : Compares("eq", x, bound[k])
    [] test = "BETWEEN"     -> Compares("gte", x, bound[1]) /\ Compares("lte", x, bound[2])
    [] OTHER -> \E op \in DOMAIN Symbol : Symbol[op] = test /\ Compares(op, x, bound[1])

Selects(clause, params, row) ==
  \A k \in {j \in DOMAIN clause : clause[j].test \notin Keywords} :
    Holds(clause[k].test, row[clause[k].column],
          [j \in DOMAIN clause[k].at |-> params[clause[k].at[j]]])

\* Every placeholder has its parameter, and every parameter the name of its column.
Bound(clause, q) ==
  \A k \in DOMAIN clause : \A j \in DOMAIN clause[k].at :
    /\ clause[k].at[j] \in DOMAIN q.params \intersect DOMAIN q.names
    /\ q.names[clause[k].at[j]] = clause[k].column

ConditionsOf(filter) == IF filter = Other THEN <<>> ELSE filter

Rows(intentOf) ==
  [{c.column : c \in ToSet(ConditionsOf(intentOf.where)) \union ToSet(ConditionsOf(intentOf.having))}
     -> {Null, 1, 2, 3}]

Translated == query.type = "sql" /\ pc \in {"execute", "runtime"}
-----------------------------------------------------------------------------
(* The variables have their types, and each node has what it works on.     *)
ChatTypeInvariant ==
  /\ cfg \in Configs /\ pc \in Steps /\ turns \in 0..MaxTurns
  /\ status \in Statuses /\ (intent # NoIntent => status = "ready")
  /\ answer \in Answers /\ (answer = "none" <=> pc # "done")
  /\ verdict.max_rows \in Nat /\ query.limit \in Nat \union {NoNumber}
  /\ source \in Sizes \union {0, NoNumber} /\ data.rows \in Nat /\ card.used \in Renderers \union {"none"}
  /\ pc \in {"translate", "execute", "runtime", "github", "render"}
       => intent # NoIntent /\ verdict.valid

(* A statement the database runs selects exactly the rows the intent's     *)
(* where asks for, and its having when that is an object, and every        *)
(* placeholder in it has a parameter of its own column: build_condition    *)
(* and its three callers.  A where of another shape never gets so far;     *)
(* a having of another shape does, unread: no node looks at it, and the    *)
(* groups are not filtered.                                                *)
QueryThatRunsMeansTheIntent ==
  Translated /\ Runs(query) =>
    /\ Bound(query.where, query) /\ Bound(query.having, query)
    /\ intent.where # Other
    /\ \A row \in Rows(intent) :
         /\ Selects(query.where, query.params, row) <=> Asks(intent.where, row)
         /\ intent.action = "aggregate" /\ intent.having # Other =>
              (Selects(query.having, query.params, row) <=> Asks(intent.having, row))

(* No more rows reach the renderer than the validator allows the table or  *)
(* the repository: the limit of the intent never lifts max_rows, and a     *)
(* page of GitHub is no longer than max_rows.                              *)
RowsStayWithinTheLimit ==
  pc = "render" /\ intent.target \in {"sqlite", "github"} /\ intent.action # "count"
    => data.rows <= verdict.max_rows

(* A list or a table of GitHub's that leaves rows out carries the notice   *)
(* "Showing so many of", be it the page, the executor or the renderer that *)
(* cut them: the page of the translator, the max_rows of the validator and *)
(* the comparison of the executor are three constants that have to agree.  *)
(* The number in the notice is the rows at hand and no claim of how many   *)
(* there are; it never says more than there are.  And "No results found"   *)
(* is said of a database or of GitHub only when there are none, when the   *)
(* intent's own limit or offset or the table's max_rows leaves none, or    *)
(* when GitHub answered with JSON that has no rows to read, never of an    *)
(* answer that failed on the way.                                          *)
OmissionsAreMarked ==
  answer = "card" /\ intent.target \in {"sqlite", "github"} =>
    /\ intent.target = "github" /\ card.used \in {"list", "table"} /\ source > card.shown
         => card.of # NoNumber
    /\ intent.target = "github" /\ card.of # NoNumber
         => card.shown <= card.of /\ card.of <= source
    /\ card.says = "No results found"
         => \/ source \in {0, NoNumber} \/ query.offset >= source
            \/ intent.limit % UsizeSize = 0 \/ verdict.max_rows = 0

(* In strict mode a query names the columns that were asked for by a       *)
(* string, in their order, or is not made: no column that was named is     *)
(* dropped by the validator and none added by the translator, whose        *)
(* reading of an empty list as all of them is never reached from a list    *)
(* that names one.  Items that are no strings are passed over in strict    *)
(* mode too, and a list of nothing else, like a value that is no list, is  *)
(* a question for all columns.                                             *)
StrictProjectionIsTheOneAsked ==
  LET named == IF intent.columns = Other THEN <<>> ELSE Strings(intent.columns)
  IN  cfg.strict_mode /\ Translated /\ intent.action = "select"
        => query.columns = (IF named = <<>> THEN Star ELSE named)
============================================================================
