------------------------------- MODULE SqlAsk ------------------------------
(***************************************************************************)
(* component-sql: one question to a database, in four requests' worth of   *)
(* steps: read the schema from the gateway, have a model write SQL, guard  *)
(* it, run it at the gateway.  The text of the model is a sequence of      *)
(* lexemes: words, semicolons, quotes, comment marks, code fences and line *)
(* breaks; blanks between them are left out.                               *)
(***************************************************************************)
EXTENDS Integers, Sequences, FiniteSets, SequencesExt

CONSTANTS
  Texts,            \* what the model can write, as sequences of lexemes
  Wanted,           \* the values of max_results; NotGiven when there is none
  NotGiven,
  Rows32,           \* how many values a u32 has
  DefaultRows,      \* DEFAULT_MAX_ROWS
  Ceiling           \* MAX_ROWS_CEILING

ASSUME RowsAssumption ==
  /\ DefaultRows \in Nat /\ Ceiling \in Nat /\ Rows32 \in Nat
  /\ 1 <= DefaultRows /\ DefaultRows <= Ceiling /\ Ceiling < Rows32
  /\ Wanted \ {NotGiven} \subseteq Nat /\ NotGiven \notin Nat
ASSUME TextsAssumption == Texts \subseteq Seq(STRING)

VARIABLES
  step,             \* the request that is waited for
  wanted,           \* max_results of the node
  said,             \* what the model wrote
  sent,             \* the statement sent to the gateway, and its max_rows
  ran,              \* the statement the gateway has run
  told              \* what the flow is told

sqlVars == <<step, wanted, said, sent, ran, told>>

Nothing == [sql |-> <<>>, max_rows |-> 0]
Requests == {"start", "schema", "completion", "query", "done"}

SqlInit ==
  /\ wanted \in Wanted
  /\ step = "start" /\ said = <<>> /\ sent = Nothing /\ ran = <<>>
  /\ told = [ok |-> FALSE, sql |-> <<>>]

Fail == step' = "done" /\ UNCHANGED told

Forbidden == {"DELETE", "INTO"}
Marks == {"semicolon", "quote", "--", "/*", "fence", "nl"}
IsWord(lexeme) == lexeme \notin Marks

\* The lexemes without those of a set at either end.
TrimStart(t, set) ==
  LET first == SelectInSeq(t, LAMBDA x : x \notin set)
  IN  IF first = 0 THEN <<>> ELSE SubSeq(t, first, Len(t))
TrimEnd(t, set) == SubSeq(t, 1, SelectLastInSeq(t, LAMBDA x : x \notin set))
Trim(t) == TrimStart(TrimEnd(t, {"nl"}), {"nl"})

\* A defect: the last line goes with the fence whether it closes one or not.
strip_last_line(content) ==
  LET trimmed == Trim(content)
      line    == SelectInSeq(trimmed, LAMBDA x : x = "nl")
      rest    == TrimEnd(SubSeq(trimmed, line + 1, Len(trimmed)), {"nl"})
  IN  IF trimmed = <<>> \/ Head(trimmed) # "fence" THEN trimmed
      ELSE IF line = 0 THEN Trim(TrimEnd(TrimStart(trimmed, {"fence"}), {"fence"}))
      ELSE Trim(IF rest # <<>> THEN Front(rest) ELSE rest)

\* A fence on a line of its own, with or without a tag, is dropped with its line.
strip_fences(content) ==
  LET trimmed == Trim(content)
      line    == SelectInSeq(trimmed, LAMBDA x : x = "nl")
      rest    == SubSeq(trimmed, line + 1, Len(trimmed))
      shorter == TrimEnd(rest, {"nl"})
  IN  IF trimmed = <<>> \/ Head(trimmed) # "fence" THEN trimmed
      ELSE IF line = 0 THEN Trim(TrimEnd(TrimStart(trimmed, {"fence"}), {"fence"}))
      ELSE Trim(IF shorter # <<>> /\ Last(shorter) = "fence" THEN Front(shorter) ELSE rest)

\* A defect: what follows a semicolon is not looked at.
ensure_first_read_only(sql) ==
  LET end   == SelectInSeq(sql, LAMBDA x : x = "semicolon")
      words == SelectSeq(IF end = 0 THEN sql ELSE SubSeq(sql, 1, end), IsWord)
  IN  /\ words # <<>> /\ Head(words) \in {"SELECT", "WITH"}
      /\ ToSet(sql) \intersect {"--", "/*"} = {}
      /\ ToSet(words) \intersect Forbidden = {}

\* One statement without comments that begins as a read and has no other verb: Forbidden are words.
ensure_read_only(sql) ==
  LET body  == IF sql # <<>> /\ Last(sql) = "semicolon" THEN Front(sql) ELSE sql
      first == SelectInSeq(body, IsWord)
  IN  /\ sql # <<>>
      /\ ToSet(sql) \intersect {"--", "/*"} = {}
      /\ "semicolon" \notin ToSet(body)
      /\ first # 0 /\ body[first] \in {"SELECT", "WITH"}
      /\ ToSet(body) \intersect Forbidden = {}

\* A number beyond a u32 is taken for none.
max_rows(n) ==
  IF n = NotGiven \/ n >= Rows32 THEN DefaultRows
  ELSE IF n < 1       THEN 1
  ELSE IF n > Ceiling THEN Ceiling
  ELSE n

\* A missing field or a secret that does not resolve ends the node.
Begin(complete) ==
  /\ step = "start"
  /\ IF complete THEN step' = "schema" /\ UNCHANGED told ELSE Fail
  /\ UNCHANGED <<wanted, said, sent, ran>>

SchemaAnswers ==
  /\ step = "schema"
  /\ step' = "completion"
  /\ UNCHANGED <<wanted, said, sent, ran, told>>

\* The SQL is taken from the answer, guarded, and sent in the same breath.
CompletionAnswers ==
  /\ step = "completion"
  /\ said' \in Texts
  /\ LET sql == strip_fences(said')
     IN  IF ensure_read_only(sql)
         THEN /\ sent' = [sql |-> sql, max_rows |-> max_rows(wanted)]
              /\ step' = "query" /\ UNCHANGED told
         ELSE Fail /\ UNCHANGED sent
  /\ UNCHANGED <<wanted, ran>>

\* The lexemes outside the quotes.
Bare(sql) ==
  LET quotes(k) == Cardinality({j \in 1..k : sql[j] = "quote"})
  IN  [k \in DOMAIN sql |-> IF quotes(k) % 2 = 0 THEN sql[k] ELSE "quote"]

\* The gateway runs one well-formed statement: no fence, closed quotes.
GatewayRuns(sql) ==
  /\ "fence" \notin ToSet(sql)
  /\ Cardinality({j \in DOMAIN sql : sql[j] = "quote"}) % 2 = 0
  /\ Head(sql) \in {"SELECT", "WITH"}

QueryAnswers ==
  /\ step = "query" /\ GatewayRuns(sent.sql)
  /\ ran' = sent.sql
  /\ told' = [ok |-> TRUE, sql |-> sent.sql]
  /\ step' = "done"
  /\ UNCHANGED <<wanted, said, sent>>

\* A request is lost, given up after a minute, turned down or not understood;
\* a query may have been run all the same.
RequestFails(happened) ==
  /\ step \in {"schema", "completion", "query"}
  /\ ran' = IF step = "query" /\ happened /\ GatewayRuns(sent.sql) THEN sent.sql ELSE ran
  /\ Fail
  /\ UNCHANGED <<wanted, said, sent>>

SqlNext ==
  \/ \E complete \in BOOLEAN : Begin(complete)
  \/ SchemaAnswers
  \/ CompletionAnswers
  \/ QueryAnswers
  \/ \E happened \in BOOLEAN : RequestFails(happened)

-----------------------------------------------------------------------------
\* The statement between the model's fences, or all it wrote.
Written(text) ==
  LET opened == SelectInSeq(text, LAMBDA x : x = "fence")
      after  == TrimStart(SubSeq(text, opened + 1, Len(text)), {"fence"})
      line   == SelectInSeq(after, LAMBDA x : x = "nl")
      tagged == opened # 0 /\ line = 2 /\ after[1] = "sql"
      inner  == IF tagged THEN Tail(after) ELSE after
      closed == SelectInSeq(inner, LAMBDA x : x = "fence")
  IN  Trim(IF opened = 0 \/ closed = 0 THEN inner ELSE SubSeq(inner, 1, closed - 1))

\* The line that opens the fence carries no SQL of a longer statement.
FenceLineIsBare(text) ==
  LET trimmed == Trim(text)
      line    == SelectInSeq(trimmed, LAMBDA x : x = "nl")
  IN  trimmed # <<>> /\ Head(trimmed) = "fence" /\ line # 0
        => SubSeq(trimmed, 2, line - 1) \in {<<>>, <<"sql">>}

(* What is sent to the gateway is one read: outside quotes it has no       *)
(* second statement, no comment and no writing verb, whatever the model    *)
(* wrapped around it (guard.rs).  And a flow that is told ok has the       *)
(* answer to the statement it is shown, as the gateway ran it, within the  *)
(* ceiling of rows.  That is the statement the model wrote, all of it and  *)
(* nothing else: text around or after a fence makes an error, never        *)
(* another question (strip_fences).  Of one kind of text this is not       *)
(* claimed, and not so: a statement that begins on the line that opens the *)
(* fence and goes on below loses that line, and the rest may be another    *)
(* statement the gateway runs.  The rows asked for are those wanted, or    *)
(* the ceiling where more are; but a number that no u32 holds counts as    *)
(* none and gets the default, although it is out of range like any other   *)
(* (max_rows; its comment has every such number clamped).                  *)
AnswerIsToTheStatementWritten ==
  /\ step = "query" =>
       LET bare == Bare(sent.sql)
       IN  /\ ToSet(bare) \intersect (Forbidden \union {"--", "/*"}) = {}
           /\ \A k \in DOMAIN bare : bare[k] = "semicolon" => k = Len(bare)
  /\ told.ok =>
       /\ ran = told.sql /\ sent.sql = told.sql
       /\ FenceLineIsBare(said) => told.sql = Written(said)
       /\ sent.max_rows \in 1..Ceiling
       /\ wanted \in 1..Ceiling => sent.max_rows = wanted
       /\ wanted \in Ceiling..Rows32 - 1 => sent.max_rows = Ceiling
       /\ wanted \notin 0..Rows32 - 1 => sent.max_rows = DefaultRows

SqlTypeInvariant ==
  /\ step \in Requests /\ wanted \in Wanted
  /\ told.ok => step = "done" /\ said # <<>>
  /\ sent.max_rows \in 0..Ceiling
============================================================================
