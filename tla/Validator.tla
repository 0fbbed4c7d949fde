----------------------------- MODULE Validator -----------------------------
(***************************************************************************)
(* component-chat2data-validator: is an intent one the whitelist allows,   *)
(* and with which columns and how many rows.  What counts as a forbidden   *)
(* pattern or an identifier is data of the intent here; which check comes  *)
(* first, and what it leaves of the intent, is the module's.               *)
(*                                                                         *)
(* A parameter is absent or any JSON value, but the code reads it in one   *)
(* shape only: columns, aggregates and group_by as arrays of strings,      *)
(* order_by as one of objects with a column, where and having as objects.  *)
(* Other stands for a value, or an item, of another shape.  An absent      *)
(* array is Other too where the code does not tell the two apart, and an   *)
(* absent object is the empty one.                                         *)
(***************************************************************************)
EXTENDS Integers, Sequences, SequencesExt, FiniteSets

CONSTANTS
  Whitelist,        \* [sqlite, github, mcp]
  Identifiers,      \* the names that may stand for a table or a column
  Other             \* JSON of another shape than the one the code reads

ASSUME WhitelistAssumption ==
  \A t \in DOMAIN Whitelist.sqlite.tables :
    /\ Whitelist.sqlite.tables[t].max_rows \in Nat
    /\ Whitelist.sqlite.tables[t].allowed_columns \subseteq STRING
ASSUME IdentifiersAssumption == Identifiers \subseteq STRING
ASSUME OtherIsNoString == Other \notin STRING /\ Other # "*"

\* Of the columns, None is Other as well.
NoVerdict == [valid |-> FALSE, pass_through |-> FALSE, some |-> FALSE,
              max_rows |-> 0, sanitized_columns |-> Other, errors |-> {}, warnings |-> {}]

Reject(code) == [NoVerdict EXCEPT !.errors = {code}]

Accept(max_rows, columns, warnings) ==
  [NoVerdict EXCEPT !.some = TRUE, !.max_rows = max_rows,
                    !.sanitized_columns = columns, !.warnings = warnings]

\* The names among the columns; what is no string is passed over without a word.
Columns(intent) ==
  IF intent.columns = Other THEN {} ELSE ToSet(intent.columns) \ {"*", Other}

\* A name that begins with a letter or _, has no other sign, and is no SQL keyword.
is_valid_identifier(name) == name \in Identifiers

\* One of the table's forbidden patterns occurs in the intent's parameters.
check_forbidden_patterns(intent) == intent.pattern

Allowed(table) == IF "*" \in table.allowed_columns THEN Identifiers
                  ELSE table.allowed_columns

\* The columns kept, in the order they were asked for: the loop pushes them one
\* after the other.  A column that is no string is not among the allowed ones.
Sanitized(intent, table) ==
  LET columns == intent.columns
      pushed[n \in 0..Len(columns)] ==
        IF n = 0 THEN <<>>
        ELSE IF columns[n] = "*" \/ columns[n] \in Allowed(table)
        THEN Append(pushed[n - 1], columns[n]) ELSE pushed[n - 1]
  IN  IF columns = Other THEN Other ELSE pushed[Len(columns)]

ColumnErrors(intent, table) ==
  (IF \A c \in Columns(intent) : is_valid_identifier(c) THEN {} ELSE {"INVALID_IDENTIFIER"})
  \union (IF \E c \in Columns(intent) : is_valid_identifier(c) /\ c \in table.forbidden_columns
          THEN {"COLUMN_FORBIDDEN"} ELSE {})

\* The first condition of the where clause that is refused decides.  Nothing
\* looks at having.
WhereError(intent, table) ==
  LET bad == SelectSeq(intent.where, LAMBDA c : ~is_valid_identifier(c.column)
                                             \/ c.column \in table.forbidden_columns)
  IN  IF intent.where = Other THEN "INVALID_WHERE"
      ELSE IF bad = <<>> THEN "none"
      ELSE IF ~is_valid_identifier(bad[1].column) THEN "INVALID_IDENTIFIER"
      ELSE "COLUMN_FORBIDDEN"

validate_columns(intent, table) ==
  LET errors == ColumnErrors(intent, table)
      last   == IF check_forbidden_patterns(intent) THEN "FORBIDDEN_PATTERN" ELSE WhereError(intent, table)
      warned == {c \in Columns(intent) : is_valid_identifier(c) /\
                   c \notin Allowed(table) \union table.forbidden_columns}
  IN  IF errors = {} /\ last = "none"
      THEN Accept(table.max_rows, Sanitized(intent, table), warned)
      ELSE [NoVerdict EXCEPT !.errors = errors \union ({last} \ {"none"}),
                             !.warnings = warned]

validate_sqlite_intent(intent) ==
  IF intent.action \notin Whitelist.sqlite.operations         THEN Reject("ACTION_NOT_ALLOWED")
  ELSE IF intent.table = ""                                   THEN Reject("MISSING_TABLE")
  ELSE IF ~is_valid_identifier(intent.table)                  THEN Reject("INVALID_IDENTIFIER")
  ELSE IF intent.table \notin DOMAIN Whitelist.sqlite.tables  THEN Reject("TABLE_NOT_ALLOWED")
  ELSE validate_columns(intent, Whitelist.sqlite.tables[intent.table])

\* A name is a sequence of its parts, a pattern has "*" among its own.
matches_glob(text, pattern) ==
  LET star   == SelectInSeq(pattern, LAMBDA p : p = "*")
      Before == SubSeq(pattern, 1, star - 1)
      After  == SubSeq(pattern, star + 1, Len(pattern))
  IN  IF pattern = <<"*">>         THEN TRUE
      ELSE IF Last(pattern) = "*" THEN IsPrefix(Front(pattern), text)
      ELSE IF Head(pattern) = "*" THEN IsSuffix(Tail(pattern), text)
      ELSE IF star # 0 /\ "*" \notin ToSet(After)
           THEN IsPrefix(Before, text) /\ IsSuffix(After, text)
      ELSE text = pattern

validate_github_intent(intent) ==
  LET config  == Whitelist.github
      Hit(ps) == \E p \in ps : matches_glob(intent.repo, p)
  IN  IF intent.action \notin config.operations THEN Reject("ACTION_NOT_ALLOWED")
      ELSE IF "repo" \in intent.given /\ config.repos # {} /\ ~Hit(config.repos)
           THEN Reject("REPO_NOT_ALLOWED")
      ELSE IF "repo" \in intent.given /\ Hit(config.forbidden) THEN Reject("REPO_FORBIDDEN")
      ELSE Accept(100, Other, {})

validate_mcp_intent(intent) ==
  LET config == Whitelist.mcp
  IN  IF intent.action \notin config.tools THEN Reject("TOOL_NOT_ALLOWED")
      ELSE IF /\ "path" \in intent.given
              /\ \E p \in config.forbidden_paths : matches_glob(intent.path, p)
           THEN Reject("PATH_FORBIDDEN")
      ELSE Accept(1000, Other,
                  IF \/ "path" \notin intent.given \/ config.extensions = {}
                     \/ \E e \in config.extensions : IsSuffix(<<e>>, intent.path)
                  THEN {} ELSE {"File extension not in allowed list"})

\* A defect: a warning stays a warning in strict mode.
validate_leniently(intent, strict_mode) ==
  LET v == CASE intent.target = "sqlite" -> validate_sqlite_intent(intent)
             [] intent.target = "github" -> validate_github_intent(intent)
             [] intent.target = "mcp"    -> validate_mcp_intent(intent)
             [] OTHER                    -> Reject("TARGET_NOT_ALLOWED")
  IN  [v EXCEPT !.valid = v.some /\ v.errors = {}]

\* In strict mode a warning is an error; what was validated is handed out anyway.
validate_intent(intent, strict_mode) ==
  LET v == CASE intent.target = "sqlite" -> validate_sqlite_intent(intent)
             [] intent.target = "github" -> validate_github_intent(intent)
             [] intent.target = "mcp"    -> validate_mcp_intent(intent)
             [] OTHER                    -> Reject("TARGET_NOT_ALLOWED")
      errors == v.errors \union (IF strict_mode /\ v.warnings # {}
                                 THEN {"STRICT_MODE_WARNING"} ELSE {})
  IN  [v EXCEPT !.errors = errors, !.valid = v.some /\ errors = {}]

\* Only a ready intent is validated.
handle_validate(status, intent, strict_mode) ==
  IF status # "ready"
  THEN [NoVerdict EXCEPT !.valid = TRUE, !.pass_through = TRUE]
  ELSE validate_intent(intent, strict_mode)
============================================================================
