CONSTANTS
  UsizeSize      <- MCUsizeSize
  Whitelist      <- MCWhitelist
  Identifiers    <- MCIdentifiers
  Other          =  Other
  Configs        <- MCConfigs
  Intents        <- MCIntents
  Sizes          =  {0, 1, 2, 11, 21, 99, 100, 101}
  Widths         =  {1, 2, 5}
  GithubStatuses =  {403, 404, 500}
  MaxTurns       =  1
  NoIntent       <- MCNoIntent
  Texts          <- MCTexts
  Wanted         <- MCWanted
  NotGiven       <- MCNotGiven
  Rows32         =  2000
  DefaultRows    =  100
  Ceiling        =  1000
SPECIFICATION Spec
INVARIANTS
  TypeInvariant
  QueryThatRunsMeansTheIntent
  RowsStayWithinTheLimit
  OmissionsAreMarked
  StrictProjectionIsTheOneAsked
  AnswerIsToTheStatementWritten
PROPERTY
  EveryQuestionIsAnswered
CHECK_DEADLOCK FALSE
