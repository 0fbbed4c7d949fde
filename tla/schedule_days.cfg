SPECIFICATION Spec
CONSTANTS
  Kinds = {"schedule"}
  Secrets <- MCSecrets
  MaxTimeout = 60
  MaxU32 = 100
  Minutes = 4
  Hours = 6
  MonthDays = 4
  FirstDay = 1
  MaxBody = 5
  MaxTtl = 7
  MaxId = 8
  Intents <- MCIntents
  Curls <- MCCurls
  Apis <- MCApis
  HttpEdits <- MCHttpEdits
  HttpInputs <- MCHttpInputs
  Responses <- MCResponses
  Phrases <- MCPhrases
  Crons <- MCCrons
  Providers <- MCProviders
  WebhookCurls <- MCWebhookCurls
  PathWords <- MCPathWords
  WebhookEdits <- MCWebhookEdits
  MailTriggers <- MCMailTriggers
  Answers <- MCAnswers
  MaxSteps = 3
  MaxEdits = 2
  MaxSetups = 2
INVARIANT SuggestedDaysAreTheDaysNamed
CHECK_DEADLOCK FALSE
