SPECIFICATION FairSpec
CONSTANTS
  Runs = {r1, r2}
  Nodes <- MCNodes
  Inputs <- MCInputs
  Concurrent <- MCConcurrent
  Statuses <- MCStatuses
  MaxRotations = 1
  none = none
INVARIANTS
  TypeOK
  MetadataMatchesChecks
  SecretsAreReadByTheRun
  RefusedGrantEndsTheRun
PROPERTIES
  KeepsOneShotPromise
  ConfirmedChangeIsNotAnError
  EveryRunAnswers
CHECK_DEADLOCK FALSE
