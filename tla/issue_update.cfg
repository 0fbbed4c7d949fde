SPECIFICATION FairSpec
CONSTANTS
  Runs = {r1, r2}
  Nodes <- MCNodes
  Inputs <- IssueUpdates
  Concurrent <- Alone
  Statuses <- MCStatuses
  MaxRotations = 1
  none = none
PROPERTIES
  IssueUpdateIsAnswered
CHECK_DEADLOCK FALSE
