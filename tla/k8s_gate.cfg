SPECIFICATION FairSpec
CONSTANTS
  r1 = r1  r2 = r2
  w1 = w1  w2 = w2
  pod1 = pod1  node1 = node1
  img1 = img1  img2 = img2
  Unset = Unset
  Runs = {r1, r2}
  Workloads = {w1}
  Pods = {pod1}
  Nodes = {node1}
  Images <- MCImages
  NonceMod = 3
  MaxRevision = 1
  GateValues = {"true", "false", "absent"}
  MaxEdits = 0
  Replicas = {1, 2}
  InitialRevisions = {1}
  Inputs <- GateInputs
  InitialTemplates <- SidecarTemplates
INVARIANTS
  TypeOK
  NoCallUnlessGranted
  ReplyTellsEffect
PROPERTIES
  DryRunLeavesCluster
  KeepsOneShotPromise
  EveryRunAnswers
