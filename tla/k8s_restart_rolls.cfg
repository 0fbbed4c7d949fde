SPECIFICATION Spec
CONSTANTS
  r1 = r1  r2 = r2
  w1 = w1  w2 = w2
  pod1 = pod1  node1 = node1
  img1 = img1  img2 = img2
  Unset = Unset
  Runs = {r1, r2}
  Workloads = {w1}
  Pods = {pod1}
  Nodes = {node1}
  Images <- MCImages
  NonceMod = 3
  MaxRevision = 3
  GateValues = {"true"}
  MaxEdits = 0
  Replicas = {1, 2}
  InitialRevisions = {1}
  Inputs <- RestartInputs
  InitialTemplates <- PlainTemplates
INVARIANTS
  RestartAlwaysRolls
CHECK_DEADLOCK FALSE
