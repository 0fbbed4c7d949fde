SPECIFICATION Spec
CONSTANTS
  r1 = r1  r2 = r2
  w1 = w1  w2 = w2
  pod1 = pod1  node1 = node1
  img1 = img1  img2 = img2
  Unset = Unset
  Runs = {r1, r2}
  Workloads = {w1, w2}
  Pods = {pod1}
  Nodes = {node1}
  Images <- MCImages
  NonceMod = 3
  MaxRevision = 3
  GateValues = {"true"}
  MaxEdits = 1
  Replicas = {2}
  InitialRevisions = {0, 1}
  Inputs <- WorkloadInputs
  InitialTemplates <- PlainTemplates
SYMMETRY Symmetry
INVARIANTS
  UncontendedRestartRolls
  UndoRestoresPredecessor
CHECK_DEADLOCK FALSE
