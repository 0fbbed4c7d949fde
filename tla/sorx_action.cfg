SPECIFICATION FairSpec
CONSTANTS
  r1 = r1  r2 = r2
  pay = pay  refund = refund  payOp = payOp  refundOp = refundOp
  payTool = payTool  metric = metric
  p1 = p1  p2 = p2  tmpl = tmpl
  Nothing = Nothing
  Runs = {r1, r2}
  Ids = {pay, refund, payOp, refundOp, payTool, metric}
  MetricIds = {metric}
  Paths = {p1, p2, tmpl}
  Templates = {tmpl}
  Catalogs <- MCCatalogs
  Inputs <- MCInputs
INVARIANTS
  TypeOK
  ExecutesOnlyChecked
  ExecutesTheAction
  RehearsalForetells
PROPERTIES
  KeepsOneShotPromise
  EveryRunAnswers
