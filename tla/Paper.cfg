SPECIFICATION Spec
CONSTANTS
  Intents <- MCIntents
  Reviews <- MCReviews
  Measurements <- MCMeasurements
  Environments <- MCEnvironments
  DevSymbols = {"BTCUSD:DEV"}
  None = None
  Quantities = {1, 2}
  Budgets = {3}
  MaxTime = 1
  MaxDecisions = 2
INVARIANTS IndInv AlwaysReportable BackedByOneApproval LossAtStop
CHECK_DEADLOCK FALSE
