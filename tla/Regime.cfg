SPECIFICATION Spec
CONSTANTS
  r1 = r1
  old = old
  new = new
  mine = mine
  theirs = theirs
  detector = detector
  Intents <- MCIntents
  Revisions = {r1}
  Codes = {old, new}
  SourceSets = {mine, theirs}
  Detectors = {detector}
  Producers = {"macro", "foreign"}
  Weights = {0, 1}
  Artifacts <- MCArtifacts
  Deployments <- MCDeployments
  None = None
  Explored = {"RANGE", "BULL"}
  MaxTime = 1
  MaxDocs = 2
  MaxCapital = 1
  MaxMutations = 1
INVARIANTS IndInv CapitalIsOriginal FundedIsPermitted OneCodePerRevision BudgetPrecedesCandidate
CHECK_DEADLOCK FALSE
