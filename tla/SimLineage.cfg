SPECIFICATION Spec
CONSTANTS
  i1 = i1
  i2 = i2
  Intents <- MCIntents
  Decided <- MCDecided
  Eligible <- MCEligible
  Expires <- MCExpires
  Allowlisted = {i1}
  MarketOf <- MCMarketOf
  Frames <- MCFrames
  NoFrame = NoFrame
  NoDecision = NoDecision
  Started = 1
  Ends = 4
  MaxAge = 1
  MaxLatency = 1
  MaxTime = 5
  MaxDocs = 1
INVARIANTS IndInv FillFollowsItsEvidence AdmittedOnFreshBook ReviewedCandidateOnly
CHECK_DEADLOCK FALSE
