CONSTANTS
    strategyOnly = strategyOnly
    strategyReview = strategyReview
    llmProposal = llmProposal
    n1 = n1
    n2 = n2
    l1 = l1
    l2 = l2
    Arms <- ThreeArms
    Control = strategyOnly
    Campaign = "campaign"
    Strategy = "revision"
    Snapshots = {n1, n2}
    Unpinned = Unpinned
    Rosters <- SomeRosters
    Offered <- SomeObservations
SPECIFICATION Spec
INVARIANTS IndInv JustVerdict
CHECK_DEADLOCK FALSE
