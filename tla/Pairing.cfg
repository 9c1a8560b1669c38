CONSTANTS
    first = first
    second = second
    own = own
    neighbour = neighbour
    Scope = own
    Scopes = {own, neighbour}
    AsOf = 1
    PairedAt = 2
    Deadline = 4
    Attempts = {first, second}
    ScopeOf <- Retry
    AlertValidity = 2
    None = None
    Expiries = {2, 3}
    Intents <- Emitted
    MaxTime = 3
    MaxRecords = 1
SPECIFICATION Spec
INVARIANTS TypeOK IndInv NoLookAhead LateAttemptBlocks ValidatorsAgree
SYMMETRY Alike
CHECK_DEADLOCK FALSE
