SPECIFICATION Spec
CONSTANTS
    g1 = g1  g2 = g2  p1 = p1  p2 = p2  s1 = s1  s2 = s2  s3 = s3
    Procs = {p1, p2}
    Subs = {s1, s2, s3}
    ProcOf <- SharedProcOf
    Groups = {g1, g2}
    GroupOf <- SharedGroupOf
    BatchSize = 2
    ScanLimit = 3
    MaxLen = 1
    ColdProcs = {}
    Poison = {}
    MaxMsg = 2
    MaxFaults = 0
    MaxLosses = 0
INVARIANTS
    NothingLost
    FreshOnce
    PendingInStream
PROPERTIES
    KeepsContract
