SPECIFICATION FairSpec
CONSTANTS
    g1 = g1  g2 = g2  p1 = p1  p2 = p2  s1 = s1  s2 = s2  s3 = s3
    Procs = {p1}
    Subs = {s1, s2}
    ProcOf <- OneProcOf
    Groups = {g1}
    GroupOf <- OneGroupOf
    BatchSize = 1
    ScanLimit = 1
    MaxLen = 1
    ColdProcs = {p1}
    Poison = {1}
    MaxMsg = 2
    MaxFaults = 1
    MaxLosses = 1
INVARIANTS
    IndInv
PROPERTIES
    KeepsContract
    DeliversAll
    GroupComesBack
