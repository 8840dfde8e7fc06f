SPECIFICATION Spec
CONSTANTS
    Servers = {s1}
    Docs = {d1, d2}
    Keys = {k1}
    NoKey = NoKey
    MaxJobs = 3
    FaultSites = {"pipeline", "save", "crash"}
    MaxFaults = 2
INVARIANTS TypeOK OneJobPerKey ReportsOnlyIndexed ReplayRecovers ReplaysNumbered
SYMMETRY DocSymmetry
