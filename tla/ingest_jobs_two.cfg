SPECIFICATION FairSpec
CONSTANTS
    Servers = {s1, s2}
    Docs = {d1}
    Keys = {k1}
    NoKey = NoKey
    MaxJobs = 3
    FaultSites = {"pipeline"}
    MaxFaults = 1
INVARIANTS ReportsOnlyIndexed ReplayRecovers
PROPERTIES EndedForever EveryJobEnds
