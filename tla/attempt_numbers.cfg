SPECIFICATION Spec
CONSTANTS
    Servers = {s1}
    Docs = {d1}
    Keys = {k1}
    NoKey = NoKey
    MaxJobs = 4
    FaultSites = {}
    MaxFaults = 0
INVARIANT LineageNumbered
