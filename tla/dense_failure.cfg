SPECIFICATION Spec
CONSTANTS
    Docs <- MCDocs
    Ids <- MCIds
    DocOf <- MCDocOf
    Versions = {"v1", "v2"}
    NoVersion = NoVersion
    Vecs <- MCVecs
    Near <- MCNear
    Batches <- Keyed
    Writers = {w1}
    FaultSites = {"optimize", "dense"}
    MaxFaults = 1
    CountsDeletes = FALSE
    Serialised = TRUE
    SizeConfigured = FALSE
INVARIANTS FailureRestores
