SPECIFICATION Spec
CONSTANTS
    Docs <- MCDocs
    Ids <- MCIds
    DocOf <- MCDocOf
    Versions = {"v1", "v2"}
    NoVersion = NoVersion
    Vecs <- MCVecs
    Near <- MCNear
    Batches <- Unchanged
    Writers = {w1}
    FaultSites = {}
    MaxFaults = 0
    CountsDeletes = FALSE
    Serialised = TRUE
    SizeConfigured = TRUE
INVARIANTS SuccessCoversIncoming
