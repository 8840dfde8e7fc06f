SPECIFICATION Spec
CONSTANTS
    Docs <- MCDocs
    Ids <- MCIds
    DocOf <- MCDocOf
    Versions = {"v1", "v2"}
    NoVersion = NoVersion
    Vecs <- MCVecs
    Near <- MCNear
    Batches <- KeyedPlusOne
    Writers = {w1, w2}
    FaultSites = {"read", "stale", "sparse"}
    MaxFaults = 1
    CountsDeletes = FALSE
    Serialised = TRUE
    SizeConfigured = TRUE
PROPERTIES ImplementsAtomicIndex OnlyCurrentDocument
INVARIANTS IdleVersionsAgree
