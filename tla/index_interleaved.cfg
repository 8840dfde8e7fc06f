SPECIFICATION Spec
CONSTANTS
    Docs <- MCDocs
    Ids <- MCIds
    DocOf <- MCDocOf
    Versions = {"v1", "v2"}
    NoVersion = NoVersion
    Vecs <- MCVecs
    Near <- MCNear
    Batches <- Single
    Writers = {w1, w2}
    FaultSites = {}
    MaxFaults = 0
    CountsDeletes = TRUE
    Serialised = FALSE
    SizeConfigured = TRUE
INVARIANTS SuccessReplacesSparse SuccessUnifiesDense
SYMMETRY WriterSymmetry
