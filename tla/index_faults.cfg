SPECIFICATION FairSpec
CONSTANTS
    Docs <- MCDocs
    Ids <- MCIds
    DocOf <- MCDocOf
    Versions = {"v1", "v2"}
    NoVersion = NoVersion
    Vecs <- MCVecs
    Near <- MCNear
    Batches <- KeyedAndUnversioned
    Writers = {w1}
    FaultSites = {"read", "dense", "stale", "optimize", "sparse", "rollback", "crash"}
    MaxFaults = 2
    CountsDeletes = FALSE
    Serialised = TRUE
    SizeConfigured = FALSE
INVARIANTS TypeOK WriterInv RollbackRestores StaleRollbackRestores SuccessReplacesSparse SuccessUnifiesDense SuccessCoversIncoming DenseNeverEmptied
PROPERTY EveryCallReturns
