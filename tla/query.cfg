SPECIFICATION Spec
CONSTANTS
    Corpora <- MCCorpora
    Updates <- MCUpdates
    Requests <- MCRequests
    Answers <- MCAnswers
    Faulty = {"dense", "sparse", "model"}
    Prefetch = 3
    Pool = 4
    RrfK = 1
    DenseWeight = 1
    SparseWeight = 1
    Alias <- MCAlias
    StartId = 1
    MaxTokens = 3
    BlockOverlap = 80
    NearTexts <- MCNearTexts
    Figures <- MCFigures
    ConflictCount = 2
INVARIANTS
    TypeOK
    FusionFollowsBranches
    ValidAnswersTraceable
    TrimmingKeepsCoverage
