SPECIFICATION Spec
CONSTANTS
    Batches <- MCBatches
    Chunkers = {"fixed", "semantic"}
    Quirks = {"none", "times_out", "returns_nothing", "names_clauses", "malformed"}
    Disturbed = {"one"}
    MaxCalls = 2
    MaxLosses = 1
    MaxCloses = 1
    MinSize = 1
    MaxSize = 5
    MaxPages = 3
    Allowed <- MCAllowed
    Office = {"docx"}
    Email = {"eml"}
    Image = {"png"}
    FollowSymlinks = FALSE
    HasScanner = TRUE
    BlockUnscanned = TRUE
    BlockScanErrors = TRUE
    ScannedChars = 20
    ImageRatio = 50
    ImageChars = 100
    Symbols <- MCSymbols
    Numbers = {"7"}
    Shorts = {"7", "%", "a", "b", "c", "d", "x", "y", "w"}
    Stops = {"end"}
    Artifacts = {"page-no"}
    Banners = {"secret"}
    DefaultSection <- MCDefaultSection
    HeadingMaxWords = 2
    SentenceLimit = 1
    OcrReject = 40
    NearDuplicate = 50
    LegalSensitive = 80
    RepeatedPages = 2
    HeaderCutoff = 1
    BoilerplateRatio = 50
    MinTokens = 2
    LowOcr = 60
    JunkRatio = 50
    AnomalyTokens = 3
    AlphaRatio = 40
    DigitRatio = 60
    ChunkMin = 2
    ChunkTarget = 3
    ChunkMax = 4
    Overlap = 1
    MergeSimilarity = 30
    Separators <- MCSeparators
    Oversized = "recursive"
    IdPrefix = 3
    MaxEmbedding = 6
    Truncates = TRUE
    RowLimit = 1
    BatchSize = 2
    MaxRetries = 2
    VectorDuplicate = 80
INVARIANTS
    TypeOK
    AcceptedFilesDistinct
    FirstUsableParser
    SectionsAreAncestors
    CuratedUnlike
    ChunksCoverText
    EmbeddingsOwnText
    OneLiveResource
PROPERTY IngestAdvances
