CONSTANTS
    NThreads = 2
    NBlocks = 2
    NPages = 3
    PageSize = 7
    Header = 1
    Sizes = {1, 3, 4}
    CallsStartMt = TRUE
    NCommands = 2
    Programs <- Pairs
    Capacity = 1
    NFds = 4
    JobKinds <- Kinds
    MaxBuildVers = 2
    MaxCalls = 3
    NKeys = 8
    Run = {p, q, r}
    MaxKills = 2
    UintMax = 3
    ReportType <- ThisType
    Reports <- TheReports
    OldFiles <- TheOld
    Char <- TheChars
    Exprs <- TheExprs
    MaxText = 4
    Width = 6
    ElemSize = 2
    Contents <- TheContents
    Blocks <- TheBlocks
    MaxElems = 16
    MaxArrayCalls = 2
    Cache = 2
    PipeCache = 2
    FirstSizes = {0, 2}
    FileSizes = {0, 3}
    MaxBytes = 3
    MaxTransfer = 3
SPECIFICATION PartsSpec
INVARIANTS
    PartsTypeOK
    BlocksAreSafe MemoryIsAccounted
    OutputUnlessCut NothingIsLeft
    NothingStale PackageUnlessUnseen MessageOfResult
    TreeIsDictionary TreeIsBalanced PathsFit
     AloneUnlessRaced CleanUnlessRaced
    ReportSurvives TornIsRefused
    MatchIsLanguage ArrayIsSequence StreamIsQueue
PROPERTIES CommandsEnd
CHECK_DEADLOCK FALSE
