CONSTANTS
    NTasks = 2
    NHosts = 2
    MinArray = 8
    MatchChoices <- PairMatch
    JobChoices <- FreshJobs
    Elapsed <- Instant
SPECIFICATION Spec
INVARIANTS SourcePackageReady
