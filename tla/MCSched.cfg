CONSTANTS
    NTasks = 3
    NHosts = 2
    MinArray = 8
    MatchChoices <- SharedMatch
    JobChoices <- SomeJobs
    Elapsed <- Instant
SPECIFICATION FairSpec
INVARIANTS TypeOK TaskOwnership TestNeedsCleanBuild PendingJobUntouched DoneTaskIsRecorded BootedRunnersDrain
PROPERTIES HostNameIsSticky ImplementsJobPool SchedReturns
