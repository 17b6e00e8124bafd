CONSTANTS
    NTasks = 9
    NHosts = 9
    MinArray = 8
    MatchChoices <- OneEach
    JobChoices <- PlainJob
    Elapsed <- Instant
SPECIFICATION Spec
INVARIANTS BootedRunnersDrain
