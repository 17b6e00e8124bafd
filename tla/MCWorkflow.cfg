CONSTANTS
    a = a
    b = b
    c = c
    t = t
    debug = debug
    release = release
    arm = arm
    BuildTxt = BuildTxt
    Item <- Items
    Dest <- Dests
    JobName <- Jobs
    Priority <- Stages12
    Hosted <- Jobs
    Workflows <- OneWorkflow
    Forces <- NeverForced
    MaxVers = 2
    MaxDocVers = 2
    MaxFaults = 2
SPECIFICATION FairSpec
INVARIANTS TypeOK PackageHoldsWorkflow PriorityOrder CachedDocIsStored
PROPERTIES JobsGetDone
