CONSTANTS
    a = a
    b = b
    c = c
    t = t
    debug = debug
    release = release
    arm = arm
    BuildTxt = BuildTxt
    Item <- Items
    Dest <- Dests
    JobName <- Jobs
    Priority <- Stages12
    Hosted <- Jobs
    Workflows <- Edited
    Forces <- ForcedToo
    MaxVers = 1
    MaxDocVers = 1
    MaxFaults = 2
SPECIFICATION Spec
PROPERTIES PackageFrozen DoneIsKept
