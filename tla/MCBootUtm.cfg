CONSTANTS
    NHosts = 3
    Runner <- UtmRunners
    Type <- UtmType
    Physical <- UtmPhysical
    Catalina = {}
    Unversioned = {}
    MaxFailures = 0
SPECIFICATION Spec
INVARIANTS NotLaunchedAgain
