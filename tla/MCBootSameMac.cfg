CONSTANTS
    NHosts = 4
    Runner <- MacRunners
    Type <- MacType
    Physical <- MacPhysical
    Catalina = {}
    Unversioned = {}
    MaxFailures = 0
SPECIFICATION Spec
INVARIANTS FoundRunningStaysUp
