CONSTANTS
    NHosts = 9
    Runner <- MixedRunners
    Type <- MixedType
    Physical <- MixedPhysical
    Catalina = {8}
    Unversioned = {9}
    MaxFailures = 1
SPECIFICATION Spec
INVARIANTS TypeOK HostStaysUp WokenVmIsOff RebootIsDirect
