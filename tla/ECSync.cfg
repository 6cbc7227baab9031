CONSTANTS
    MaxFaults <- MCMaxFaults
    RO_RETRIES <- MCRoRetries
SPECIFICATION Spec
INVARIANTS
    TypeOK
    CompleteImpliesEcConformant
    SuccessLeavesNoRecoveryRequest
    NeverUpdateRunningImage
PROPERTIES
    SyncReachesKernel
    
    AbsSpec
