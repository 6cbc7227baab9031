CONSTANTS
    MaxVersion <- MCMaxVersion
    MaxTries <- MCMaxTries
    MaxUpdates <- MCMaxUpdates
    MaxFaults <- MCMaxFaults
SPECIFICATION Spec
INVARIANTS
    TypeOK
    RollbackSafe
    FloorBackedByGoodBoot
PROPERTIES
    BrokenTryFallsBack
    AbsSpec
