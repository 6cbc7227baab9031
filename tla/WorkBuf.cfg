CONSTANTS
    W <- MCW
    ALIGN <- MCAlign
    Sizes <- MCSizes
    MaxLive <- MCMaxLive
SPECIFICATION Spec
INVARIANTS
    TypeOK
    AllocationsExclusive
    AllocationsAligned
    FreeAllRestores
PROPERTIES
    ReallocKeepsPointer
