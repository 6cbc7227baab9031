\* One signing and one validation per behaviour; it ends when validation
\* returns.
CONSTANTS
    W <- MCW
    MAX_RANGES <- MCMaxRanges
    WP_RO <- MCWpRo
    RO_GSCVD <- MCRoGscvd
    RangeSet <- MCRangeSet
    ALIGN <- MCAlign
    WB_SIZE <- MCWbSize
    VERIFY_WB <- MCVerifyWb
    GVD_SIZE <- MCGvdSize
    KbSizes <- MCKbSizes
    SizeSet <- MCSizeSet
    MaxTamper <- MCMaxTamper
SPECIFICATION Spec
CHECK_DEADLOCK FALSE
INVARIANTS
    SignedImageValidates
    AcceptedMeansSigned
