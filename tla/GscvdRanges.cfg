\* validate_gscvd ends after one GVD; its final state has no successor.
CONSTANTS
    W <- MCW
    MAX_RANGES <- MCMaxRanges
    WP_RO <- MCWpRo
    RO_GSCVD <- MCRoGscvd
    RangeSet <- MCRangesNoWrap
SPECIFICATION Spec
CHECK_DEADLOCK FALSE
INVARIANTS
    TypeOK
    DigestReadsInsideWpRo
    AcceptedRangesDisjoint
    ValidRangesAccepted
