\* validate_gscvd ends after one GVD; its final state has no successor.
CONSTANTS
    W <- MCW
    MAX_RANGES <- MCMaxRanges
    WP_RO <- MCWpRo
    RO_GSCVD <- MCRoGscvd
    RangeSet <- MCRangesAll
SPECIFICATION Spec
CHECK_DEADLOCK FALSE
INVARIANT
    DigestReadsInsideWpRo
