CONSTANTS
    W <- MCW
    LW <- MCLW
    MAX_RANGES <- MCMaxRanges
    RArgs <- MCRArgs
    BoardArgs <- MCBoardArgs
    MaxOpts <- MCMaxOpts
SPECIFICATION Spec
\* One call of do_gscvd: it stops when it signs, validates or returns.
CHECK_DEADLOCK FALSE
INVARIANTS
    SignedAsWritten
