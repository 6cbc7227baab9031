\* One call per behaviour: after it returns there is nothing more to do.
CONSTANTS
    W <- MCW
    ALIGN <- MCAlign
    Bytes <- MCBytes
    DLEN <- MCDlen
    RSA_SCRATCH <- MCRsaScratch
    WbSizes <- MCWbSizes
SPECIFICATION Spec
CHECK_DEADLOCK FALSE
INVARIANTS
    SafeMemcmpIsEquality
    AcceptsOnlyValid
    AcceptsValid
    EngineErrorReturned
