\* One call per behaviour: after it returns there is nothing more to do.
CONSTANT W <- MCW
SPECIFICATION Spec
CHECK_DEADLOCK FALSE
INVARIANTS
    SuccessImpliesContained
    ContainedImpliesSuccess
