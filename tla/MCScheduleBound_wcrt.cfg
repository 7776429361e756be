CONSTANTS
    Inputs <- BoundInputs
    Weights = {5, 10}
    Cores = {1, 2, 4}
SPECIFICATION Spec
INVARIANT WcrtCoversCriticalPath
CHECK_DEADLOCK FALSE
