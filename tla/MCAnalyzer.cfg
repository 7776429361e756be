CONSTANTS
    t1 = t1
    t2 = t2
    Inputs <- AnalyzerInputs
    Lines = {1, 2}
    Threads <- MCThreads
    Cores = {2, 4, 8}
    Hits <- MCHits
SYMMETRY ThreadSymmetry
SPECIFICATION Spec
INVARIANT AnalyzerTypeOK ClassificationSound ClassificationComplete BoundWithinVolume WcrtsOrdered
CHECK_DEADLOCK FALSE
