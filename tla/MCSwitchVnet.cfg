CONSTANTS
    N = 2
    Links = {1, 2}
    Cap = 1
    MaxMsg = 2
SPECIFICATION Spec
INVARIANT TypeOK OutputWithinCapacity
PROPERTY EveryMessageForwarded
CHECK_DEADLOCK FALSE
