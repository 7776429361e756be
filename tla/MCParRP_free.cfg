CONSTANTS
    NumWay = 3
    ParConfig <- MCParConfig
SPECIFICATION Spec
INVARIANT TablesFreedOnce
CHECK_DEADLOCK FALSE
