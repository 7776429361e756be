CONSTANTS
    NumWay = 3
    ParConfig <- MCParConfig
SPECIFICATION Spec
INVARIANT VictimSolelyOwned
CHECK_DEADLOCK FALSE
