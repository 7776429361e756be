CONSTANTS
    NumWay = 3
    ParConfig <- MCParConfig
SPECIFICATION Spec
INVARIANT TypeOK TablesAgree UnownedVictimExists
CHECK_DEADLOCK FALSE
