CONSTANTS
    Interval = 2
    IntervalCua = 1
    ProgressCheck = 10
    MaxLoads = 2
    MaxLat = 3
    MaxRetry = 2
    MaxRefusals = 2
SPECIFICATION Spec
INVARIANT TypeOK NoAssertFails NeverStalls NoFalseAlarm
CHECK_DEADLOCK FALSE
