CONSTANTS
    MAX_NUM_BB = 9
    MAX_NUM_TASK = 4
    MAX_TASK_CHILDREN = 3
    PROBE_ACCESS <- MCExampleAccess
    PROGRAM <- SimpleV1
SPECIFICATION ExSpec
INVARIANT IngestMatchesTrace
CHECK_DEADLOCK FALSE
