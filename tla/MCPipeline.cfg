CONSTANTS
    MAX_NUM_BB = 9
    MAX_NUM_TASK = 4
    MAX_TASK_CHILDREN = 2
    PROBE_ACCESS <- MCProbeAccess
SPECIFICATION Spec
INVARIANT TypeOK ProbeAssertsHold IngestMatchesTrace PostCheckMatchesShape RefusesExactlyUnawaited
PROPERTY AnalysisTerminates AbstractSpec
CHECK_DEADLOCK FALSE
