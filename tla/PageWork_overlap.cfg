SPECIFICATION WorkSpec
CONSTANTS
    PoolPages = {1, 12}
INVARIANTS FailedAfterAllStrategies
CHECK_DEADLOCK FALSE
