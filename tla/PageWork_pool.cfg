SPECIFICATION WorkSpec
CONSTANTS
    PoolPages = {1, 12}
INVARIANTS WorkTypeOK AloneFailsAfterAllStrategies NoLeftovers
CHECK_DEADLOCK FALSE
