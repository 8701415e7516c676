\* One sentence at a time: TLC stops at the first that is violated.
SPECIFICATION Spec
CONSTANTS
    Entries = {1, 2, 3, 4}
    MaxTries = 2
    MaxJobs = 2
    Operations = {"restart"}
PROPERTIES
    PostsAreFinal
    \* CounterNeverRunsBack
INVARIANTS
    \* DeliveredAfterCompletion
    \* ThreeAttempts
CHECK_DEADLOCK FALSE
