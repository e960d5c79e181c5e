SPECIFICATION Spec
CONSTANTS
    MaxJobs = 2
    QueueLimit = 2
    Seconds = 1
    MaxRequeues = 0
    MaxRestarts = 0
CHECK_DEADLOCK FALSE
PROPERTY CancelledIsFinal
