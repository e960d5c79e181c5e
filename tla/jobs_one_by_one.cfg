SPECIFICATION OneByOneSpec
CONSTANTS
    MaxJobs = 3
    QueueLimit = 2
    Seconds = 2
    MaxRequeues = 0
    MaxRestarts = 1
CHECK_DEADLOCK FALSE
INVARIANTS OneRunningJob NoOvertaking QueueWithinLimit
