SPECIFICATION SubmitOnlySpec
CONSTANTS
    MaxJobs = 2
    QueueLimit = 2
    Seconds = 2
    MaxRequeues = 0
    MaxRestarts = 0
CHECK_DEADLOCK FALSE
INVARIANT OneRunningJob
