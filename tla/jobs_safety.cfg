SPECIFICATION FairSpec
CONSTANTS
    MaxJobs = 2
    QueueLimit = 2
    Seconds = 1
    MaxRequeues = 1
    MaxRestarts = 1
CHECK_DEADLOCK FALSE
INVARIANTS TypeOK NoStrandedQueue BusyJobHasWorker QueuedEventIsClear CancelIsSignalled
PROPERTY QueuedJobIsServed
