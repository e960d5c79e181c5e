SPECIFICATION FairSpec
CONSTANTS
    Jobs = {j1, j2}
    None = None
    MaxEvents = 1
    HistoryLimit = 1
    QueueLimit = 2
    MaxLoads = 2
    MaxRequests = 1
    MaxIncidents = 2
CHECK_DEADLOCK FALSE
INVARIANTS OneJobFollowed CurrentIsFollowed ShownIsFollowed LossIsNoticed
PROPERTY FollowedToTheEnd
