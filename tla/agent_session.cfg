SPECIFICATION FairSpec
CONSTANTS
    MaxSessions = 2
    MaxTurns = 2
    MaxCalls = 2
    TurnBudget = 2
    CompletedLimit = 1
    MaxShots = 2
    MaxFaults = 1
    IdsRestart = FALSE
INVARIANTS TypeOK NoMutualWait SuccessIsCurrent NoOrphan
PROPERTIES ResultIsTaken ExchangeKept DriverReturns LoopsEnd
