SPECIFICATION BridgeSpec
CONSTANTS
    Keys = {k1, k2}
    Urls = {u1, u2}
    None = None
    MaxRequests = 3
    MaxFaults = 1
    MaxRestarts = 1
    MaxVersion = 2
CHECK_DEADLOCK FALSE
INVARIANTS NothingForgotten MemoryIsCurrent KeysLeaveFile NothingAdopted StoredKeyStaysHome ListedIsNewest
