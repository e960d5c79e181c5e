SPECIFICATION Spec
CONSTANTS
    Providers = {p1, p2}
    EnvProviders = {p2}
    Preset = {p1}
    Models = {m1}
    Jobs = {j1, j2, j3}
    Names = {n1, n2}
    Contents = {c1, c2}
    None = None
    PageSize = 1
    MaxClicks = 3
    MaxFaults = 1
    MaxSteps = 4
    MaxChanges = 1
    MaxRounds = 4
    MaxOpens = 3
    MaxVersions = 4
CHECK_DEADLOCK FALSE
INVARIANTS SettingsAreCurrent HistoryIsAPrefix SubmittedAsShown ContentIsOfItsJob RenderedIsLatest
